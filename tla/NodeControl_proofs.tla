------------------------ MODULE NodeControl_proofs ------------------------
(***************************************************************************)
(* Proofs about NodeControl, for any number of Control Room requests in    *)
(* flight and of sessions: its types; that a session which runs has the    *)
(* models of the node, or a refresh on its way; that every session keeps   *)
(* the drain contract, however its controllers overlap; what a replacement *)
(* under work, a lost drain and an unapplied policy take; and that the     *)
(* operator's drain holds on every session that can serve, and others are  *)
(* given back, by controllers that take turns.                             *)
(***************************************************************************)
EXTENDS NodeContract, TLAPS

-----------------------------------------------------------------------------
\* Sessions are numbered from one, and the number of none is below them.
LEMMA SessionNumbers ==
    /\ MaxSession \in Nat /\ MaxSession >= 1
    /\ \A n : n \in Session <=> n \in Nat /\ 1 <= n /\ n <= MaxSession
BY NodeControlAssumption DEF MaxSession, Session

\* A new process has read and published nothing.
LEMMA TypeInit == Init => TypeOK
<1> SUFFICES ASSUME Init PROVE TypeOK OBVIOUS
<1>1. 0 \in 0..0 /\ 0 \in 0..MaxSaves /\ 0 \in 0..MaxChanges /\ 0 \in 0..MaxLosses
    BY NodeControlAssumption
<1>2. handler \in [Handler -> [at : Steps, target : 0..session]]
    <2>1. Idle \in [at : Steps, target : 0..session]
        BY <1>1 DEF Init, Idle, NoSession, Steps
    <2> QED BY <2>1 DEF Init
<1>3. update \in [at : UpdateSteps, target : 0..session, wasDraining : BOOLEAN]
    BY <1>1 DEF Init, NoUpdate, NoSession, UpdateSteps
<1>4. meta \in [policy : 0..store, models : 0..models] BY <1>1 DEF Init
<1>5. draining \in [Session -> BOOLEAN] BY DEF Init
<1>6. /\ store \in 0..MaxSaves /\ models \in 0..MaxChanges /\ losses \in 0..MaxLosses
      /\ resourcePolicy \in 0..store /\ generation \in Nat /\ seen \in 0..generation
    BY <1>1 DEF Init
<1>7. session \in Session \cup {NoSession} /\ active \in {NoSession, session} BY DEF Init
<1>8. phase \in Phases BY DEF Init, Phases
<1>9. changes \in BOOLEAN /\ manualDrain \in BOOLEAN BY Zenon DEF Init
<1>10. inflight \in 0..1 BY DEF Init
<1> QED BY <1>2, <1>3, <1>4, <1>5, <1>6, <1>7, <1>8, <1>9, <1>10 DEF TypeOK

\* A step of the reconnect loop.
LEMMA TypeLoop == TypeOK /\ (LoopStep \/ Admit \/ Complete \/ Lose) => TypeOK'
<1> SUFFICES ASSUME TypeOK, LoopStep \/ Admit \/ Complete \/ Lose PROVE TypeOK' OBVIOUS
<1> USE DEF TypeOK, refreshVars, factoryVars, linkVars, sessionVars, controlVars, loopVars
<1>1. CASE LoadPolicy BY <1>1 DEF LoadPolicy, Phases
<1>2. CASE CountGeneration BY <1>2 DEF CountGeneration, Phases
<1>3. CASE TakeSignal BY <1>3 DEF TakeSignal, Phases
<1>4. CASE Discover BY <1>4 DEF Discover, Phases
<1>5. CASE CheckStable BY <1>5 DEF CheckStable, Phases
<1>6. CASE Activate
    <2>1. session \in Nat /\ session' = session + 1 /\ session' \in Session
        BY <1>6, SessionNumbers DEF Activate, NoSession
    <2>2. 0..session \subseteq 0..session' BY <2>1
    <2>3. handler' \in [Handler -> [at : Steps, target : 0..session']]
        BY <1>6, <2>2 DEF Activate
    <2>4. update' \in [at : UpdateSteps, target : 0..session', wasDraining : BOOLEAN]
        BY <1>6, <2>2 DEF Activate
    <2> QED BY <1>6, <2>1, <2>3, <2>4 DEF Activate, Phases
<1>7. CASE SessionActive BY <1>7 DEF SessionActive, Phases
<1>8. CASE HookDrain BY <1>8 DEF HookDrain, Phases
<1>9. CASE Connect BY <1>9 DEF Connect, Phases
<1>10. CASE Refresh BY <1>10 DEF Refresh, Phases
<1>11. CASE Inactive BY <1>11 DEF Inactive, Phases
<1>12. CASE Reconnect BY <1>12 DEF Reconnect, Phases
<1>13. CASE Admit BY <1>13 DEF Admit
<1>14. CASE Complete BY <1>14 DEF Complete
<1>15. CASE Lose BY <1>15, NodeControlAssumption DEF Lose, Phases
<1> QED
    BY <1>1, <1>2, <1>3, <1>4, <1>5, <1>6, <1>7, <1>8, <1>9, <1>10, <1>11, <1>12, <1>13,
       <1>14, <1>15 DEF LoopStep, FactoryStep

\* What a step of a handler may leave in it.
LEMMA TypeAt ==
    ASSUME TypeOK, NEW h \in Handler, NEW l \in Steps, At(h, l)
    PROVE  handler' \in [Handler -> [at : Steps, target : 0..session]]
BY DEF TypeOK, At

\* A handler that has answered.
LEMMA TypeIdle ==
    ASSUME TypeOK, NEW h \in Handler, handler' = [handler EXCEPT ![h] = Idle]
    PROVE  handler' \in [Handler -> [at : Steps, target : 0..session]]
<1>1. Idle \in [at : Steps, target : 0..session]
    BY SessionNumbers DEF TypeOK, Idle, Steps, NoSession
<1> QED BY <1>1 DEF TypeOK

\* A step of a Control Room request.
LEMMA TypeHandler ==
    ASSUME TypeOK, NEW h \in Handler,
           \/ \E enabled \in BOOLEAN : SetDrain(h, enabled)
           \/ Save(h) \/ Install(h) \/ HandlerStep(h)
    PROVE  TypeOK'
<1> USE DEF TypeOK, refreshVars, factoryVars, linkVars, sessionVars, controlVars, loopVars
<1>1. CASE \E enabled \in BOOLEAN : SetDrain(h, enabled)
    BY <1>1, TypeAt DEF SetDrain, Steps
<1>2. CASE Save(h)
    <2>1. active \in 0..session BY SessionNumbers DEF NoSession
    <2>2. handler' \in [Handler -> [at : Steps, target : 0..session]]
        BY <1>2, <2>1 DEF Save, Steps
    <2> QED BY <1>2, <2>2 DEF Save
<1>3. CASE Install(h)
    <2>1. models' \in 0..MaxChanges /\ 0..models \subseteq 0..models'
        BY <1>3, NodeControlAssumption DEF Install
    <2>2. meta' \in [policy : 0..store, models : 0..models'] BY <1>3, <2>1 DEF Install
    <2>3. handler' \in [Handler -> [at : Steps, target : 0..session]]
        BY <1>3, TypeAt DEF Install, Steps
    <2> QED BY <1>3, <2>1, <2>2, <2>3 DEF Install
<1>4. CASE SetDrainTarget(h)
    <2>1. active \in 0..session BY SessionNumbers DEF NoSession
    <2>2. CASE active = NoSession BY <1>4, <2>2, TypeIdle DEF SetDrainTarget
    <2>3. CASE active # NoSession
        <3>1. handler' = [handler EXCEPT ![h] = [@ EXCEPT !.target = active]]
            BY <1>4, <2>3 DEF SetDrainTarget
        <3>2. handler' \in [Handler -> [at : Steps, target : 0..session]] BY <2>1, <3>1
        <3> QED BY <1>4, <3>2 DEF SetDrainTarget
    <2> QED BY <2>2, <2>3
<1>5. CASE SetDrainApply(h)
    BY <1>5, TypeIdle DEF SetDrainApply
<1>6. CASE SaveBegin(h)
    BY <1>6, TypeAt DEF SaveBegin, Steps
<1>7. CASE SaveWait(h) \/ SavePark(h)
    BY <1>7, TypeAt DEF SaveWait, SavePark, Steps
<1>8. CASE SaveStore(h)
    <2>1. CASE store' = store + 1 /\ store < MaxSaves /\ At(h, "notify")
        <3>1. store' \in 0..MaxSaves /\ 0..store \subseteq 0..store'
            BY <2>1, NodeControlAssumption
        <3>2. meta' \in [policy : 0..store', models : 0..models] BY <1>8, <3>1 DEF SaveStore
        <3>3. handler' \in [Handler -> [at : Steps, target : 0..session]]
            BY <2>1, TypeAt DEF Steps
        <3> QED BY <1>8, <3>1, <3>2, <3>3 DEF SaveStore
    <2>2. CASE /\ UNCHANGED store
               /\ handler' = [handler EXCEPT ![h] =
                     IF @.target = NoSession THEN Idle ELSE [@ EXCEPT !.at = "rollback"]]
        <3>1. handler' = [handler EXCEPT ![h] = Idle] \/ At(h, "rollback")
            BY <2>2 DEF At
        <3>2. handler' \in [Handler -> [at : Steps, target : 0..session]]
            BY <3>1, TypeIdle, TypeAt DEF Steps
        <3> QED BY <1>8, <2>2, <3>2 DEF SaveStore
    <2> QED BY <1>8, <2>1, <2>2 DEF SaveStore
<1>9. CASE SaveRollback(h)
    BY <1>9, TypeIdle DEF SaveRollback
<1>10. CASE NotifyCount(h)
    <2>1. generation' \in Nat /\ 0..generation \subseteq 0..generation'
        BY <1>10 DEF NotifyCount
    <2>2. handler' \in [Handler -> [at : Steps, target : 0..session]]
        BY <1>10, TypeAt DEF NotifyCount, Steps
    <2> QED BY <1>10, <2>1, <2>2 DEF NotifyCount
<1>11. CASE NotifySignal(h)
    BY <1>11, TypeIdle DEF NotifySignal
<1> QED
    BY <1>1, <1>2, <1>3, <1>4, <1>5, <1>6, <1>7, <1>8, <1>9, <1>10, <1>11 DEF HandlerStep

\* The updater has a session to drain in every step before the wait ends.
UpdateHasTarget ==
    update.at \in {"manual", "state", "begin", "wait", "parked"} => update.target # NoSession

\* A step of the updater.
LEMMA TypeUpdate ==
    TypeOK /\ UpdateHasTarget /\ (StartUpdate \/ UpdateStep) => TypeOK' /\ UpdateHasTarget'
<1> SUFFICES ASSUME TypeOK, UpdateHasTarget, StartUpdate \/ UpdateStep
             PROVE  TypeOK' /\ UpdateHasTarget'
    OBVIOUS
<1> USE DEF TypeOK, UpdateHasTarget,
            refreshVars, factoryVars, linkVars, sessionVars, controlVars, loopVars
<1>1. active \in 0..session /\ NoSession \in 0..session BY SessionNumbers DEF NoSession
<1>2. CASE StartUpdate BY <1>1, <1>2 DEF StartUpdate, UpdateSteps
<1>3. CASE ReadManual BY <1>3 DEF ReadManual, UpdateSteps
<1>4. CASE ReadDrainState
    <2>1. update.target \in Session
        BY <1>4, SessionNumbers DEF ReadDrainState, NoSession
    <2> QED BY <1>4, <2>1 DEF ReadDrainState, UpdateSteps
<1>5. CASE UpdateDrain BY <1>5 DEF UpdateDrain, Upd, UpdateSteps
<1>6. CASE UpdateWait \/ UpdatePark BY <1>6 DEF UpdateWait, UpdatePark, Upd, UpdateSteps
<1>7. CASE Exec BY <1>7 DEF Exec, Upd, UpdateSteps
<1>8. CASE StageFails BY <1>8 DEF StageFails, Upd, UpdateSteps
<1>9. CASE Resume
    <2>1. /\ update' \in [at : UpdateSteps, target : 0..session, wasDraining : BOOLEAN]
          /\ update'.at = "idle"
        BY <1>1, <1>9 DEF Resume, NoUpdate, UpdateSteps
    <2> QED BY <1>9, <2>1 DEF Resume
<1> QED
    BY <1>2, <1>3, <1>4, <1>5, <1>6, <1>7, <1>8, <1>9 DEF UpdateStep

\* Every step keeps the types: the loop and the handlers leave the updater alone.
LEMMA TypeNext == TypeOK /\ UpdateHasTarget /\ [Next]_vars => TypeOK' /\ UpdateHasTarget'
<1> SUFFICES ASSUME TypeOK, UpdateHasTarget, [Next]_vars PROVE TypeOK' /\ UpdateHasTarget'
    OBVIOUS
<1>1. CASE UNCHANGED vars
    BY <1>1 DEF vars, TypeOK, UpdateHasTarget, refreshVars, factoryVars, linkVars,
                sessionVars, controlVars, loopVars
<1>2. CASE LoopStep \/ Admit \/ Complete \/ Lose
    BY <1>2, TypeLoop DEF UpdateHasTarget, controlVars, LoopStep, FactoryStep, LoadPolicy,
       CountGeneration, TakeSignal, Discover, CheckStable, Activate, SessionActive,
       HookDrain, Connect, Refresh, Inactive, Reconnect, Admit, Complete, Lose
<1>3. ASSUME NEW h \in Handler,
             \/ \E enabled \in BOOLEAN : SetDrain(h, enabled)
             \/ Save(h) \/ Install(h) \/ HandlerStep(h)
      PROVE  TypeOK' /\ UpdateHasTarget'
    BY <1>3, TypeHandler DEF UpdateHasTarget, SetDrain, Save, Install, HandlerStep,
       SetDrainTarget, SetDrainApply, SaveBegin, SaveWait, SavePark, SaveStore, SaveRollback,
       NotifyCount, NotifySignal
<1>4. CASE StartUpdate \/ UpdateStep
    BY <1>4, TypeUpdate
<1> QED BY <1>1, <1>2, <1>3, <1>4 DEF Next

\* The types are right in every state.
LEMMA TypeInvariant == Spec => [](TypeOK /\ UpdateHasTarget)
<1>1. Init => UpdateHasTarget BY DEF Init, UpdateHasTarget, NoUpdate
<1> QED BY <1>1, TypeInit, TypeNext, PTL DEF Spec

\* Versions and sessions stay within what the node has seen, and every step of a
\* handler or of the updater is one the program has, for any number of handlers.
THEOREM ControlTyped == Spec => []TypeOK
BY TypeInvariant, PTL

\* A step is one of the updater's, or leaves the updater as it is.
LEMMA NextLeaves ==
    ASSUME [Next]_vars
    PROVE  StartUpdate \/ UpdateStep \/ UNCHANGED update
<1>1. CASE LoopStep \/ Admit \/ Complete \/ Lose
    BY <1>1 DEF controlVars, LoopStep, FactoryStep, LoadPolicy, CountGeneration, TakeSignal,
       Discover, CheckStable, Activate, SessionActive, HookDrain, Connect, Refresh, Inactive,
       Reconnect, Admit, Complete, Lose
<1>2. ASSUME NEW h \in Handler,
             \/ \E enabled \in BOOLEAN : SetDrain(h, enabled)
             \/ Save(h) \/ Install(h) \/ HandlerStep(h)
      PROVE  UNCHANGED update
    BY <1>2 DEF SetDrain, Save, Install, HandlerStep, SetDrainTarget, SetDrainApply, SaveBegin,
       SaveWait, SavePark, SaveStore, SaveRollback, NotifyCount, NotifySignal
<1>3. CASE UNCHANGED vars BY <1>3 DEF vars, controlVars
<1> QED BY <1>1, <1>2, <1>3 DEF Next

-----------------------------------------------------------------------------
\* The snapshot.  A change of the models is on its way from Install until its token is
\* in the channel; a discovery that missed it sees that the generation has moved, and a
\* session whose snapshot missed it finds the token.
Announced == changes \/ \E h \in Handler : Notifying(h)

DiscoveryHonest ==
    phase = "discovered" =>
        \/ meta.models = models \/ seen < generation
        \/ \E h \in Handler : handler[h].at = "notify"

SessionHonest ==
    phase \in {"created", "activated", "hooked", "connecting", "running"}
        => meta.models = models \/ Announced

Honest == DiscoveryHonest /\ SessionHonest

\* A step that changes neither snapshot nor models, keeps or delivers what was announced
\* and stays on its side of the discovery.
LEMMA HonestKept ==
    ASSUME TypeOK, Honest, UNCHANGED <<models, meta, seen, generation>>,
           Announced => Announced',
           \A h \in Handler : handler[h].at = "notify" => handler'[h].at = "notify",
           phase' = "discovered" => phase = "discovered",
           \/ phase \in {"created", "activated", "hooked", "connecting", "running"}
           \/ phase' \notin {"created", "activated", "hooked", "connecting", "running"}
    PROVE  Honest'
BY DEF Honest, DiscoveryHonest, SessionHonest

\* A handler that is not telling the loop of a change takes a step that tells nothing.
LEMMA AnnouncedKept ==
    ASSUME TypeOK, NEW h \in Handler, NEW r, handler' = [handler EXCEPT ![h] = r],
           ~Notifying(h), UNCHANGED changes
    PROVE  /\ Announced => Announced'
           /\ \A g \in Handler : handler[g].at = "notify" => handler'[g].at = "notify"
BY DEF TypeOK, Announced, Notifying

\* One step per action.
LEMMA HonestNext == TypeOK /\ Honest /\ [Next]_vars => Honest'
<1> SUFFICES ASSUME TypeOK, Honest, [Next]_vars PROVE Honest' OBVIOUS
<1> USE DEF refreshVars, factoryVars, linkVars, sessionVars, controlVars, loopVars
<1>1. CASE UNCHANGED vars
    BY <1>1, HonestKept DEF vars, Announced, Notifying
<1>2. CASE LoadPolicy \/ CountGeneration \/ TakeSignal
    BY <1>2 DEF LoadPolicy, CountGeneration, TakeSignal, Honest, DiscoveryHonest, SessionHonest
<1>3. CASE Discover
    BY <1>3 DEF Discover, Honest, DiscoveryHonest, SessionHonest
<1>4. CASE CheckStable
    BY <1>4 DEF CheckStable, TypeOK, Honest, DiscoveryHonest, SessionHonest, Announced,
                Notifying
<1>5. CASE Activate \/ SessionActive \/ HookDrain \/ Connect \/ Admit \/ Complete
    BY <1>5, HonestKept
       DEF Activate, SessionActive, HookDrain, Connect, Admit, Complete, Announced, Notifying
<1>6. CASE Refresh \/ Lose \/ Inactive \/ Reconnect
    BY <1>6 DEF Refresh, Lose, Inactive, Reconnect, Honest, DiscoveryHonest, SessionHonest
<1>7. ASSUME NEW h \in Handler,
             \/ \E enabled \in BOOLEAN : SetDrain(h, enabled)
             \/ Save(h) \/ SetDrainTarget(h) \/ SetDrainApply(h) \/ SaveBegin(h)
             \/ SaveWait(h) \/ SavePark(h) \/ SaveStore(h) \/ SaveRollback(h)
      PROVE  Honest'
    <2>1. ~Notifying(h) /\ UNCHANGED <<refreshVars, loopVars, models>>
        BY <1>7 DEF Notifying, SetDrain, Save, SetDrainTarget, SetDrainApply, SaveBegin,
                    SaveWait, SavePark, SaveStore, SaveRollback
    <2>2. \E r : handler' = [handler EXCEPT ![h] = r]
        BY <1>7 DEF At, SetDrain, Save, SetDrainTarget, SetDrainApply, SaveBegin,
                    SaveWait, SavePark, SaveStore, SaveRollback
    <2> QED BY <2>1, <2>2, AnnouncedKept, HonestKept
<1>8. ASSUME NEW h \in Handler, Install(h) \/ NotifyCount(h) PROVE Honest'
    <2>1. handler'[h].at \in {"notify", "signal"} BY <1>8 DEF Install, NotifyCount, At, TypeOK
    <2>2. Announced' BY <2>1 DEF Announced, Notifying
    <2>3. CASE Install(h)
        <3>1. handler'[h].at = "notify" BY <2>3 DEF Install, At, TypeOK
        <3> QED BY <2>2, <3>1 DEF Honest, DiscoveryHonest, SessionHonest
    <2>4. CASE NotifyCount(h)
        BY <2>2, <2>4
           DEF NotifyCount, At, TypeOK, Honest, DiscoveryHonest, SessionHonest
    <2> QED BY <1>8, <2>3, <2>4
<1>9. ASSUME NEW h \in Handler, NotifySignal(h) PROVE Honest'
    BY <1>9, HonestKept DEF NotifySignal, TypeOK, Announced, Notifying
<1>10. CASE StartUpdate \/ UpdateStep
    BY <1>10, HonestKept
       DEF StartUpdate, UpdateStep, ReadManual, ReadDrainState, UpdateDrain, UpdateWait,
           UpdatePark, Exec, StageFails, Resume, Announced, Notifying
<1> QED
    BY <1>1, <1>2, <1>3, <1>4, <1>5, <1>6, <1>7, <1>8, <1>9, <1>10
    DEF Next, LoopStep, FactoryStep, HandlerStep

\* A session that runs with an old snapshot always has its refresh coming, for any number
\* of changes and of handlers that notify at the same time.
THEOREM SnapshotsFresh == Spec => []SnapshotFresh
<1>1. Init => Honest BY DEF Init, Honest, DiscoveryHonest, SessionHonest
<1>2. Honest => SnapshotFresh
    BY DEF Honest, SessionHonest, Announced, SnapshotFresh
<1> QED BY <1>1, <1>2, HonestNext, TypeInvariant, PTL DEF Spec

\* A session authenticates with everything that was notified before it was created.
THEOREM SnapshotsCurrent == Spec => AuthSnapshotCurrent
<1>1. TypeOK /\ Honest /\ [Next]_vars
        => (phase = "discovered" /\ phase' = "created" =>
              meta.models = models \/ \E h \in Handler : handler[h].at = "notify")
    <2> SUFFICES ASSUME TypeOK, Honest, [Next]_vars, phase = "discovered", phase' = "created"
                 PROVE  meta.models = models \/ \E h \in Handler : handler[h].at = "notify"
        OBVIOUS
    <2>1. CheckStable
        BY DEF Next, vars, LoopStep, FactoryStep, HandlerStep, UpdateStep, loopVars,
           LoadPolicy, CountGeneration, TakeSignal, Discover, Activate, SessionActive,
           HookDrain, Connect, Admit, Complete, Refresh, Lose, Inactive, Reconnect, SetDrain,
           SetDrainTarget, SetDrainApply, Save, SaveBegin, SaveWait, SavePark, SaveStore,
           SaveRollback, Install, NotifyCount, NotifySignal, StartUpdate, ReadManual,
           ReadDrainState, UpdateDrain, UpdateWait, UpdatePark, Exec, StageFails, Resume
    <2> QED BY <2>1 DEF CheckStable, TypeOK, Honest, DiscoveryHonest
<1>2. Init => Honest BY DEF Init, Honest, DiscoveryHonest, SessionHonest
<1> QED BY <1>1, <1>2, HonestNext, TypeInvariant, PTL DEF Spec, AuthSnapshotCurrent

-----------------------------------------------------------------------------
\* The session the controllers find, however they overlap.

\* The session is published from the Active hook to the Inactive hook.
Published ==
    IF phase \in {"activated", "hooked", "connecting", "running", "closing"}
    THEN active = session /\ session # NoSession
    ELSE active = NoSession

\* An idle handler has no session, and a Save that drains one knows it.
Shaped ==
    \A h \in Handler :
        /\ handler[h].at = "idle" => handler[h].target = NoSession
        /\ handler[h].at \in {"begin", "wait", "parked", "rollback"}
              => handler[h].target # NoSession

\* Inference is of a session that runs, or that waits for it to end.
Worked == inflight # 0 => phase \in {"running", "closing"}

Placed == UpdateHasTarget /\ Published /\ Shaped /\ Worked

\* A step of the reconnect loop leaves the controllers alone.
LEMMA PlacedLoop ==
    ASSUME TypeOK, Placed, LoopStep \/ Admit \/ Complete \/ Lose
    PROVE  UNCHANGED <<handler, update, store, models, manualDrain>>
           /\ Published' /\ Shaped' /\ Worked'
<1> USE DEF refreshVars, factoryVars, linkVars, sessionVars, controlVars, loopVars
<1>1. UNCHANGED <<handler, update, store, models, manualDrain>>
    BY DEF LoopStep, FactoryStep, LoadPolicy, CountGeneration, TakeSignal, Discover,
       CheckStable, Activate, SessionActive, HookDrain, Connect, Refresh, Inactive, Reconnect,
       Admit, Complete, Lose
<1>2. Published'
    <2>1. CASE Activate BY <2>1, SessionNumbers DEF Activate, TypeOK, NoSession, Published
    <2>2. CASE FactoryStep \/ SessionActive \/ HookDrain \/ Connect \/ Refresh \/ Inactive
               \/ Reconnect \/ Admit \/ Complete \/ Lose
        BY <2>2 DEF FactoryStep, LoadPolicy, CountGeneration, TakeSignal, Discover,
           CheckStable, SessionActive, HookDrain, Connect, Refresh, Inactive, Reconnect,
           Admit, Complete, Lose, Placed, Published
    <2> QED BY <2>1, <2>2 DEF LoopStep
<1>3. Worked'
    BY DEF Placed, Worked, LoopStep, FactoryStep, LoadPolicy, CountGeneration, TakeSignal,
       Discover, CheckStable, Activate, SessionActive, HookDrain, Connect, Refresh, Inactive,
       Reconnect, Admit, Complete, Lose
<1> QED BY <1>1, <1>2, <1>3 DEF Placed, Shaped

\* A step of a Control Room request leaves the reconnect loop and the updater alone.
LEMMA PlacedHandler ==
    ASSUME TypeOK, Placed, NEW h \in Handler,
           \/ \E enabled \in BOOLEAN : SetDrain(h, enabled)
           \/ Save(h) \/ Install(h) \/ HandlerStep(h)
    PROVE  /\ UNCHANGED <<phase, session, active, inflight, update>>
           /\ \A g \in Handler : g # h => handler'[g] = handler[g]
           /\ Shaped'
<1> USE DEF refreshVars, factoryVars, linkVars, sessionVars, controlVars, loopVars
<1>1. UNCHANGED <<phase, session, active, inflight, update>>
    BY DEF SetDrain, Save, Install, HandlerStep, SetDrainTarget, SetDrainApply, SaveBegin,
       SaveWait, SavePark, SaveStore, SaveRollback, NotifyCount, NotifySignal
<1>2. \E r : handler' = [handler EXCEPT ![h] = r]
    BY DEF At, SetDrain, Save, Install, HandlerStep, SetDrainTarget, SetDrainApply, SaveBegin,
       SaveWait, SavePark, SaveStore, SaveRollback, NotifyCount, NotifySignal
<1>3. \A g \in Handler : g # h => handler'[g] = handler[g] BY <1>2 DEF TypeOK
<1>4. /\ handler'[h].at = "idle" => handler'[h].target = NoSession
      /\ handler'[h].at \in {"begin", "wait", "parked", "rollback"}
            => handler'[h].target # NoSession
    <2>1. CASE \E enabled \in BOOLEAN : SetDrain(h, enabled)
        BY <2>1 DEF SetDrain, At, TypeOK
    <2>2. CASE Save(h) \/ Install(h) BY <2>2 DEF Save, Install, At, TypeOK
    <2>3. CASE NotifyCount(h) \/ NotifySignal(h)
        BY <2>3 DEF NotifyCount, NotifySignal, At, Idle, TypeOK
    <2>4. CASE SetDrainTarget(h) \/ SetDrainApply(h)
        BY <2>4 DEF SetDrainTarget, SetDrainApply, Idle, TypeOK
    <2>5. CASE SaveBegin(h) \/ SaveWait(h) \/ SavePark(h)
        BY <2>5 DEF SaveBegin, SaveWait, SavePark, At, TypeOK, Placed, Shaped
    <2>6. CASE SaveStore(h) \/ SaveRollback(h)
        BY <2>6 DEF SaveStore, SaveRollback, At, Idle, TypeOK
    <2> QED BY <2>1, <2>2, <2>3, <2>4, <2>5, <2>6 DEF HandlerStep
<1> QED BY <1>1, <1>3, <1>4 DEF Placed, Shaped

\* A step of the updater leaves the reconnect loop and the handlers alone.
LEMMA PlacedUpdate ==
    ASSUME StartUpdate \/ UpdateStep
    PROVE  UNCHANGED <<store, models, manualDrain, refreshVars, loopVars, inflight, handler>>
BY DEF StartUpdate, UpdateStep, ReadManual, ReadDrainState, UpdateDrain, UpdateWait,
   UpdatePark, Exec, StageFails, Resume, sessionVars

\* Every step keeps the session and its controllers in their places.
LEMMA PlacedNext == TypeOK /\ Placed /\ [Next]_vars => TypeOK' /\ Placed'
<1> SUFFICES ASSUME TypeOK, Placed, [Next]_vars PROVE TypeOK' /\ Placed' OBVIOUS
<1>1. TypeOK' /\ UpdateHasTarget' BY TypeNext DEF Placed
<1>2. CASE UNCHANGED vars
    BY <1>1, <1>2 DEF vars, loopVars, linkVars, sessionVars, controlVars, Placed, Published,
       Shaped, Worked
<1>3. CASE LoopStep \/ Admit \/ Complete \/ Lose BY <1>1, <1>3, PlacedLoop DEF Placed
<1>4. ASSUME NEW h \in Handler,
             \/ \E enabled \in BOOLEAN : SetDrain(h, enabled)
             \/ Save(h) \/ Install(h) \/ HandlerStep(h)
      PROVE  Placed'
    BY <1>1, <1>4, PlacedHandler DEF Placed, Published, Worked
<1>5. CASE StartUpdate \/ UpdateStep
    BY <1>1, <1>5, PlacedUpdate DEF loopVars, linkVars, Placed, Published, Shaped, Worked
<1> QED BY <1>1, <1>2, <1>3, <1>4, <1>5 DEF Next

\* They are in every state.
LEMMA PlacedInvariant == Spec => [](TypeOK /\ Placed)
<1>1. Init => Placed
    BY DEF Init, Placed, UpdateHasTarget, Published, Shaped, Worked, Idle, NoUpdate, NoSession
<1> QED BY <1>1, TypeInit, PlacedNext, PTL DEF Spec

-----------------------------------------------------------------------------
\* The contract of each session, composed from what all the controllers do to it, in any
\* order and at any time.  Module Admission shows that one session keeps it.

\* What a session is for its controllers: its steps, or nothing it can see.
Kept(s) == [Promise(s)!Next]_(Promise(s)!vars)

\* Controllers whose wait is confirmed still act on it, and their session is quiet.
Confirmed ==
    /\ confirmed \in [Session -> SUBSET (Handler \cup {Updater})]
    /\ \A s \in Session :
          /\ confirmed[s] \subseteq Holding(s)
          /\ confirmed[s] # {} => draining[s] /\ Running(s) = 0

\* What the history takes from a step.
LEMMA ConfirmStep ==
    ASSUME Confirm, NEW s \in Session
    PROVE  confirmed'[s] = IF draining[s] /\ ~draining'[s] THEN {}
                           ELSE {w \in Holding(s)' : w \in confirmed[s] \/ w \notin Holding(s)}
BY DEF Confirm

\* Controllers that hold what they held keep what was confirmed to them.
LEMMA ConfirmSame ==
    ASSUME Confirmed, Confirm, NEW s \in Session, Holding(s)' = Holding(s),
           draining[s] => draining'[s]
    PROVE  confirmed'[s] = confirmed[s]
BY ConfirmStep DEF Confirmed

\* At most one controller holds the session now that did not, or no longer does: it
\* confirms its wait, it leaves, or the session sees nothing.
LEMMA KeptWaiter ==
    ASSUME Confirmed, Confirm, NEW s \in Session, NEW w \in Handler \cup {Updater},
           draining'[s] = draining[s], Running(s)' = Running(s),
           \A v : v # w => (v \in Holding(s)' <=> v \in Holding(s)),
           w \in Holding(s)' => w \in Holding(s) \/ Drained(s)
    PROVE  Kept(s)
<1>1. confirmed'[s] = {v \in Holding(s)' : v \in confirmed[s] \/ v \notin Holding(s)}
    BY ConfirmStep
<1>2. confirmed[s] \subseteq Holding(s) BY DEF Confirmed
<1>3. CASE w \in Holding(s) <=> w \in Holding(s)'
    <2>1. confirmed'[s] = confirmed[s] BY <1>1, <1>2, <1>3
    <2> QED BY <2>1 DEF Kept, Promise!vars
<1>4. CASE w \in Holding(s) /\ w \notin Holding(s)'
    <2>1. confirmed'[s] = confirmed[s] \ {w} BY <1>1, <1>2, <1>4
    <2>2. Promise(s)!Leave(w) BY <2>1 DEF Promise!Leave
    <2> QED BY <2>2 DEF Kept, Promise!Next
<1>5. CASE w \notin Holding(s) /\ w \in Holding(s)'
    <2>1. confirmed'[s] = confirmed[s] \cup {w} BY <1>1, <1>2, <1>5
    <2>2. draining[s] /\ Running(s) = 0 BY <1>5 DEF Drained
    <2>3. Promise(s)!Confirm(w) BY <2>1, <2>2 DEF Promise!Confirm
    <2> QED BY <2>3 DEF Kept, Promise!Next
<1> QED BY <1>3, <1>4, <1>5

\* The drain of session t is set.
LEMMA KeptDrain ==
    ASSUME TypeOK, Confirmed, Confirm, NEW s \in Session, NEW t \in Session,
           draining' = [draining EXCEPT ![t] = TRUE], Running(s)' = Running(s),
           Holding(s)' = Holding(s)
    PROVE  Kept(s)
<1>1. s # t => draining'[s] = draining[s] BY DEF TypeOK
<1>2. s = t => draining'[s] = TRUE BY DEF TypeOK
<1>3. confirmed'[s] = confirmed[s] BY <1>1, <1>2, ConfirmSame
<1>4. CASE s = t
    <2>1. Promise(s)!Drain BY <1>2, <1>3, <1>4 DEF Promise!Drain
    <2> QED BY <2>1 DEF Kept, Promise!Next
<1>5. CASE s # t BY <1>1, <1>3, <1>5 DEF Kept, Promise!vars
<1> QED BY <1>4, <1>5

\* The drain of session t is lifted, whoever had it confirmed.
LEMMA KeptServe ==
    ASSUME TypeOK, Confirmed, Confirm, NEW s \in Session, NEW t \in Session,
           draining' = [draining EXCEPT ![t] = FALSE], Running(s)' = Running(s),
           Holding(s)' = Holding(s)
    PROVE  Kept(s)
<1>1. CASE s = t
    <2>1. draining'[s] = FALSE BY <1>1 DEF TypeOK
    <2>2. confirmed'[s] = {}
        <3>1. CASE draining[s] BY <2>1, <3>1, ConfirmStep
        <3>2. CASE ~draining[s]
            <4>1. confirmed[s] = {} BY <3>2 DEF Confirmed
            <4>2. confirmed'[s] = confirmed[s] BY <3>2, ConfirmSame
            <4> QED BY <4>1, <4>2
        <3> QED BY <3>1, <3>2
    <2>3. Promise(s)!Resume BY <2>1, <2>2 DEF Promise!Resume
    <2> QED BY <2>3 DEF Kept, Promise!Next
<1>2. CASE s # t
    <2>1. draining'[s] = draining[s] BY <1>2 DEF TypeOK
    <2>2. confirmed'[s] = confirmed[s] BY <2>1, ConfirmSame
    <2> QED BY <2>1, <2>2 DEF Kept, Promise!vars
<1> QED BY <1>1, <1>2

\* A step of the reconnect loop: sessions are replaced when nothing runs.
LEMMA KeptLoop ==
    ASSUME TypeOK, Placed, Confirmed, Confirm, NEW s \in Session,
           LoopStep \/ Admit \/ Complete \/ Lose
    PROVE  Kept(s)
<1> USE DEF refreshVars, factoryVars, linkVars, sessionVars, controlVars, loopVars
<1>1. Holding(s)' = Holding(s) BY PlacedLoop DEF Holding
<1>2. ASSUME UNCHANGED draining PROVE confirmed'[s] = confirmed[s]
    BY <1>1, <1>2, ConfirmSame
<1>3. ASSUME UNCHANGED draining, Running(s)' = Running(s) PROVE Kept(s)
    BY <1>2, <1>3 DEF Kept, Promise!vars
<1>4. CASE FactoryStep \/ SessionActive \/ Connect \/ Refresh \/ Inactive \/ Reconnect \/ Lose
    <2>1. UNCHANGED <<session, draining, inflight>>
        BY <1>4 DEF FactoryStep, LoadPolicy, CountGeneration, TakeSignal, Discover,
           CheckStable, SessionActive, Connect, Refresh, Inactive, Reconnect, Lose
    <2> QED BY <1>3, <2>1 DEF Running
<1>5. CASE Activate
    <2>1. inflight = 0 /\ UNCHANGED <<draining, inflight>>
        BY <1>5 DEF Activate, Placed, Worked
    <2> QED BY <1>3, <2>1 DEF Running
<1>6. CASE HookDrain
    <2>1. /\ session \in Session /\ UNCHANGED <<session, inflight>>
          /\ draining' = [draining EXCEPT ![session] = TRUE]
        BY <1>6 DEF HookDrain, TypeOK, Placed, Published
    <2>2. Running(s)' = Running(s) BY <2>1 DEF Running
    <2> QED BY <1>1, <2>1, <2>2, KeptDrain
<1>7. CASE Admit
    <2>1. /\ ~draining[session] /\ inflight = 0 /\ inflight' = 1
          /\ UNCHANGED <<session, draining>>
        BY <1>7 DEF Admit
    <2>2. CASE s = session
        <3>1. Running(s) = 0 /\ Running(s)' = 1 BY <2>1, <2>2 DEF Running
        <3>2. Promise(s)!Admit("inference") BY <1>2, <2>1, <2>2, <3>1 DEF Promise!Admit
        <3> QED BY <3>2 DEF Kept, Promise!Next
    <2>3. CASE s # session BY <1>3, <2>1, <2>3 DEF Running
    <2> QED BY <2>2, <2>3
<1>8. CASE Complete
    <2>1. /\ inflight = 1 /\ inflight' = 0 /\ UNCHANGED <<session, draining>>
        BY <1>8 DEF Complete
    <2>2. CASE s = session
        <3>1. Running(s) = 1 /\ Running(s)' = 0 BY <2>1, <2>2 DEF Running
        <3>2. Promise(s)!Complete("inference") BY <1>2, <2>1, <3>1 DEF Promise!Complete
        <3> QED BY <3>2 DEF Kept, Promise!Next
    <2>3. CASE s # session BY <1>3, <2>1, <2>3 DEF Running
    <2> QED BY <2>2, <2>3
<1> QED BY <1>4, <1>5, <1>6, <1>7, <1>8 DEF LoopStep

\* A step of a Control Room request.
LEMMA KeptHandler ==
    ASSUME TypeOK, Placed, Confirmed, Confirm, NEW s \in Session, NEW h \in Handler,
           \/ \E enabled \in BOOLEAN : SetDrain(h, enabled)
           \/ Save(h) \/ Install(h) \/ HandlerStep(h)
    PROVE  Kept(s)
<1> USE DEF refreshVars, factoryVars, linkVars, sessionVars, controlVars, loopVars
<1>1. s # NoSession BY SessionNumbers DEF NoSession
<1>2. Running(s)' = Running(s) BY PlacedHandler DEF Running
<1>3. \A v : v # h => (v \in Holding(s)' <=> v \in Holding(s))
    BY PlacedHandler DEF Holding
<1>4. CASE SetDrainApply(h) \/ SaveBegin(h) \/ SaveRollback(h)
    <2> DEFINE t == handler[h].target
    <2>1. t # NoSession /\ handler[h].at # "store" /\ handler'[h].at # "store"
        BY <1>4 DEF SetDrainApply, SaveBegin, SaveRollback, At, Idle, TypeOK, Placed, Shaped
    <2>2. \/ draining' = [draining EXCEPT ![t] = TRUE]
          \/ draining' = [draining EXCEPT ![t] = FALSE]
        BY <1>4 DEF SetDrainApply, SaveBegin, SaveRollback
    <2>3. Holding(s)' = Holding(s) BY <2>1, PlacedHandler DEF Holding
    <2>4. t \in Session BY <2>1, SessionNumbers DEF TypeOK, NoSession
    <2> QED BY <1>2, <2>2, <2>3, <2>4, KeptDrain, KeptServe
<1>5. CASE \/ \E enabled \in BOOLEAN : SetDrain(h, enabled)
           \/ Save(h) \/ Install(h) \/ SetDrainTarget(h) \/ SaveWait(h) \/ SavePark(h)
           \/ SaveStore(h) \/ NotifyCount(h) \/ NotifySignal(h)
    <2>1. UNCHANGED draining
        BY <1>5 DEF SetDrain, Save, Install, SetDrainTarget, SaveWait, SavePark, SaveStore,
                    NotifyCount, NotifySignal
    <2>2. handler'[h].at = "store" /\ handler'[h].target = s => Drained(s)
        <3>1. CASE SaveWait(h) BY <3>1 DEF SaveWait, At, TypeOK
        <3>2. CASE Save(h) BY <1>1, <3>2 DEF Save, TypeOK
        <3>3. CASE \/ \E enabled \in BOOLEAN : SetDrain(h, enabled)
                   \/ Install(h) \/ SetDrainTarget(h) \/ SavePark(h) \/ SaveStore(h)
                   \/ NotifyCount(h) \/ NotifySignal(h)
            BY <3>3 DEF SetDrain, Install, SetDrainTarget, SavePark, SaveStore, NotifyCount,
               NotifySignal, At, Idle, TypeOK
        <3> QED BY <1>5, <3>1, <3>2, <3>3
    <2>3. h \in Holding(s)' => h \in Holding(s) \/ Drained(s)
        BY <2>2, PlacedHandler DEF Holding
    <2> QED BY <1>2, <1>3, <2>1, <2>3, KeptWaiter
<1> QED BY <1>4, <1>5 DEF HandlerStep

\* A step of the updater.
LEMMA KeptUpdate ==
    ASSUME TypeOK, Placed, Confirmed, Confirm, NEW s \in Session, StartUpdate \/ UpdateStep
    PROVE  Kept(s)
<1>1. s # NoSession BY SessionNumbers DEF NoSession
<1>2. UNCHANGED <<session, inflight, handler>> BY PlacedUpdate DEF loopVars, linkVars
<1>3. Running(s)' = Running(s) BY <1>2 DEF Running
<1>4. ASSUME UNCHANGED draining,
             /\ update'.at \in {"stage", "replaced"} /\ update'.target = s
             => \/ update.at \in {"stage", "replaced"} /\ update.target = s
                \/ Drained(s)
      PROVE  Kept(s)
    <2>1. \A v : v # Updater => (v \in Holding(s)' <=> v \in Holding(s))
        BY <1>2 DEF Holding
    <2>2. Updater \in Holding(s)' => Updater \in Holding(s) \/ Drained(s)
        BY <1>2, <1>4 DEF Holding
    <2> QED BY <1>3, <1>4, <2>1, <2>2, KeptWaiter
<1>5. ASSUME update.at \notin {"stage", "replaced"}, update'.at \notin {"stage", "replaced"},
             NEW t \in Session, NEW b \in BOOLEAN, draining' = [draining EXCEPT ![t] = b]
      PROVE  Kept(s)
    <2>1. Holding(s)' = Holding(s) BY <1>2, <1>5 DEF Holding
    <2> QED BY <1>3, <1>5, <2>1, KeptDrain, KeptServe
<1>6. CASE StartUpdate BY <1>1, <1>4, <1>6 DEF StartUpdate, sessionVars
<1>7. CASE ReadManual \/ ReadDrainState
    BY <1>4, <1>7 DEF ReadManual, ReadDrainState, sessionVars, TypeOK
<1>8. CASE UpdateDrain
    <2>1. update.target \in Session
        BY <1>8, SessionNumbers DEF UpdateDrain, TypeOK, Placed, UpdateHasTarget, NoSession
    <2> QED BY <1>5, <1>8, <2>1 DEF UpdateDrain, Upd, TypeOK
<1>9. CASE UpdateWait \/ UpdatePark
    BY <1>4, <1>9 DEF UpdateWait, UpdatePark, Upd, sessionVars, TypeOK
<1>10. CASE Exec \/ StageFails
    BY <1>4, <1>10 DEF Exec, StageFails, Upd, sessionVars, TypeOK
<1>11. CASE Resume
    <2>1. update.at = "resume" /\ update'.at = "idle" BY <1>11 DEF Resume, NoUpdate
    <2>2. CASE UNCHANGED draining BY <1>4, <2>1, <2>2
    <2>3. CASE /\ update.target # NoSession
               /\ draining' = [draining EXCEPT ![update.target] = FALSE]
        <3>1. update.target \in Session BY <2>3, SessionNumbers DEF TypeOK, NoSession
        <3> QED BY <1>5, <2>1, <2>3, <3>1
    <2> QED BY <1>11, <2>2, <2>3 DEF Resume
<1> QED BY <1>6, <1>7, <1>8, <1>9, <1>10, <1>11 DEF UpdateStep

\* A step of the node is a step of the contract of each session, or none.
LEMMA KeptNext ==
    ASSUME TypeOK, Placed, Confirmed, [HNext]_hvars, NEW s \in Session
    PROVE  Kept(s)
<1>1. CASE UNCHANGED hvars
    <2>1. UNCHANGED <<draining, session, inflight, confirmed>>
        BY <1>1 DEF hvars, vars, loopVars, linkVars, sessionVars
    <2> QED BY <2>1 DEF Running, Kept, Promise!vars
<1> QED BY <1>1, KeptLoop, KeptHandler, KeptUpdate DEF HNext, Next

\* A step of the contract keeps what was confirmed true.
LEMMA ConfirmedNext ==
    TypeOK /\ TypeOK' /\ Placed /\ Confirmed /\ [HNext]_hvars => Confirmed'
<1> SUFFICES ASSUME TypeOK, TypeOK', Placed, Confirmed, [HNext]_hvars PROVE Confirmed'
    OBVIOUS
<1>1. /\ confirmed' \in [Session -> SUBSET (Handler \cup {Updater})]
      /\ \A s \in Session : confirmed'[s] \subseteq Holding(s)'
    <2>1. CASE UNCHANGED hvars
        BY <2>1 DEF hvars, vars, controlVars, Confirmed, Holding
    <2>2. CASE Confirm
        <3>1. \A s \in Session : Holding(s)' \subseteq Handler \cup {Updater} BY DEF Holding
        <3> QED BY <2>2, <3>1 DEF Confirm
    <2> QED BY <2>1, <2>2 DEF HNext
<1>2. ASSUME NEW s \in Session, confirmed'[s] # {}
      PROVE  draining'[s] /\ Running(s)' = 0
    <2>1. draining[s] \in BOOLEAN /\ draining'[s] \in BOOLEAN BY DEF TypeOK
    <2>2. Running(s)' \in 0..1 BY DEF TypeOK, Running
    <2>3. confirmed[s] # {} => draining[s] /\ Running(s) = 0 BY DEF Confirmed
    <2> DEFINE work == {x \in {"inference"} : Running(s) = 1}
    <2>4. draining'[s] /\ work' = {}
        <3>1. confirmed[s] # {} => draining[s] /\ work = {} BY <2>3
        <3>2. CASE UNCHANGED Promise(s)!vars
            <4>1. draining'[s] = draining[s] /\ work' = work /\ confirmed'[s] = confirmed[s]
                BY <3>2 DEF Promise!vars
            <4> QED BY <1>2, <3>1, <4>1
        <3>3. CASE \E x \in {"inference"} : Promise(s)!Admit(x) \/ Promise(s)!Complete(x)
            BY <1>2, <3>1, <3>3 DEF Promise!Admit, Promise!Complete
        <3>4. CASE Promise(s)!Drain \/ Promise(s)!Resume
            BY <1>2, <3>1, <3>4 DEF Promise!Drain, Promise!Resume
        <3>5. CASE \E w \in Handler \cup {Updater} :
                       Promise(s)!Confirm(w) \/ Promise(s)!Leave(w)
            BY <1>2, <3>1, <3>5 DEF Promise!Confirm, Promise!Leave
        <3> QED BY KeptNext, <3>2, <3>3, <3>4, <3>5 DEF Kept, Promise!Next
    <2>5. Running(s)' # 1 BY <2>4
    <2> QED BY <2>2, <2>4, <2>5
<1> QED BY <1>1, <1>2 DEF Confirmed

\* A new process has drained no session and run nothing.
LEMMA KeptInit == ASSUME NEW s \in Session PROVE HInit => Promise(s)!Init
BY DEF HInit, Init, Promise!Init, Running

\* The history constrains nothing: what is confirmed is, in every state.
LEMMA ConfirmedInvariant == HSpec => [](TypeOK /\ Placed /\ Confirmed)
<1>1. HInit => Init /\ Confirmed
    <2> SUFFICES ASSUME HInit PROVE Confirmed BY DEF HInit
    <2>1. confirmed = [s \in Session |-> {}] BY DEF HInit
    <2> QED BY <2>1 DEF Confirmed
<1>2. [HNext]_hvars => [Next]_vars BY DEF HNext, hvars
<1>3. HSpec => Spec BY <1>1, <1>2, PTL DEF HSpec, Spec
<1> QED BY <1>1, <1>3, ConfirmedNext, PlacedInvariant, PTL DEF HSpec

\* Every session of the node keeps the contract that module Admission implements, with the
\* Saves and the updater for its waiters: for any number of handlers and of sessions,
\* whichever is replaced, lost or drained again, and however its controllers overlap and
\* cancel each other's drains.
THEOREM SessionsKeepTheContract == HSpec => SessionsKeepContract
<1>1. HInit => \A s \in Session : Promise(s)!Init BY KeptInit
<1>2. TypeOK /\ Placed /\ Confirmed /\ [HNext]_hvars
        => \A s \in Session : [Promise(s)!Next]_(Promise(s)!vars)
    BY KeptNext DEF Kept
<1> QED BY <1>1, <1>2, ConfirmedInvariant, PTL DEF HSpec, SessionsKeepContract

\* The same, one session at a time: the node implements the contract of any session.
THEOREM NodeImplementsContract == ASSUME NEW s \in Session PROVE HSpec => Promise(s)!Spec
<1>1. HInit => Promise(s)!Init BY KeptInit
<1>2. TypeOK /\ Placed /\ Confirmed /\ [HNext]_hvars
        => [Promise(s)!Next]_(Promise(s)!vars)
    BY KeptNext DEF Kept
<1> QED BY <1>1, <1>2, ConfirmedInvariant, PTL DEF HSpec, Promise!Spec

\* An update replaces the process under a request of the session it drained only behind a
\* cancel of that drain; any other request is of a session that took its place.  What
\* refutes the quiet replacement is one of the two, and there is no other cause.
THEOREM ReplacesWhenQuiet == HSpec => ReplacedUnderWork
<1>1. TypeOK /\ Confirmed /\ [HNext]_hvars
        => (Replaced' /\ update.target # NoSession /\ inflight # 0
              => update.target # session \/ Updater \notin confirmed[session])
    <2> SUFFICES ASSUME TypeOK, Confirmed, update.target # NoSession,
                        update.target = session, Updater \in confirmed[session]
                 PROVE  inflight = 0
        OBVIOUS
    <2>1. session \in Session BY DEF TypeOK
    <2> QED BY <2>1 DEF Confirmed, Running
<1> QED BY <1>1, ConfirmedInvariant, PTL DEF HSpec, ReplacedUnderWork

-----------------------------------------------------------------------------
\* The maintenance of an update and the operator's drain.

\* An update that gives back a session's drain found that the operator had not set it.
UpdateYields ==
    /\ update.at = "state" => ~manualDrain
    /\ update.at \in {"begin", "wait", "parked", "stage", "resume"}
       /\ update.target # NoSession /\ manualDrain
          => update.wasDraining

\* The update has asked for the operator's drain, and may have to give its own back.
Looked ==
    /\ update.at \in {"state", "begin", "wait", "parked", "stage", "resume"}
    /\ update.target # NoSession

\* What is left out: an operator who drains the node while an update has it drained.
OperatorWaits == [][Looked /\ manualDrain' => manualDrain]_vars

\* Every step leaves the update that way, unless the operator drains meanwhile.
LEMMA YieldsNext ==
    /\ TypeOK /\ UpdateHasTarget /\ UpdateYields /\ [Next]_vars
    /\ [Looked /\ manualDrain' => manualDrain]_vars
    => UpdateYields'
<1> SUFFICES ASSUME TypeOK, UpdateHasTarget, UpdateYields, [Next]_vars,
                    [Looked /\ manualDrain' => manualDrain]_vars
             PROVE  UpdateYields'
    OBVIOUS
<1> USE DEF vars, controlVars
<1>1. CASE UNCHANGED update BY <1>1 DEF UpdateYields, UpdateHasTarget, Looked, TypeOK
<1>2. CASE StartUpdate BY <1>2 DEF StartUpdate, UpdateYields
<1>3. CASE ReadManual BY <1>3 DEF ReadManual, TypeOK, UpdateYields
<1>4. CASE ReadDrainState BY <1>4 DEF ReadDrainState, TypeOK, UpdateYields
<1>5. CASE UpdateDrain \/ UpdateWait \/ UpdatePark
    BY <1>5 DEF UpdateDrain, UpdateWait, UpdatePark, Upd, TypeOK, UpdateYields
<1>6. CASE Exec \/ StageFails BY <1>6 DEF Exec, StageFails, Upd, TypeOK, UpdateYields
<1>7. CASE Resume BY <1>7 DEF Resume, NoUpdate, UpdateYields
<1> QED BY <1>1, <1>2, <1>3, <1>4, <1>5, <1>6, <1>7, NextLeaves DEF UpdateStep

\* The end of an update's maintenance does not touch the operator's drain, unless the
\* operator set it after the update had asked for it: nothing else that runs beside the
\* update makes it lift that drain, other controllers included.
THEOREM MaintenanceKeepsTheDrain == Spec /\ OperatorWaits => ManualDrainKept
<1>1. Init => UpdateYields BY DEF Init, UpdateYields, NoUpdate
<1>2. UpdateYields /\ [Next]_vars
        => (update.at = "resume" /\ update'.at = "idle" /\ manualDrain => draining' = draining)
    <2> SUFFICES ASSUME UpdateYields, [Next]_vars, update.at = "resume", update'.at = "idle",
                        manualDrain
                 PROVE  draining' = draining
        OBVIOUS
    <2>1. Resume
        BY NextLeaves DEF UpdateStep, StartUpdate, ReadManual, ReadDrainState, UpdateDrain,
           UpdateWait, UpdatePark, Exec, StageFails
    <2> QED BY <2>1 DEF Resume, UpdateYields
<1> QED BY <1>1, <1>2, YieldsNext, TypeInvariant, PTL DEF Spec, ManualDrainKept, OperatorWaits

-----------------------------------------------------------------------------
\* The operator's drain.  Three things undo it, and are left out: a resume that overlaps a
\* drain, so that the flag and the session hear of them in different orders; a Save that
\* fails and cancels a drain it did not begin; and the end of an update which looked before
\* the operator asked (OperatorWaits).
OneSetDrain ==
    \A g, h \in Handler :
        handler[g].at \in {"drain", "resume"} /\ handler[h].at \in {"drain", "resume"} => g = h

SavesYield == manualDrain => \A h \in Handler : handler[h].at # "rollback"

\* A SetDrain agrees with the flag.
FlagFollows ==
    \A h \in Handler :
        /\ handler[h].at = "drain" => manualDrain
        /\ handler[h].at = "resume" => ~manualDrain

\* Every step leaves the flag to one SetDrain.
LEMMA FlagNext == TypeOK /\ Placed /\ FlagFollows /\ OneSetDrain' /\ [Next]_vars => FlagFollows'
<1> SUFFICES ASSUME TypeOK, Placed, FlagFollows, OneSetDrain', [Next]_vars PROVE FlagFollows'
    OBVIOUS
<1>1. CASE UNCHANGED <<manualDrain, handler>>
    BY <1>1 DEF FlagFollows
<1>2. ASSUME NEW h \in Handler, NEW enabled \in BOOLEAN, SetDrain(h, enabled)
      PROVE  FlagFollows'
    <2>1. /\ handler'[h].at = (IF enabled THEN "drain" ELSE "resume")
          /\ manualDrain' = enabled
        BY <1>2 DEF SetDrain, At, TypeOK
    <2>2. \A g \in Handler : g # h => handler'[g].at \notin {"drain", "resume"}
        BY <2>1 DEF OneSetDrain
    <2> QED BY <2>1, <2>2 DEF FlagFollows
<1>3. ASSUME NEW h \in Handler, Save(h) \/ Install(h) \/ HandlerStep(h)
      PROVE  FlagFollows'
    <2>1. /\ UNCHANGED manualDrain
          /\ handler'[h].at \in {"drain", "resume"} => handler'[h].at = handler[h].at
        <3>1. CASE Save(h) \/ Install(h) \/ NotifyCount(h) \/ NotifySignal(h)
            BY <3>1 DEF Save, Install, NotifyCount, NotifySignal, At, Idle, TypeOK
        <3>2. CASE SetDrainTarget(h) \/ SetDrainApply(h)
            BY <3>2 DEF SetDrainTarget, SetDrainApply, Idle, TypeOK
        <3>3. CASE SaveBegin(h) \/ SaveWait(h) \/ SavePark(h)
            BY <3>3 DEF SaveBegin, SaveWait, SavePark, At, TypeOK
        <3>4. CASE SaveStore(h) \/ SaveRollback(h)
            BY <3>4 DEF SaveStore, SaveRollback, At, Idle, TypeOK
        <3> QED BY <1>3, <3>1, <3>2, <3>3, <3>4 DEF HandlerStep
    <2>2. \A g \in Handler : g # h => handler'[g] = handler[g]
        BY <1>3, PlacedHandler
    <2> QED BY <2>1, <2>2 DEF FlagFollows
<1>4. CASE LoopStep \/ Admit \/ Complete \/ Lose BY <1>1, <1>4, PlacedLoop
<1>5. CASE StartUpdate \/ UpdateStep BY <1>1, <1>5, PlacedUpdate
<1>6. CASE UNCHANGED vars BY <1>1, <1>6 DEF vars, controlVars
<1> QED BY <1>2, <1>3, <1>4, <1>5, <1>6 DEF Next

\* What the operator's drain is obeyed by: one SetDrain at a time, and the update.
Obeyed == Placed /\ OneSetDrain /\ FlagFollows /\ UpdateYields

\* A session that can serve has the drain, or a SetDrain that will reach it.
DrainComes ==
    manualDrain /\ phase \in {"connecting", "running"} =>
        \/ draining[session]
        \/ \E h \in Handler :
              handler[h].at = "drain" /\ handler[h].target \in {NoSession, session}

\* A step of the reconnect loop: the hook reads the flag after the session is published.
LEMMA DrainComesLoop ==
    ASSUME TypeOK, Obeyed, DrainComes, LoopStep \/ Admit \/ Complete \/ Lose
    PROVE  DrainComes'
<1> USE DEF refreshVars, factoryVars, linkVars, sessionVars, controlVars, loopVars
<1>1. CASE FactoryStep \/ Reconnect \/ Inactive \/ Admit \/ Complete \/ Refresh \/ Lose
    BY <1>1 DEF FactoryStep, LoadPolicy, CountGeneration, TakeSignal, Discover, CheckStable,
       Reconnect, Inactive, Admit, Complete, Refresh, Lose, DrainComes
<1>2. CASE Activate \/ SessionActive
    BY <1>2 DEF Activate, SessionActive, DrainComes
<1>3. CASE Connect BY <1>3 DEF Connect, DrainComes
<1>4. CASE HookDrain
    <2>1. session \in Session BY <1>4 DEF HookDrain, TypeOK, Obeyed, Placed, Published
    <2> QED BY <1>4, <2>1 DEF HookDrain, TypeOK, DrainComes
<1> QED BY <1>1, <1>2, <1>3, <1>4 DEF LoopStep

\* A SetDrain: the flag first, then the session that is published.
LEMMA DrainComesHandler ==
    ASSUME TypeOK, Obeyed, DrainComes, SavesYield, NEW h \in Handler,
           \/ \E enabled \in BOOLEAN : SetDrain(h, enabled)
           \/ Save(h) \/ Install(h) \/ HandlerStep(h)
    PROVE  DrainComes'
<1> USE DEF refreshVars, factoryVars, linkVars, sessionVars, controlVars, loopVars
<1>1. ASSUME NEW enabled \in BOOLEAN, SetDrain(h, enabled) PROVE DrainComes'
    BY <1>1 DEF SetDrain, At, TypeOK, Obeyed, Placed, Shaped, DrainComes
<1>2. CASE Save(h) BY <1>2 DEF Save, TypeOK, DrainComes
<1>3. CASE Install(h) \/ NotifyCount(h) \/ NotifySignal(h)
    BY <1>3 DEF Install, NotifyCount, NotifySignal, At, TypeOK, DrainComes
<1>4. CASE SetDrainTarget(h)
    <2>1. CASE active = NoSession
        BY <1>4, <2>1 DEF SetDrainTarget, Obeyed, Placed, Published, DrainComes
    <2>2. CASE active # NoSession
        <3>1. /\ handler'[h].at = handler[h].at /\ handler'[h].target = session
              /\ \A g \in Handler : g # h => handler'[g] = handler[g]
              /\ UNCHANGED <<manualDrain, phase, session, draining>>
            BY <1>4, <2>2 DEF SetDrainTarget, TypeOK
        <3> QED BY <3>1 DEF DrainComes
    <2> QED BY <2>1, <2>2
<1>5. CASE SetDrainApply(h)
    <2> DEFINE s == handler[h].target
    <2>1. /\ handler[h].at \in {"drain", "resume"} /\ s # NoSession
          /\ draining' = [draining EXCEPT ![s] = (handler[h].at = "drain")]
          /\ UNCHANGED <<manualDrain, phase, session>>
        BY <1>5 DEF SetDrainApply
    <2> SUFFICES ASSUME manualDrain, phase \in {"connecting", "running"}
                 PROVE  draining'[session]
        BY <2>1 DEF DrainComes
    <2>2. handler[h].at = "drain" BY <2>1 DEF Obeyed, FlagFollows
    <2>3. session \in Session BY DEF Obeyed, Placed, Published, TypeOK
    <2>4. CASE s = session BY <2>1, <2>2, <2>3, <2>4 DEF TypeOK
    <2>5. CASE s # session
        <3>1. \A g \in Handler : handler[g].at = "drain" => g = h
            BY <2>2 DEF Obeyed, OneSetDrain
        <3>2. draining[session] BY <2>1, <2>5, <3>1 DEF DrainComes
        <3> QED BY <2>1, <2>3, <2>5, <3>2 DEF TypeOK
    <2> QED BY <2>4, <2>5
<1>6. CASE SaveBegin(h)
    <2>1. draining[session] => draining'[session] BY <1>6 DEF SaveBegin, TypeOK
    <2>2. \A g \in Handler : handler[g].at = "drain" => handler'[g] = handler[g]
        BY <1>6 DEF SaveBegin, At, TypeOK
    <2> QED BY <1>6, <2>1, <2>2 DEF SaveBegin, DrainComes
<1>7. CASE SaveWait(h) \/ SavePark(h) \/ SaveStore(h)
    <2>1. \A g \in Handler : handler[g].at = "drain" => handler'[g] = handler[g]
        BY <1>7 DEF SaveWait, SavePark, SaveStore, At, TypeOK
    <2> QED BY <1>7, <2>1 DEF SaveWait, SavePark, SaveStore, DrainComes
<1>8. CASE SaveRollback(h)
    <2>1. ~manualDrain /\ UNCHANGED manualDrain BY <1>8 DEF SaveRollback, SavesYield
    <2> QED BY <2>1 DEF DrainComes
<1> QED BY <1>1, <1>2, <1>3, <1>4, <1>5, <1>6, <1>7, <1>8 DEF HandlerStep

\* A step of the updater ends no drain that the operator wants.
LEMMA DrainComesUpdate ==
    ASSUME TypeOK, Obeyed, DrainComes, StartUpdate \/ UpdateStep
    PROVE  DrainComes'
<1> USE DEF refreshVars, factoryVars, linkVars, sessionVars, controlVars, loopVars
<1>1. UNCHANGED <<manualDrain, phase, session, handler>>
    BY DEF StartUpdate, UpdateStep, ReadManual, ReadDrainState, UpdateDrain, UpdateWait,
       UpdatePark, Exec, StageFails, Resume
<1>2. manualDrain /\ draining[session] => draining'[session]
    <2>1. CASE UpdateDrain BY <2>1 DEF UpdateDrain, TypeOK
    <2>2. CASE Resume BY <2>2 DEF Resume, Obeyed, UpdateYields
    <2>3. CASE UNCHANGED draining BY <2>3
    <2> QED BY <2>1, <2>2, <2>3 DEF StartUpdate, UpdateStep, ReadManual, ReadDrainState,
               UpdateWait, UpdatePark, Exec, StageFails
<1> QED BY <1>1, <1>2 DEF DrainComes

\* The operator's drain holds on every session that can serve, for any number of handlers,
\* sessions, saves and updates, also those that overlap: whichever of SetDrain and the
\* Active hook comes first, the other sees what it left.  It fails only where a resume
\* overlaps a drain, a Save gives its own drain back while the operator's is set, or the
\* operator drains a node that an update has drained.
THEOREM ManualDrainHolds ==
    Spec /\ OperatorWaits /\ []OneSetDrain /\ []SavesYield => []ManualDrainHonoured
<1>1. DrainComes => ManualDrainHonoured BY DEF DrainComes, ManualDrainHonoured
<1>2. Init => FlagFollows /\ UpdateYields /\ DrainComes
    BY DEF Init, FlagFollows, UpdateYields, DrainComes, Idle, NoUpdate
<1>3. Placed => UpdateHasTarget BY DEF Placed
<1>4. TypeOK /\ Placed /\ OneSetDrain /\ FlagFollows /\ UpdateYields /\ DrainComes
        /\ SavesYield /\ [Next]_vars
        => DrainComes'
    <2>1. UNCHANGED vars /\ DrainComes => DrainComes'
        BY DEF vars, loopVars, linkVars, sessionVars, controlVars, DrainComes
    <2> QED BY <2>1, DrainComesLoop, DrainComesHandler, DrainComesUpdate DEF Next, Obeyed
<1> QED
    BY <1>1, <1>2, <1>3, <1>4, FlagNext, YieldsNext, PlacedInvariant, PTL
    DEF Spec, OperatorWaits

-----------------------------------------------------------------------------
\* Controllers that take turns.  The code does not see to it: what follows is what a drain
\* that nobody undoes is worth.
Taken == Placed /\ Turns /\ FlagFollows /\ UpdateYields

\* Where they take turns, no two SetDrains overlap and none meets an update.
LEMMA TurnsApart ==
    /\ TypeOK /\ Placed /\ Turns' /\ [Next]_vars
    => OneSetDrain' /\ [Looked /\ manualDrain' => manualDrain]_vars
<1> SUFFICES ASSUME TypeOK, Placed, Turns', [Next]_vars
             PROVE  OneSetDrain' /\ (Looked /\ manualDrain' => manualDrain)
    OBVIOUS
<1>1. OneSetDrain' BY DEF Turns, OneSetDrain, Controlling
<1>2. CASE UNCHANGED manualDrain BY <1>1, <1>2
<1>3. ASSUME NEW h \in Handler, NEW enabled \in BOOLEAN, SetDrain(h, enabled)
      PROVE  Looked /\ manualDrain' => manualDrain
    <2>1. handler'[h].at = (IF enabled THEN "drain" ELSE "resume") /\ UNCHANGED update
        BY <1>3 DEF SetDrain, At, TypeOK
    <2>2. update.at = "idle" BY <2>1 DEF Turns, Controlling
    <2> QED BY <2>2 DEF Looked
<1>4. ASSUME NEW h \in Handler, Save(h) \/ Install(h) \/ HandlerStep(h)
      PROVE  UNCHANGED manualDrain
    BY <1>4 DEF Save, Install, HandlerStep, SetDrainTarget, SetDrainApply, SaveBegin, SaveWait,
       SavePark, SaveStore, SaveRollback, NotifyCount, NotifySignal
<1>5. CASE LoopStep \/ Admit \/ Complete \/ Lose BY <1>2, <1>5, PlacedLoop
<1>6. CASE StartUpdate \/ UpdateStep BY <1>2, <1>6, PlacedUpdate
<1>7. CASE UNCHANGED vars BY <1>2, <1>7 DEF vars, controlVars
<1> QED BY <1>1, <1>2, <1>3, <1>4, <1>5, <1>6, <1>7 DEF Next

\* Controllers that take turns do so in every state, and are where they should be.
LEMMA TakenInvariant == Spec /\ []Turns => [](TypeOK /\ UpdateHasTarget /\ Taken)
<1>1. Init => FlagFollows /\ UpdateYields
    BY DEF Init, FlagFollows, UpdateYields, Idle, NoUpdate
<1>2. Placed => UpdateHasTarget BY DEF Placed
<1>3. Placed /\ Turns /\ FlagFollows /\ UpdateYields => Taken BY DEF Taken
<1> QED BY <1>1, <1>2, <1>3, TurnsApart, FlagNext, YieldsNext, PlacedInvariant, PTL DEF Spec

-----------------------------------------------------------------------------
\* Giving a drain back, saves and updates included.  What is left out is a resume that falls
\* between the look of the Active hook at the operator's drain and the drain it begins,
\* which would then outlive the operator's.
HookAgrees == phase = "hooked" => manualDrain

Live == phase \in {"activated", "hooked", "connecting", "running"}

\* No session is drained before it is created.
Unborn == \A s \in Session : s > session => ~draining[s]

\* An update that is not to give the drain back found the session drained.
FoundDrained ==
    update.at = "begin" /\ update.wasDraining /\ ~manualDrain => draining[update.target]

\* Handler h, or the updater, will give back the drain of the session.
HandlerReturns(h) ==
    \/ handler[h].at = "resume" /\ handler[h].target \in {NoSession, session}
    \/ handler[h].at \in {"wait", "parked", "store", "rollback"}
          /\ handler[h].target = session

UpdateReturnsDrain ==
    /\ update.at \in {"wait", "parked", "stage", "resume", "replaced"}
    /\ update.target = session /\ ~update.wasDraining

\* A drain that the operator does not want is given back, or the session is replaced.
Returned ==
    Live /\ draining[session] /\ ~manualDrain
        => Announced \/ UpdateReturnsDrain \/ \E h \in Handler : HandlerReturns(h)

Giving == Unborn /\ FoundDrained /\ Returned

\* A new process drains nothing.
LEMMA GivingInit == Init => Giving
BY DEF Init, Giving, Unborn, FoundDrained, Returned, Live, NoUpdate

\* A step of the reconnect loop.
LEMMA GivingLoop ==
    ASSUME TypeOK, Taken, Giving, HookAgrees, LoopStep \/ Admit \/ Complete \/ Lose
    PROVE  Giving'
<1> USE DEF refreshVars, factoryVars, linkVars, sessionVars, controlVars, loopVars
<1>1. CASE FactoryStep \/ SessionActive \/ Connect \/ Refresh \/ Inactive \/ Reconnect
           \/ Admit \/ Complete \/ Lose
    <2>1. /\ ~Live' \/ (Live /\ UNCHANGED changes)
          /\ UNCHANGED <<session, draining, controlVars>>
        BY <1>1 DEF FactoryStep, LoadPolicy, CountGeneration, TakeSignal, Discover,
           CheckStable, SessionActive, Connect, Refresh, Inactive, Reconnect, Admit,
           Complete, Lose, Live
    <2> QED BY <2>1 DEF Giving, Unborn, FoundDrained, Returned, UpdateReturnsDrain,
               HandlerReturns, Announced, Notifying
<1>2. CASE Activate
    <2>1. /\ session' = session + 1 /\ session' \in Session /\ session \in Nat
          /\ UNCHANGED <<manualDrain, draining, update>>
        BY <1>2, SessionNumbers DEF Activate, TypeOK, NoSession
    <2>2. ~draining'[session'] BY <2>1 DEF Giving, Unborn
    <2>3. Unborn' BY <2>1, SessionNumbers DEF Giving, Unborn
    <2> QED BY <2>1, <2>2, <2>3 DEF Giving, FoundDrained, Returned
<1>3. CASE HookDrain
    <2>1. session \in Session BY <1>3 DEF HookDrain, TypeOK, Taken, Placed, Published
    <2>2. manualDrain /\ UNCHANGED <<session, manualDrain, update>>
        BY <1>3 DEF HookDrain, HookAgrees
    <2>3. \A s \in Session : s # session => draining'[s] = draining[s]
        BY <1>3, <2>1 DEF HookDrain, TypeOK
    <2>4. Unborn' BY <2>1, <2>2, <2>3, SessionNumbers DEF Giving, Unborn
    <2> QED BY <2>2, <2>4 DEF Giving, FoundDrained, Returned
<1> QED BY <1>1, <1>2, <1>3 DEF LoopStep

\* A drain set or lifted for session s leaves those that are not created yet alone.
LEMMA UnbornKept ==
    ASSUME TypeOK, Unborn, NEW s \in 1..session, NEW b \in BOOLEAN,
           draining' = [draining EXCEPT ![s] = b], UNCHANGED session
    PROVE  Unborn'
BY SessionNumbers DEF TypeOK, Unborn, NoSession

\* A step of a Control Room request.
LEMMA GivingHandler ==
    ASSUME TypeOK, Taken, Taken', Giving, NEW h \in Handler,
           \/ \E enabled \in BOOLEAN : SetDrain(h, enabled)
           \/ Save(h) \/ Install(h) \/ HandlerStep(h)
    PROVE  Giving'
<1> USE DEF refreshVars, factoryVars, linkVars, sessionVars, controlVars, loopVars
<1>1. Live => session # NoSession /\ active = session /\ session \in Session
    BY DEF Live, Taken, Placed, Published, TypeOK
<1>2. ASSUME NEW enabled \in BOOLEAN, SetDrain(h, enabled) PROVE Giving'
    <2>1. /\ handler'[h].at = (IF enabled THEN "drain" ELSE "resume")
          /\ handler'[h].target = NoSession
          /\ manualDrain' = enabled /\ UNCHANGED <<session, draining, update>>
        BY <1>2 DEF SetDrain, At, TypeOK, Taken, Placed, Shaped
    <2>2. update.at = "idle" BY <2>1 DEF Taken, Turns, Controlling
    <2>3. Returned' BY <2>1 DEF Returned, HandlerReturns
    <2> QED BY <2>1, <2>2, <2>3 DEF Giving, Unborn, FoundDrained
<1>3. CASE Save(h)
    <2>1. /\ handler[h].at = "idle" /\ \A g \in Handler : g # h => handler'[g] = handler[g]
          /\ UNCHANGED <<changes, manualDrain, phase, session, draining, update>>
        BY <1>3 DEF Save, TypeOK
    <2> QED BY <2>1 DEF Giving, Unborn, FoundDrained, Returned, Live, UpdateReturnsDrain,
               HandlerReturns, Announced, Notifying
<1>4. CASE Install(h) \/ NotifyCount(h) \/ NotifySignal(h)
    <2>1. /\ Announced' /\ UNCHANGED <<manualDrain, phase, session, draining, update>>
        BY <1>4 DEF Install, NotifyCount, NotifySignal, At, TypeOK, Announced, Notifying
    <2> QED BY <2>1 DEF Giving, Unborn, FoundDrained, Returned
<1>5. CASE SetDrainTarget(h)
    <2>1. /\ handler[h].at \in {"drain", "resume"} /\ handler[h].target = NoSession
          /\ active # NoSession
                => handler'[h].at = handler[h].at /\ handler'[h].target = active
          /\ \A g \in Handler : g # h => handler'[g] = handler[g]
          /\ UNCHANGED <<changes, manualDrain, phase, session, draining, update>>
        BY <1>5 DEF SetDrainTarget, TypeOK
    <2> QED BY <1>1, <2>1 DEF Giving, Unborn, FoundDrained, Returned, Live, UpdateReturnsDrain,
               HandlerReturns, Announced, Notifying
<1>6. CASE SetDrainApply(h) \/ SaveRollback(h)
    <2> DEFINE s == handler[h].target
    <2>1. /\ handler[h].at \in {"drain", "resume", "rollback"} /\ s # NoSession
          /\ draining' = [draining EXCEPT ![s] = (handler[h].at = "drain")]
          /\ \A g \in Handler : g # h => handler'[g] = handler[g]
          /\ UNCHANGED <<changes, manualDrain, phase, session, update>>
        BY <1>6 DEF SetDrainApply, SaveRollback, TypeOK, Taken, Placed, Shaped
    <2>2. s \in 1..session /\ s \in Session BY <2>1, SessionNumbers DEF TypeOK, NoSession
    <2>3. Unborn' BY <2>1, <2>2, UnbornKept DEF Giving
    <2>4. update.at = "idle" BY <2>1 DEF Taken, Turns, Controlling
    <2>5. Returned'
        <3> SUFFICES ASSUME Live, draining'[session], ~manualDrain
                     PROVE  Announced' \/ \E g \in Handler : HandlerReturns(g)'
            BY <2>1 DEF Returned, Live
        <3>1. handler[h].at # "drain" BY DEF Taken, FlagFollows
        <3>2. s # session BY <2>1, <2>2, <3>1 DEF TypeOK
        <3>3. draining[session] BY <1>1, <2>1, <2>2, <3>2 DEF TypeOK
        <3>4. ~HandlerReturns(h) BY <2>1, <3>2 DEF HandlerReturns
        <3>5. Announced \/ \E g \in Handler \ {h} : HandlerReturns(g)
            BY <2>4, <3>3, <3>4 DEF Giving, Returned, UpdateReturnsDrain
        <3>6. ~Notifying(h) BY <2>1 DEF Notifying
        <3> QED BY <2>1, <3>5, <3>6 DEF Announced, Notifying, HandlerReturns
    <2> QED BY <2>1, <2>3, <2>4, <2>5 DEF Giving, FoundDrained
<1>7. CASE SaveBegin(h)
    <2> DEFINE s == handler[h].target
    <2>1. /\ handler[h].at = "begin" /\ s # NoSession
          /\ draining' = [draining EXCEPT ![s] = TRUE]
          /\ handler'[h].at = "wait" /\ handler'[h].target = s
          /\ \A g \in Handler : g # h => handler'[g] = handler[g]
          /\ UNCHANGED <<changes, manualDrain, phase, session, update>>
        BY <1>7 DEF SaveBegin, At, TypeOK, Taken, Placed, Shaped
    <2>2. s \in 1..session /\ s \in Session BY <2>1, SessionNumbers DEF TypeOK, NoSession
    <2>3. Unborn' BY <2>1, <2>2, UnbornKept DEF Giving
    <2>4. update.at = "idle" BY <2>1 DEF Taken, Turns, Controlling
    <2>5. Returned'
        <3>1. CASE s = session BY <2>1, <3>1 DEF Returned, HandlerReturns
        <3>2. CASE s # session
            <4>1. Live => draining'[session] = draining[session]
                BY <1>1, <2>1, <2>2, <3>2 DEF TypeOK
            <4> QED BY <2>1, <2>4, <4>1 DEF Giving, Returned, Live, UpdateReturnsDrain,
                       HandlerReturns, Announced, Notifying
        <3> QED BY <3>1, <3>2
    <2> QED BY <2>1, <2>3, <2>4, <2>5 DEF Giving, FoundDrained
<1>8. CASE SaveWait(h) \/ SavePark(h) \/ SaveStore(h)
    <2>1. /\ handler[h].at \in {"wait", "parked", "store"}
          /\ \/ handler'[h].at = "notify"
             \/ handler[h].target = NoSession
             \/ /\ handler'[h].at \in {"wait", "parked", "store", "rollback"}
                /\ handler'[h].target = handler[h].target
          /\ \A g \in Handler : g # h => handler'[g] = handler[g]
          /\ UNCHANGED <<changes, manualDrain, phase, session, draining, update>>
        BY <1>8 DEF SaveWait, SavePark, SaveStore, At, TypeOK
    <2> QED BY <1>1, <2>1 DEF Giving, Unborn, FoundDrained, Returned, Live, UpdateReturnsDrain,
               HandlerReturns, Announced, Notifying
<1> QED BY <1>2, <1>3, <1>4, <1>5, <1>6, <1>7, <1>8 DEF HandlerStep

\* A step of the updater.
LEMMA GivingUpdate ==
    ASSUME TypeOK, UpdateHasTarget, Taken, Giving, StartUpdate \/ UpdateStep
    PROVE  Giving'
<1> USE DEF refreshVars, factoryVars, linkVars, sessionVars, controlVars, loopVars
<1>1. ASSUME update.at # "idle" PROVE \A h \in Handler : ~HandlerReturns(h)
    BY <1>1 DEF Taken, Turns, Controlling, HandlerReturns
<1>2. CASE StartUpdate \/ ReadManual \/ ReadDrainState
    <2>1. /\ update.at \in {"idle", "manual", "state"}
          /\ update'.at = "begin" /\ update'.wasDraining /\ ~manualDrain
                => draining[update'.target]
          /\ UNCHANGED <<changes, manualDrain, phase, session, draining, handler>>
        <3>1. CASE StartUpdate BY <3>1 DEF StartUpdate
        <3>2. CASE ReadManual BY <3>2 DEF ReadManual, TypeOK
        <3>3. CASE ReadDrainState BY <3>3 DEF ReadDrainState, TypeOK
        <3> QED BY <1>2, <3>1, <3>2, <3>3
    <2> QED BY <2>1 DEF Giving, Unborn, FoundDrained, Returned, Live, UpdateReturnsDrain,
               HandlerReturns, Announced, Notifying
<1>3. CASE UpdateDrain
    <2> DEFINE s == update.target
    <2>1. /\ update.at = "begin" /\ update'.at = "wait" /\ s # NoSession
          /\ update'.target = s /\ update'.wasDraining = update.wasDraining
          /\ draining' = [draining EXCEPT ![s] = TRUE]
          /\ UNCHANGED <<changes, manualDrain, phase, session, handler>>
        BY <1>3 DEF UpdateDrain, Upd, TypeOK, UpdateHasTarget
    <2>2. s \in 1..session /\ s \in Session BY <2>1, SessionNumbers DEF TypeOK, NoSession
    <2>3. Unborn' BY <2>1, <2>2, UnbornKept DEF Giving
    <2>4. Returned'
        <3> SUFFICES ASSUME Live, draining'[session], ~manualDrain
                     PROVE  Announced' \/ UpdateReturnsDrain'
            BY <2>1 DEF Returned, Live
        <3>1. CASE s = session /\ ~update.wasDraining BY <2>1, <3>1 DEF UpdateReturnsDrain
        <3>2. CASE s # session \/ update.wasDraining
            <4>1. draining[session]
                BY <2>1, <2>2, <3>2 DEF TypeOK, Giving, FoundDrained
            <4>2. Announced
                BY <1>1, <2>1, <4>1 DEF Giving, Returned, UpdateReturnsDrain
            <4> QED BY <2>1, <4>2 DEF Announced, Notifying
        <3> QED BY <3>1, <3>2
    <2> QED BY <2>1, <2>3, <2>4 DEF Giving, FoundDrained
<1>4. CASE UpdateWait \/ UpdatePark \/ Exec \/ StageFails
    <2>1. /\ update.at \in {"wait", "parked", "stage"}
          /\ update'.at \in {"wait", "parked", "stage", "resume", "replaced"}
          /\ update'.target = update.target /\ update'.wasDraining = update.wasDraining
          /\ UNCHANGED <<changes, manualDrain, phase, session, draining, handler>>
        BY <1>4 DEF UpdateWait, UpdatePark, Exec, StageFails, Upd, TypeOK
    <2> QED BY <2>1 DEF Giving, Unborn, FoundDrained, Returned, Live, UpdateReturnsDrain,
               HandlerReturns, Announced, Notifying
<1>5. CASE Resume
    <2> DEFINE s == update.target
    <2>1. /\ update.at = "resume" /\ update'.at = "idle"
          /\ draining' = IF update.wasDraining \/ s = NoSession THEN draining
                         ELSE [draining EXCEPT ![s] = FALSE]
          /\ UNCHANGED <<changes, manualDrain, phase, session, handler>>
        BY <1>5 DEF Resume, NoUpdate
    <2>2. s # NoSession => s \in 1..session /\ s \in Session
        BY SessionNumbers DEF TypeOK, NoSession
    <2>3. Unborn' BY <2>1, <2>2, UnbornKept DEF Giving, Unborn
    <2>4. Returned'
        <3> SUFFICES ASSUME Live, draining'[session], ~manualDrain PROVE Announced'
            BY <2>1 DEF Returned, Live
        <3>1. session \in Session /\ session # NoSession BY DEF Live, Taken, Placed,
        Published, TypeOK
        <3>2. draining[session] BY <2>1, <2>2, <3>1 DEF TypeOK
        <3>3. s = session => update.wasDraining BY <2>1, <2>2, <3>1 DEF TypeOK
        <3>4. Announced BY <1>1, <2>1, <3>2, <3>3 DEF Giving, Returned, UpdateReturnsDrain
        <3> QED BY <2>1, <3>4 DEF Announced, Notifying
    <2> QED BY <2>1, <2>3, <2>4 DEF Giving, FoundDrained
<1> QED BY <1>2, <1>3, <1>4, <1>5 DEF UpdateStep

\* Saves, updates and resumes that take turns give their drain back, whichever of them
\* fails or loses its session on the way, for any number of handlers, sessions and
\* versions; unless a resume comes between the two steps of the Active hook.
THEOREM DrainsAreGivenBack ==
    Spec /\ []Turns /\ []HookAgrees => []ServingRestored
<1>1. Taken /\ Giving => ServingRestored
    <2> SUFFICES ASSUME Giving, phase = "running", ~manualDrain, Settled
                 PROVE  ~draining[session]
        BY DEF ServingRestored
    <2>1. ~Announced /\ ~UpdateReturnsDrain
        BY DEF Settled, NobodyControls, Announced, UpdateReturnsDrain
    <2>2. \A h \in Handler : ~HandlerReturns(h)
        BY DEF Settled, NobodyControls, Controlling, HandlerReturns
    <2> QED BY <2>1, <2>2 DEF Giving, Returned, Live
<1>2. TypeOK /\ UpdateHasTarget /\ Taken /\ Taken' /\ Giving /\ HookAgrees /\ [Next]_vars
        => Giving'
    <2>1. UNCHANGED vars /\ Giving => Giving'
        BY DEF vars, refreshVars, loopVars, linkVars, sessionVars, controlVars, Giving, Unborn,
           FoundDrained, Returned, Live, UpdateReturnsDrain, HandlerReturns, Announced,
           Notifying
    <2> QED BY <2>1, GivingLoop, GivingHandler, GivingUpdate DEF Next
<1> QED BY <1>1, <1>2, GivingInit, TakenInvariant, PTL DEF Spec

-----------------------------------------------------------------------------
\* The policy.  What is left out is a Save that stores one while the factory builds a
\* session's snapshot: the policy is loaded once, before the discovery that is repeated.
Building == phase \in {"loaded", "counted", "discovering", "discovered"}

SavesOutsideDiscovery == [][store' # store => ~Building]_vars

\* A snapshot is built from the stored policy, and a session that has another one has a
\* refresh coming.
Applied ==
    /\ Building => resourcePolicy = store
    /\ phase = "discovered" => meta.policy = store
    /\ phase \in {"created", "activated", "hooked", "connecting", "running"}
          => meta.policy = store \/ Announced

\* A step that leaves the snapshot and the policy alone, and what was announced.
LEMMA AppliedKept ==
    ASSUME Applied, UNCHANGED <<store, resourcePolicy, meta, phase>>, Announced => Announced'
    PROVE  Applied'
BY DEF Applied, Building

\* One step per action.
LEMMA AppliedNext ==
    TypeOK /\ Applied /\ [Next]_vars /\ [store' # store => ~Building]_vars => Applied'
<1> SUFFICES ASSUME TypeOK, Applied, [Next]_vars, [store' # store => ~Building]_vars
             PROVE  Applied'
    OBVIOUS
<1> USE DEF refreshVars, factoryVars, linkVars, sessionVars, controlVars, loopVars
<1>1. CASE UNCHANGED vars BY <1>1, AppliedKept DEF vars, Announced, Notifying
<1>2. CASE LoadPolicy \/ CountGeneration \/ TakeSignal
    BY <1>2 DEF LoadPolicy, CountGeneration, TakeSignal, Applied, Building
<1>3. CASE Discover
    <2>1. meta'.policy = resourcePolicy /\ resourcePolicy = store
        BY <1>3 DEF Discover, Applied, Building
    <2> QED BY <1>3, <2>1 DEF Discover, Applied, Building
<1>4. CASE CheckStable BY <1>4 DEF CheckStable, Applied, Building
<1>5. CASE Activate \/ SessionActive \/ HookDrain \/ Connect \/ Admit \/ Complete
    <2>1. Announced' = Announced
        BY <1>5 DEF Activate, SessionActive, HookDrain, Connect, Admit, Complete, Announced,
                    Notifying
    <2> QED BY <1>5, <2>1
        DEF Activate, SessionActive, HookDrain, Connect, Admit, Complete, Applied, Building
<1>6. CASE Refresh \/ Lose \/ Inactive \/ Reconnect
    BY <1>6 DEF Refresh, Lose, Inactive, Reconnect, Applied, Building
<1>7. ASSUME NEW h \in Handler,
             \/ \E enabled \in BOOLEAN : SetDrain(h, enabled)
             \/ Save(h) \/ SetDrainTarget(h) \/ SetDrainApply(h) \/ SaveBegin(h)
             \/ SaveWait(h) \/ SavePark(h) \/ SaveRollback(h)
      PROVE  Applied'
    <2>1. ~Notifying(h) /\ UNCHANGED <<refreshVars, loopVars, store>>
        BY <1>7 DEF Notifying, SetDrain, Save, SetDrainTarget, SetDrainApply, SaveBegin,
                    SaveWait, SavePark, SaveRollback
    <2>2. \E r : handler' = [handler EXCEPT ![h] = r]
        BY <1>7 DEF At, SetDrain, Save, SetDrainTarget, SetDrainApply, SaveBegin, SaveWait,
                    SavePark, SaveRollback
    <2> QED BY <2>1, <2>2, AnnouncedKept, AppliedKept
<1>8. ASSUME NEW h \in Handler, SaveStore(h) PROVE Applied'
    <2>1. handler[h].at = "store" /\ UNCHANGED <<refreshVars, loopVars>>
        BY <1>8 DEF SaveStore
    <2>2. CASE store' = store + 1 /\ At(h, "notify")
        <3>1. handler'[h].at = "notify" BY <2>2 DEF At, TypeOK
        <3>2. Announced' BY <3>1 DEF Announced, Notifying
        <3>3. store' # store BY <2>2 DEF TypeOK
        <3>4. ~Building BY <3>3 DEF vars
        <3> QED BY <2>1, <3>2, <3>4 DEF Applied, Building
    <2>3. CASE UNCHANGED store /\ \E r : handler' = [handler EXCEPT ![h] = r]
        <3>1. ~Notifying(h) BY <2>1 DEF Notifying
        <3> QED BY <2>1, <2>3, <3>1, AnnouncedKept, AppliedKept
    <2> QED BY <1>8, <2>2, <2>3 DEF SaveStore
<1>9. ASSUME NEW h \in Handler, Install(h) \/ NotifyCount(h) \/ NotifySignal(h) PROVE Applied'
    <2>1. Announced' /\ UNCHANGED <<store, resourcePolicy, meta, phase>>
        BY <1>9 DEF Install, NotifyCount, NotifySignal, At, TypeOK, Announced, Notifying
    <2> QED BY <2>1, AppliedKept
<1>10. CASE StartUpdate \/ UpdateStep
    BY <1>10, AppliedKept
       DEF StartUpdate, UpdateStep, ReadManual, ReadDrainState, UpdateDrain, UpdateWait,
           UpdatePark, Exec, StageFails, Resume, Announced, Notifying
<1> QED
    BY <1>1, <1>2, <1>3, <1>4, <1>5, <1>6, <1>7, <1>8, <1>9, <1>10
    DEF Next, LoopStep, FactoryStep, HandlerStep

\* A settled session runs under the stored policy, unless one was stored while the
\* session's snapshot was built: the run that refutes the property has no other cause,
\* however the controllers overlap.
THEOREM PoliciesApplied == Spec /\ SavesOutsideDiscovery => []PolicyApplied
<1>1. Init => Applied BY DEF Init, Applied, Building
<1>2. Applied => PolicyApplied BY DEF Applied, PolicyApplied, Settled, Announced
<1> QED BY <1>1, <1>2, AppliedNext, TypeInvariant, PTL DEF Spec, SavesOutsideDiscovery
=============================================================================
