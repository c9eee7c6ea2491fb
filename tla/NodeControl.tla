---------------------------- MODULE NodeControl ----------------------------
(***************************************************************************)
(* Who may drain the node, and when a session is replaced: the reconnect   *)
(* loop with its session factory (lifecycle.go), the metadata refresh, the *)
(* resource policy controller of the Control Room, and the updater's       *)
(* maintenance (resource_policy.go, internal/update).                      *)
(*                                                                         *)
(* The controllers share no lock: each goroutine takes one step per atomic *)
(* load, store or client call.  A session is what module DrainContract     *)
(* says of it: a drain flag and the inference it still runs.               *)
(***************************************************************************)
EXTENDS Integers

CONSTANTS
    Handler,    \* Control Room requests that may be in flight
    Operation,  \* what they may do: subset of {"drain", "resume", "save", "install"}
    Updates,    \* whether the updater finds releases
    MaxChanges, MaxSaves, MaxLosses   \* bounds on installs, saves, lost connections

ASSUME NodeControlAssumption ==
    /\ Operation \subseteq {"drain", "resume", "save", "install"}
    /\ Updates \in BOOLEAN
    /\ MaxChanges \in Nat /\ MaxSaves \in Nat /\ MaxLosses \in Nat

\* Every session but the first follows a lost connection or a refresh.
MaxSession == 1 + MaxLosses + MaxChanges + MaxSaves
Session == 1..MaxSession
NoSession == 0

VARIABLES
    store, models,        \* versions of the stored policy and of the installed models
    generation, changes,  \* metadataRefresh: its counter, and the token in its channel
    manualDrain,
    phase,                \* where the reconnect loop is
    session,              \* the last session created
    active,               \* the session the log sink publishes, or NoSession
    resourcePolicy, seen, \* locals of the factory: policy loaded, generation at discovery
    meta,                 \* the snapshot the session authenticates with
    draining, inflight,   \* each session's drain flag; inference of the last session
    losses,
    handler,              \* each Control Room request: its step and its active client
    update                \* the updater, which holds its mutex unless idle

refreshVars == <<generation, changes>>
factoryVars == <<resourcePolicy, seen, meta>>
linkVars    == <<session, active, losses>>
sessionVars == <<draining, inflight>>
controlVars == <<store, models, manualDrain, handler, update>>
loopVars    == <<phase, factoryVars, linkVars>>
vars == <<refreshVars, loopVars, sessionVars, controlVars>>

Idle == [at |-> "idle", target |-> NoSession]
NoUpdate == [at |-> "idle", target |-> NoSession, wasDraining |-> FALSE]

Controlling(h) ==
    handler[h].at \in {"drain", "resume", "begin", "wait", "parked", "store", "rollback"}
Notifying(h)   == handler[h].at \in {"notify", "signal"}

NobodyControls == update.at = "idle" /\ \A h \in Handler : ~Controlling(h)
Settled == NobodyControls /\ ~changes /\ \A h \in Handler : ~Notifying(h)

\* Inference of any session; only the last one can have some, Run waits for it.
Running(s) == IF s = session THEN inflight ELSE 0
\* Deviation: the node counts as drained as soon as it admits nothing new.
DrainedAtOnce(s) == draining[s]

Drained(s) == draining[s] /\ Running(s) = 0

Replaced == update.at = "replaced"

-----------------------------------------------------------------------------
\* The session factory: policy, then a discovery that is repeated while it is stale.

LoadPolicy ==
    /\ phase = "start"
    /\ resourcePolicy' = store
    /\ phase' = "loaded"
    /\ UNCHANGED <<refreshVars, seen, meta, linkVars, sessionVars, controlVars>>

CountGeneration ==
    /\ phase = "loaded"
    /\ seen' = generation
    /\ phase' = "counted"
    /\ UNCHANGED <<refreshVars, resourcePolicy, meta, linkVars, sessionVars, controlVars>>

TakeSignal ==
    /\ phase = "counted"
    /\ changes' = FALSE
    /\ phase' = "discovering"
    /\ UNCHANGED <<generation, factoryVars, linkVars, sessionVars, controlVars>>

Discover ==
    /\ phase = "discovering"
    /\ meta' = [policy |-> resourcePolicy, models |-> models]
    /\ phase' = "discovered"
    /\ UNCHANGED <<refreshVars, resourcePolicy, seen, linkVars, sessionVars, controlVars>>

\* Deviation: the token is taken after discovery, with no second look at the generation.
AcceptAndTakeSignal ==
    /\ phase = "discovered"
    /\ changes' = FALSE
    /\ phase' = "created"
    /\ UNCHANGED <<generation, factoryVars, linkVars, sessionVars, controlVars>>

CheckStable ==
    /\ phase = "discovered"
    /\ phase' = IF generation = seen THEN "created" ELSE "loaded"
    /\ UNCHANGED <<refreshVars, factoryVars, linkVars, sessionVars, controlVars>>

-----------------------------------------------------------------------------
\* The session: the Active hook in two steps, the run, the Inactive hook.

Activate ==
    /\ phase = "created" /\ session < MaxSession
    /\ session' = session + 1
    /\ active' = session + 1
    /\ phase' = "activated"
    /\ UNCHANGED <<refreshVars, factoryVars, losses, sessionVars, controlVars>>

\* Deviation: a replacement session does not inherit the operator's drain.
SessionServes ==
    /\ phase = "activated"
    /\ phase' = "connecting"
    /\ UNCHANGED <<refreshVars, factoryVars, linkVars, sessionVars, controlVars>>

SessionActive ==
    /\ phase = "activated"
    /\ phase' = IF manualDrain THEN "hooked" ELSE "connecting"
    /\ UNCHANGED <<refreshVars, factoryVars, linkVars, sessionVars, controlVars>>

HookDrain ==
    /\ phase = "hooked"
    /\ draining' = [draining EXCEPT ![session] = TRUE]
    /\ phase' = "connecting"
    /\ UNCHANGED <<refreshVars, factoryVars, linkVars, inflight, controlVars>>

Connect ==
    /\ phase = "connecting"
    /\ phase' = "running"
    /\ UNCHANGED <<refreshVars, factoryVars, linkVars, sessionVars, controlVars>>

Admit ==
    /\ phase = "running" /\ ~draining[session] /\ inflight = 0
    /\ inflight' = 1
    /\ UNCHANGED <<refreshVars, loopVars, draining, controlVars>>

Complete ==
    /\ inflight = 1
    /\ inflight' = 0
    /\ UNCHANGED <<refreshVars, loopVars, draining, controlVars>>

\* Run returns ErrMetadataChanged.
Refresh ==
    /\ phase = "running" /\ changes
    /\ changes' = FALSE
    /\ phase' = "closing"
    /\ UNCHANGED <<generation, factoryVars, linkVars, sessionVars, controlVars>>

\* The connection cannot be made or breaks.
Lose ==
    /\ phase \in {"connecting", "running"} /\ losses < MaxLosses
    /\ losses' = losses + 1
    /\ phase' = "closing"
    /\ UNCHANGED <<refreshVars, factoryVars, session, active, sessionVars, controlVars>>

\* Run returns once its handlers have; then the Inactive hook and the backoff.
Inactive ==
    /\ phase = "closing" /\ inflight = 0
    /\ active' = NoSession
    /\ phase' = "backoff"
    /\ UNCHANGED <<refreshVars, factoryVars, session, losses, sessionVars, controlVars>>

Reconnect ==
    /\ phase = "backoff"
    /\ phase' = "start"
    /\ UNCHANGED <<refreshVars, factoryVars, linkVars, sessionVars, controlVars>>

-----------------------------------------------------------------------------
\* Control Room requests: SetDrain, Save, and a change of the installed models.
\* Each begins in the idle handler h and ends by leaving it idle.

At(h, l) == handler' = [handler EXCEPT ![h].at = l]

\* SetDrain: the flag first, then the session that is active by then.
SetDrain(h, enabled) ==
    /\ handler[h].at = "idle"
    /\ (IF enabled THEN "drain" ELSE "resume") \in Operation
    /\ manualDrain' = enabled
    /\ At(h, IF enabled THEN "drain" ELSE "resume")
    /\ UNCHANGED <<store, models, refreshVars, loopVars, sessionVars, update>>

SetDrainTarget(h) ==
    /\ handler[h].at \in {"drain", "resume"} /\ handler[h].target = NoSession
    /\ handler' = [handler EXCEPT ![h] =
          IF active = NoSession THEN Idle ELSE [@ EXCEPT !.target = active]]
    /\ UNCHANGED <<store, models, refreshVars, manualDrain, loopVars, sessionVars, update>>

SetDrainApply(h) ==
    /\ handler[h].at \in {"drain", "resume"} /\ handler[h].target # NoSession
    /\ draining' = [draining EXCEPT ![handler[h].target] = (handler[h].at = "drain")]
    /\ handler' = [handler EXCEPT ![h] = Idle]
    /\ UNCHANGED <<store, models, refreshVars, manualDrain, loopVars, inflight, update>>

\* Save: drain the active session, if any, and wait for it.
Save(h) ==
    /\ handler[h].at = "idle"
    /\ "save" \in Operation /\ store < MaxSaves
    /\ handler' = [handler EXCEPT ![h] =
          [at |-> IF active = NoSession THEN "store" ELSE "begin", target |-> active]]
    /\ UNCHANGED <<store, models, refreshVars, manualDrain, loopVars, sessionVars, update>>

SaveBegin(h) ==
    /\ handler[h].at = "begin"
    /\ draining' = [draining EXCEPT ![handler[h].target] = TRUE]
    /\ At(h, "wait")
    /\ UNCHANGED <<store, models, refreshVars, manualDrain, loopVars, inflight, update>>

\* WaitForDrained looks, and parks on drainChanged unless the session is drained.
SaveWait(h) ==
    /\ handler[h].at = "wait"
    /\ At(h, IF Drained(handler[h].target) THEN "store" ELSE "parked")
    /\ UNCHANGED <<store, models, refreshVars, manualDrain, loopVars, sessionVars, update>>

\* Parked, it looks again once the session is drained, unless the context of the browser's
\* request ends; when both have happened the select takes either.
SavePark(h) ==
    /\ handler[h].at = "parked"
    /\ \/ Drained(handler[h].target) /\ At(h, "wait")
       \/ At(h, "rollback")
    /\ UNCHANGED <<store, models, refreshVars, manualDrain, loopVars, sessionVars, update>>

\* Deviation: a refused policy leaves the drain in place.
SaveStoreKeepsDrain(h) ==
    /\ handler[h].at = "store"
    /\ \/ store < MaxSaves /\ store' = store + 1 /\ At(h, "notify")
       \/ UNCHANGED store /\ handler' = [handler EXCEPT ![h] = Idle]
    /\ UNCHANGED <<models, refreshVars, manualDrain, loopVars, sessionVars, update>>

\* store.Save refuses an invalid policy.
SaveStore(h) ==
    /\ handler[h].at = "store"
    /\ \/ store < MaxSaves /\ store' = store + 1 /\ At(h, "notify")
       \/ /\ UNCHANGED store
          /\ handler' = [handler EXCEPT ![h] =
                IF @.target = NoSession THEN Idle ELSE [@ EXCEPT !.at = "rollback"]]
    /\ UNCHANGED <<models, refreshVars, manualDrain, loopVars, sessionVars, update>>

SaveRollback(h) ==
    /\ handler[h].at = "rollback"
    /\ draining' = [draining EXCEPT ![handler[h].target] = FALSE]
    /\ handler' = [handler EXCEPT ![h] = Idle]
    /\ UNCHANGED <<store, models, refreshVars, manualDrain, loopVars, inflight, update>>

\* A model is pulled, deleted or replaced: first the runtime, then Notify.
Install(h) ==
    /\ handler[h].at = "idle"
    /\ "install" \in Operation /\ models < MaxChanges
    /\ models' = models + 1
    /\ At(h, "notify")
    /\ UNCHANGED <<store, refreshVars, manualDrain, loopVars, sessionVars, update>>

\* Notify: the generation, then the token, which coalesces.
NotifyCount(h) ==
    /\ handler[h].at = "notify"
    /\ generation' = generation + 1
    /\ At(h, "signal")
    /\ UNCHANGED <<store, models, changes, manualDrain, loopVars, sessionVars, update>>

NotifySignal(h) ==
    /\ handler[h].at = "signal"
    /\ changes' = TRUE
    /\ handler' = [handler EXCEPT ![h] = Idle]
    /\ UNCHANGED <<store, models, generation, manualDrain, loopVars, sessionVars, update>>

-----------------------------------------------------------------------------
\* The updater: runLatestRelease around BeginMaintenance.  It holds its mutex from
\* StartUpdate on, so that other callers get ErrUpdateInProgress.

Upd(l) == update' = [update EXCEPT !.at = l]

\* A verified release was downloaded; maintenance takes the active session.
StartUpdate ==
    /\ Updates /\ update.at = "idle"
    /\ update' = [at |-> IF active = NoSession THEN "stage" ELSE "manual",
                  target |-> active, wasDraining |-> FALSE]
    /\ UNCHANGED <<store, models, refreshVars, manualDrain, loopVars, sessionVars, handler>>

ReadManual ==
    /\ update.at = "manual"
    /\ update' = [update EXCEPT !.at = IF manualDrain THEN "begin" ELSE "state",
                                !.wasDraining = manualDrain]
    /\ UNCHANGED <<store, models, refreshVars, manualDrain, loopVars, sessionVars, handler>>

ReadDrainState ==
    /\ update.at = "state"
    /\ update' = [update EXCEPT !.at = "begin", !.wasDraining = draining[update.target]]
    /\ UNCHANGED <<store, models, refreshVars, manualDrain, loopVars, sessionVars, handler>>

\* Deviation: the updater waits for a drain it did not begin.
UpdateOnlyWaits ==
    /\ update.at = "begin"
    /\ Upd("wait")
    /\ UNCHANGED <<store, models, refreshVars, manualDrain, loopVars, sessionVars, handler>>

UpdateDrain ==
    /\ update.at = "begin"
    /\ draining' = [draining EXCEPT ![update.target] = TRUE]
    /\ Upd("wait")
    /\ UNCHANGED <<store, models, refreshVars, manualDrain, loopVars, inflight, handler>>

UpdateWait ==
    /\ update.at = "wait"
    /\ Upd(IF Drained(update.target) THEN "stage" ELSE "parked")
    /\ UNCHANGED <<store, models, refreshVars, manualDrain, loopVars, sessionVars, handler>>

\* Its context is over when it is that of a gateway's session, which ends.
UpdatePark ==
    /\ update.at = "parked"
    /\ \/ Drained(update.target) /\ Upd("wait")
       \/ phase = "closing" /\ Upd("resume")
    /\ UNCHANGED <<store, models, refreshVars, manualDrain, loopVars, sessionVars, handler>>

\* Staging the candidate: Exec replaces the process, or something fails.
Exec ==
    /\ update.at = "stage"
    /\ Upd("replaced")
    /\ UNCHANGED <<store, models, refreshVars, manualDrain, loopVars, sessionVars, handler>>

StageFails ==
    /\ update.at = "stage"
    /\ Upd("resume")
    /\ UNCHANGED <<store, models, refreshVars, manualDrain, loopVars, sessionVars, handler>>

\* The rollback of BeginMaintenance and its resume callback are the same.
Resume ==
    /\ update.at = "resume"
    /\ draining' = IF update.wasDraining \/ update.target = NoSession THEN draining
                   ELSE [draining EXCEPT ![update.target] = FALSE]
    /\ update' = NoUpdate
    /\ UNCHANGED <<store, models, refreshVars, manualDrain, loopVars, inflight, handler>>

-----------------------------------------------------------------------------
Init ==
    /\ store = 0 /\ models = 0
    /\ generation = 0 /\ changes = FALSE
    /\ manualDrain = FALSE
    /\ phase = "start" /\ session = NoSession /\ active = NoSession
    /\ resourcePolicy = 0 /\ seen = 0
    /\ meta = [policy |-> 0, models |-> 0]
    /\ draining = [s \in Session |-> FALSE] /\ inflight = 0
    /\ losses = 0
    /\ handler = [h \in Handler |-> Idle]
    /\ update = NoUpdate

FactoryStep == LoadPolicy \/ CountGeneration \/ TakeSignal \/ Discover \/ CheckStable

LoopStep ==
    FactoryStep \/ Activate \/ SessionActive \/ HookDrain \/ Connect \/ Refresh \/ Inactive
    \/ Reconnect

HandlerStep(h) ==
    \/ SetDrainTarget(h) \/ SetDrainApply(h)
    \/ SaveBegin(h) \/ SaveWait(h) \/ SavePark(h) \/ SaveStore(h) \/ SaveRollback(h)
    \/ NotifyCount(h) \/ NotifySignal(h)

UpdateStep ==
    \/ ReadManual \/ ReadDrainState \/ UpdateDrain \/ UpdateWait \/ UpdatePark
    \/ Exec \/ StageFails \/ Resume

\* Exec ends every goroutine of the process.
Next ==
    /\ ~Replaced
    /\ \/ LoopStep \/ Admit \/ Complete \/ Lose
       \/ \E h \in Handler :
             \/ \E enabled \in BOOLEAN : SetDrain(h, enabled)
             \/ Save(h) \/ Install(h) \/ HandlerStep(h)
       \/ StartUpdate \/ UpdateStep

Spec == Init /\ [][Next]_vars

\* The runtime schedules the reconnect loop, the handlers and the updater; inference
\* completes because each request has a timeout.  Nothing forces users or the network.
FairSpec ==
    /\ Spec
    /\ WF_vars(~Replaced /\ LoopStep) /\ WF_vars(~Replaced /\ Complete)
    /\ \A h \in Handler : WF_vars(~Replaced /\ HandlerStep(h))
    /\ WF_vars(~Replaced /\ UpdateStep)

-----------------------------------------------------------------------------
Steps == {"idle", "drain", "resume", "begin", "wait", "parked", "store", "rollback", "notify",
          "signal"}
UpdateSteps == {"idle", "manual", "state", "begin", "wait", "parked", "stage", "resume",
                "replaced"}
Phases == {"start", "loaded", "counted", "discovering", "discovered", "created", "activated",
           "hooked", "connecting", "running", "closing", "backoff"}

TypeOK ==
    /\ store \in 0..MaxSaves /\ models \in 0..MaxChanges
    /\ generation \in Nat /\ changes \in BOOLEAN
    /\ manualDrain \in BOOLEAN
    /\ phase \in Phases
    /\ session \in Session \cup {NoSession} /\ active \in {NoSession, session}
    /\ resourcePolicy \in 0..store /\ seen \in 0..generation
    /\ meta \in [policy : 0..store, models : 0..models]
    /\ draining \in [Session -> BOOLEAN] /\ inflight \in 0..1
    /\ losses \in 0..MaxLosses
    /\ handler \in [Handler -> [at : Steps, target : 0..session]]
    /\ update \in [at : UpdateSteps, target : 0..session, wasDraining : BOOLEAN]

\* A drain the operator asked for holds on every session that can serve, the ones that
\* replaced the drained session included, whichever of SetDrain and the Active hook
\* saw the other first.
ManualDrainHonoured ==
    /\ manualDrain /\ phase \in {"connecting", "running"}
    /\ \A h \in Handler : handler[h].at # "drain"
    => draining[session]

\* A running session whose snapshot of the installed models is out of date has a refresh
\* coming: the token taken at the start of a discovery is never one it needed.
SnapshotFresh ==
    phase = "running" /\ ~changes /\ (\A h \in Handler : ~Notifying(h)) => meta.models = models

\* A session authenticates with every change that was notified while its snapshot was
\* being built.
AuthSnapshotCurrent ==
    [][phase = "discovered" /\ phase' = "created" =>
          meta.models = models \/ \E h \in Handler : handler[h].at = "notify"]_vars

\* Saves and updates give their drain back: when none is in flight and no refresh is
\* due, a session the operator did not drain serves.
ServingRestored ==
    phase = "running" /\ ~manualDrain /\ Settled => ~draining[session]

\* An update that waits for the node to drain goes on, fails or replaces the process;
\* it does not keep the updater's mutex.
UpdateReturns == (update.at = "wait") ~> (update.at \in {"idle", "replaced"})

\* The Control Room says of Save that it reconnects the session, then applies the new
\* limits: a settled session runs under the stored policy.
PolicyApplied == phase = "running" /\ Settled => meta.policy = store

\* A test says that maintenance preserves the manual drain: giving back a maintenance
\* drain changes nothing while the operator's drain is set.
ManualDrainKept ==
    [][update.at = "resume" /\ update'.at = "idle" /\ manualDrain => draining' = draining]_vars

\* The updater's configuration says that active work is waited for before a candidate is
\* staged: an update that drained a session does not replace the process under a request.
ReplacedWhenQuiet == [][Replaced' /\ update.target # NoSession => inflight = 0]_vars

\* Drain controllers that take turns: at most one is in flight.  The code does not see to
\* it; it is the premise of what is said of drains that nobody undoes.
Turns ==
    /\ \A h \in Handler : Controlling(h) => update.at = "idle"
    /\ \A g, h \in Handler : Controlling(g) /\ Controlling(h) => g = h
=============================================================================
