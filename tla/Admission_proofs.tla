-------------------------- MODULE Admission_proofs --------------------------
(***************************************************************************)
(* Proofs about Admission.  Base says that the pools and the in-flight     *)
(* counter are exact; the other invariants are inductive relative to it,   *)
(* and the drain contract is proved step by step from all of them.  The    *)
(* reader's guards rest on what a task carries to each stage.              *)
(***************************************************************************)
EXTENDS Admission, FiniteSetTheorems, TLAPS

\* Stages in which a task carries a request, or the id of a drain command.
Carrying  == {"gate", "vram", "acquire", "recheck", "admit", "register", "run",
              "unregister", "release", "finish"}
Answering == {"state", "send"}

TaskShape ==
    \A t \in Task :
        /\ stage[t] \in Carrying => id[t] \in RequestId /\ kind[t] \in Kind
        /\ stage[t] \in Answering => note[t].command \in Command

Base == TypeOK /\ TaskShape /\ SlotAccounting /\ InflightAccounting

-----------------------------------------------------------------------------
\* The sets the two counters measure.

\* The tasks admitted, and the tasks holding a token of a pool, are finitely many.
LEMMA SetsFinite ==
    /\ IsFiniteSet(Inflight) /\ Cardinality(Inflight) \in Nat
    /\ \A k \in Kind : IsFiniteSet(Holders(k)) /\ Cardinality(Holders(k)) \in Nat
<1>1. IsFiniteSet(Inflight)
    BY FS_Subset, AdmissionAssumption DEF Inflight
<1>2. ASSUME NEW k \in Kind PROVE IsFiniteSet(Holders(k))
    BY FS_Subset, AdmissionAssumption DEF Holders
<1> QED BY <1>1, <1>2, FS_CardinalityType

\* A task that does not change between counted and uncounted leaves the counter right.
LEMMA CountKept ==
    ASSUME TypeOK, InflightAccounting, NEW t \in Task, NEW s \in Stage,
           stage' = [stage EXCEPT ![t] = s], stage[t] \in Counted <=> s \in Counted,
           inflight' = inflight
    PROVE  InflightAccounting'
<1>1. Inflight' = Inflight BY DEF TypeOK, Inflight
<1> QED BY <1>1 DEF InflightAccounting

\* admitInflight counts one more task.
LEMMA CountUp ==
    ASSUME TypeOK, InflightAccounting, NEW t \in Task, NEW s \in Counted,
           stage' = [stage EXCEPT ![t] = s], stage[t] \notin Counted,
           inflight' = inflight + 1
    PROVE  InflightAccounting' /\ inflight' \in Nat
<1>1. Inflight' = Inflight \cup {t} /\ t \notin Inflight BY DEF TypeOK, Inflight
<1>2. Cardinality(Inflight \cup {t}) = Cardinality(Inflight) + 1
    BY <1>1, SetsFinite, FS_AddElement
<1> QED BY <1>1, <1>2 DEF InflightAccounting, TypeOK

\* finishInflightRequest counts one less, and the counter was positive.
LEMMA CountDown ==
    ASSUME TypeOK, InflightAccounting, NEW t \in Task, NEW s \in Stage,
           stage' = [stage EXCEPT ![t] = s], stage[t] \in Counted, s \notin Counted,
           inflight' = inflight - 1
    PROVE  InflightAccounting' /\ inflight' \in Nat
<1>1. Inflight' = Inflight \ {t} /\ t \in Inflight BY DEF TypeOK, Inflight
<1>2. Cardinality(Inflight \ {t}) = Cardinality(Inflight) - 1
    BY <1>1, SetsFinite, FS_RemoveElement
<1>3. IsFiniteSet(Inflight \ {t}) /\ Cardinality(Inflight \ {t}) \in Nat
    BY SetsFinite, FS_Subset, FS_CardinalityType, Inflight \ {t} \subseteq Inflight
<1> QED BY <1>1, <1>2, <1>3 DEF InflightAccounting, TypeOK

\* A task that neither takes nor gives a token leaves the pools right.
LEMMA SlotsKept ==
    ASSUME TypeOK, SlotAccounting, NEW t \in Task, NEW s \in Stage,
           stage' = [stage EXCEPT ![t] = s], stage[t] \in Holding <=> s \in Holding,
           \/ kind' = kind
           \/ stage[t] \notin Holding /\ \E x : kind' = [kind EXCEPT ![t] = x],
           slots' = slots
    PROVE  SlotAccounting'
<1>1. ASSUME NEW k \in Kind PROVE Holders(k)' = Holders(k) BY DEF TypeOK, Holders
<1> QED BY <1>1 DEF SlotAccounting

\* A token put in a pool below its limit.
LEMMA SlotTaken ==
    ASSUME TypeOK, SlotAccounting, NEW t \in Task, NEW s \in Holding,
           stage' = [stage EXCEPT ![t] = s], stage[t] \notin Holding,
           kind' = kind, kind[t] \in Kind, slots[kind[t]] < Limit[kind[t]],
           slots' = [slots EXCEPT ![kind[t]] = @ + 1]
    PROVE  SlotAccounting' /\ slots' \in [Kind -> Nat]
<1>1. ASSUME NEW k \in Kind
      PROVE  slots'[k] = Cardinality(Holders(k)') /\ slots'[k] <= Limit[k]
    <2>1. CASE k = kind[t]
        <3>1. Holders(k)' = Holders(k) \cup {t} /\ t \notin Holders(k)
            BY <2>1 DEF TypeOK, Holders
        <3>2. Cardinality(Holders(k) \cup {t}) = Cardinality(Holders(k)) + 1
            BY <3>1, SetsFinite, FS_AddElement
        <3>3. slots[k] \in Nat /\ slots[k] < Limit[k] /\ Limit[k] \in Nat
            BY <2>1, AdmissionAssumption DEF AdmissionAssumption, TypeOK
        <3>4. slots'[k] = slots[k] + 1 BY <2>1 DEF TypeOK
        <3> QED BY <3>1, <3>2, <3>3, <3>4 DEF SlotAccounting
    <2>2. CASE k # kind[t]
        <3>1. Holders(k)' = Holders(k) BY <2>2 DEF TypeOK, Holders
        <3> QED BY <2>2, <3>1 DEF SlotAccounting, TypeOK
    <2> QED BY <2>1, <2>2
<1> QED BY <1>1 DEF SlotAccounting, TypeOK

\* A token taken back out of its pool.
LEMMA SlotFreed ==
    ASSUME TypeOK, SlotAccounting, NEW t \in Task, NEW s \in Stage,
           stage' = [stage EXCEPT ![t] = s], stage[t] \in Holding, s \notin Holding,
           kind' = kind \/ \E x : kind' = [kind EXCEPT ![t] = x], kind[t] \in Kind,
           slots' = [slots EXCEPT ![kind[t]] = @ - 1]
    PROVE  SlotAccounting' /\ slots' \in [Kind -> Nat]
<1>1. ASSUME NEW k \in Kind
      PROVE  /\ slots'[k] = Cardinality(Holders(k)') /\ slots'[k] <= Limit[k]
             /\ slots'[k] \in Nat
    <2>1. CASE k = kind[t]
        <3>1. Holders(k)' = Holders(k) \ {t} /\ t \in Holders(k)
            BY <2>1 DEF TypeOK, Holders
        <3>2. Cardinality(Holders(k) \ {t}) = Cardinality(Holders(k)) - 1
            BY <3>1, SetsFinite, FS_RemoveElement
        <3>3. Cardinality(Holders(k) \ {t}) \in Nat
            BY SetsFinite, FS_Subset, FS_CardinalityType, Holders(k) \ {t} \subseteq Holders(k)
        <3>4. slots[k] \in Nat /\ slots[k] <= Limit[k] /\ Limit[k] \in Nat
            BY AdmissionAssumption DEF AdmissionAssumption, TypeOK, SlotAccounting
        <3>5. slots'[k] = slots[k] - 1 BY <2>1 DEF TypeOK
        <3> QED BY <3>1, <3>2, <3>3, <3>4, <3>5 DEF SlotAccounting
    <2>2. CASE k # kind[t]
        <3>1. Holders(k)' = Holders(k) BY <2>2 DEF TypeOK, Holders
        <3> QED BY <2>2, <3>1 DEF SlotAccounting, TypeOK
    <2> QED BY <2>1, <2>2
<1> QED BY <1>1 DEF SlotAccounting, TypeOK

-----------------------------------------------------------------------------
\* Base is inductive.

\* A new session has every pool empty, nothing counted and no task under way.
LEMMA BaseInit == Init => Base
<1> SUFFICES ASSUME Init PROVE Base OBVIOUS
<1>1. TypeOK
    BY DEF Init, TypeOK, Stage, Phase, NoNote, DrainStates
<1>2. TaskShape BY DEF Init, TaskShape, Carrying, Answering
<1>3. Inflight = {} /\ \A k \in Kind : Holders(k) = {}
    BY DEF Init, Inflight, Holders, Counted, Holding
<1>4. InflightAccounting BY <1>3, FS_EmptySet DEF InflightAccounting, Init
<1>5. ASSUME NEW k \in Kind PROVE slots[k] = Cardinality(Holders(k)) /\ slots[k] <= Limit[k]
    <2>1. slots[k] = 0 BY DEF Init
    <2>2. Cardinality(Holders(k)) = 0 BY <1>3, FS_EmptySet
    <2>3. Limit[k] \in Nat BY AdmissionAssumption DEF AdmissionAssumption
    <2> QED BY <2>1, <2>2, <2>3
<1> QED BY <1>1, <1>2, <1>4, <1>5 DEF Base, SlotAccounting

\* What the end of a task leaves well-typed, whoever ends it.
LEMMA EndTyped ==
    ASSUME Base, NEW t \in Task, End(t)
    PROVE  /\ stage' \in [Task -> Stage]
           /\ id' \in [Task -> RequestId \cup {NoRequest}]
           /\ kind' \in [Task -> Kind \cup {NoRequest}]
           /\ note' \in [Task -> [command : Command \cup {NoCommand}, state : DrainStates]]
           /\ reader' \in Task \cup {NoTask}
           /\ TaskShape'
<1>1. /\ stage' \in [Task -> Stage]
      /\ id' \in [Task -> RequestId \cup {NoRequest}]
      /\ kind' \in [Task -> Kind \cup {NoRequest}]
      /\ reader' \in Task \cup {NoTask}
    BY DEF Base, TypeOK, End, Goto, Stage
<1>2. note' \in [Task -> [command : Command \cup {NoCommand}, state : DrainStates]]
    BY DEF Base, TypeOK, End, NoNote, DrainStates
<1>3. TaskShape'
    BY DEF Base, TypeOK, TaskShape, End, Goto, Carrying, Answering
<1> QED BY <1>1, <1>2, <1>3

\* Closing the drained channel wakes waiters and leaves them at a program point.
LEMMA WokenTyped == TypeOK => Woken \in [Waiter -> Phase]
BY DEF TypeOK, Woken, Phase

\* One step per action: its effect on the pools, on the counter, on the types and on TaskShape.
LEMMA BaseNext == Base /\ [Next]_vars => Base'
<1> SUFFICES ASSUME Base, [Next]_vars PROVE Base' OBVIOUS
<1> USE DEF Base, Goto, drainVars, reportVars, requestVars
<1>1. ASSUME NEW t \in Task, NEW i \in RequestId, NEW k \in Kind, Receive(t, i, k) PROVE Base'
    <2>1. SlotAccounting' /\ slots' \in [Kind -> Nat]
        BY <1>1, SlotsKept DEF Receive, Holding, Stage, TypeOK, TaskShape, Carrying
    <2>2. InflightAccounting' /\ inflight' \in Nat
        BY <1>1, CountKept DEF Receive, Counted, Stage, TypeOK
    <2>3. TypeOK' BY <1>1, <2>1, <2>2 DEF Receive, TypeOK, Stage
    <2>4. TaskShape' BY <1>1 DEF Receive, TypeOK, TaskShape, Carrying, Answering
    <2> QED BY <2>1, <2>2, <2>3, <2>4
<1>2. ASSUME NEW t \in Task, NEW c \in Command, HandleDrainStart(t, c) PROVE Base'
    <2>1. SlotAccounting' /\ slots' \in [Kind -> Nat]
        BY <1>2, SlotsKept
        DEF HandleDrainStart, Woken, Holding, Stage, TypeOK, TaskShape, Carrying
    <2>2. InflightAccounting' /\ inflight' \in Nat
        BY <1>2, CountKept DEF HandleDrainStart, Woken, Counted, Stage, TypeOK
    <2>3. TypeOK' BY <1>2, <2>1, <2>2, WokenTyped DEF HandleDrainStart, TypeOK, Stage, Phase
    <2>4. TaskShape' BY <1>2 DEF HandleDrainStart, TypeOK, TaskShape, Carrying, Answering
    <2> QED BY <2>1, <2>2, <2>3, <2>4
<1>3. ASSUME NEW t \in Task, NEW c \in Command, HandleDrainCancel(t, c) PROVE Base'
    <2>1. SlotAccounting' /\ slots' \in [Kind -> Nat]
        BY <1>3, SlotsKept
        DEF HandleDrainCancel, Serve, Woken, Holding, Stage, TypeOK, TaskShape, Carrying
    <2>2. InflightAccounting' /\ inflight' \in Nat
        BY <1>3, CountKept DEF HandleDrainCancel, Serve, Woken, Counted, Stage, TypeOK
    <2>3. TypeOK'
        BY <1>3, <2>1, <2>2, WokenTyped DEF HandleDrainCancel, Serve, TypeOK, Stage, Phase
    <2>4. TaskShape'
        BY <1>3 DEF HandleDrainCancel, Serve, TypeOK, TaskShape, Carrying, Answering
    <2> QED BY <2>1, <2>2, <2>3, <2>4
<1>4. ASSUME NEW t \in Task, Gate(t) PROVE Base'
    <2>1. SlotAccounting' /\ slots' \in [Kind -> Nat]
        BY <1>4, SlotsKept DEF Gate, End, Holding, Stage, TypeOK, TaskShape, Carrying
    <2>2. InflightAccounting' /\ inflight' \in Nat
        BY <1>4, CountKept DEF Gate, End, Counted, Stage, TypeOK
    <2>3. TypeOK' BY <1>4, <2>1, <2>2, EndTyped DEF Gate, TypeOK, Stage
    <2>4. TaskShape' BY <1>4, EndTyped DEF Gate, TypeOK, TaskShape, Carrying, Answering
    <2> QED BY <2>1, <2>2, <2>3, <2>4
<1>5. ASSUME NEW t \in Task, CheckVRAM(t) PROVE Base'
    <2>1. SlotAccounting' /\ slots' \in [Kind -> Nat]
        BY <1>5, SlotsKept DEF CheckVRAM, End, Holding, Stage, TypeOK, TaskShape, Carrying
    <2>2. InflightAccounting' /\ inflight' \in Nat
        BY <1>5, CountKept DEF CheckVRAM, End, Counted, Stage, TypeOK
    <2>3. TypeOK' BY <1>5, <2>1, <2>2, EndTyped DEF CheckVRAM, TypeOK, Stage
    <2>4. TaskShape' BY <1>5, EndTyped DEF CheckVRAM, TypeOK, TaskShape, Carrying, Answering
    <2> QED BY <2>1, <2>2, <2>3, <2>4
<1>6. ASSUME NEW t \in Task, Acquire(t) PROVE Base'
    <2>1. SlotAccounting' /\ slots' \in [Kind -> Nat]
        BY <1>6, SlotsKept, SlotTaken
        DEF Acquire, End, Holding, Stage, TypeOK, TaskShape, Carrying
    <2>2. InflightAccounting' /\ inflight' \in Nat
        BY <1>6, CountKept DEF Acquire, End, Counted, Stage, TypeOK
    <2>3. TypeOK' BY <1>6, <2>1, <2>2, EndTyped DEF Acquire, TypeOK, Stage
    <2>4. TaskShape' BY <1>6, EndTyped DEF Acquire, TypeOK, TaskShape, Carrying, Answering
    <2> QED BY <2>1, <2>2, <2>3, <2>4
<1>7. ASSUME NEW t \in Task, Recheck(t) PROVE Base'
    <2>1. SlotAccounting' /\ slots' \in [Kind -> Nat]
        BY <1>7, SlotsKept, SlotFreed
        DEF Recheck, End, Holding, Stage, TypeOK, TaskShape, Carrying
    <2>2. InflightAccounting' /\ inflight' \in Nat
        BY <1>7, CountKept DEF Recheck, End, Counted, Stage, TypeOK
    <2>3. TypeOK' BY <1>7, <2>1, <2>2, EndTyped DEF Recheck, TypeOK, Stage
    <2>4. TaskShape' BY <1>7, EndTyped DEF Recheck, TypeOK, TaskShape, Carrying, Answering
    <2> QED BY <2>1, <2>2, <2>3, <2>4
<1>8. ASSUME NEW t \in Task, Admit(t) PROVE Base'
    <2>1. SlotAccounting' /\ slots' \in [Kind -> Nat]
        BY <1>8, SlotsKept, SlotFreed
        DEF Admit, End, Holding, Stage, TypeOK, TaskShape, Carrying
    <2>2. InflightAccounting' /\ inflight' \in Nat
        BY <1>8, CountKept, CountUp DEF Admit, End, Counted, Stage, TypeOK
    <2>3. TypeOK' BY <1>8, <2>1, <2>2, EndTyped DEF Admit, TypeOK, Stage
    <2>4. TaskShape' BY <1>8, EndTyped DEF Admit, TypeOK, TaskShape, Carrying, Answering
    <2> QED BY <2>1, <2>2, <2>3, <2>4
<1>9. ASSUME NEW t \in Task, Register(t) PROVE Base'
    <2>1. SlotAccounting' /\ slots' \in [Kind -> Nat]
        BY <1>9, SlotsKept DEF Register, Holding, Stage, TypeOK, TaskShape, Carrying
    <2>2. InflightAccounting' /\ inflight' \in Nat
        BY <1>9, CountKept DEF Register, Counted, Stage, TypeOK
    <2>3. TypeOK' BY <1>9, <2>1, <2>2 DEF Register, TypeOK, Stage
    <2>4. TaskShape' BY <1>9 DEF Register, TypeOK, TaskShape, Carrying, Answering
    <2> QED BY <2>1, <2>2, <2>3, <2>4
<1>10. ASSUME NEW t \in Task, HandlerReturns(t) PROVE Base'
    <2>1. SlotAccounting' /\ slots' \in [Kind -> Nat]
        BY <1>10, SlotsKept DEF HandlerReturns, Holding, Stage, TypeOK, TaskShape, Carrying
    <2>2. InflightAccounting' /\ inflight' \in Nat
        BY <1>10, CountKept DEF HandlerReturns, Counted, Stage, TypeOK
    <2>3. TypeOK' BY <1>10, <2>1, <2>2 DEF HandlerReturns, TypeOK, Stage
    <2>4. TaskShape' BY <1>10 DEF HandlerReturns, TypeOK, TaskShape, Carrying, Answering
    <2> QED BY <2>1, <2>2, <2>3, <2>4
<1>11. ASSUME NEW t \in Task, Unregister(t) PROVE Base'
    <2>1. SlotAccounting' /\ slots' \in [Kind -> Nat]
        BY <1>11, SlotsKept DEF Unregister, Holding, Stage, TypeOK, TaskShape, Carrying
    <2>2. InflightAccounting' /\ inflight' \in Nat
        BY <1>11, CountKept DEF Unregister, Counted, Stage, TypeOK
    <2>3. TypeOK' BY <1>11, <2>1, <2>2 DEF Unregister, TypeOK, Stage
    <2>4. TaskShape' BY <1>11 DEF Unregister, TypeOK, TaskShape, Carrying, Answering
    <2> QED BY <2>1, <2>2, <2>3, <2>4
<1>12. ASSUME NEW t \in Task, Release(t) PROVE Base'
    <2>1. SlotAccounting' /\ slots' \in [Kind -> Nat]
        BY <1>12, SlotFreed DEF Release, Holding, Stage, TypeOK, TaskShape, Carrying
    <2>2. InflightAccounting' /\ inflight' \in Nat
        BY <1>12, CountKept DEF Release, Counted, Stage, TypeOK
    <2>3. TypeOK' BY <1>12, <2>1, <2>2 DEF Release, TypeOK, Stage
    <2>4. TaskShape' BY <1>12 DEF Release, TypeOK, TaskShape, Carrying, Answering
    <2> QED BY <2>1, <2>2, <2>3, <2>4
<1>13. ASSUME NEW t \in Task, Finish(t) PROVE Base'
    <2>1. SlotAccounting' /\ slots' \in [Kind -> Nat]
        BY <1>13, SlotsKept DEF Finish, End, Holding, Stage, TypeOK, TaskShape, Carrying
    <2>2. InflightAccounting' /\ inflight' \in Nat
        BY <1>13, CountDown DEF Finish, End, Counted, Stage, TypeOK
    <2>3. TypeOK' BY <1>13, <2>1, <2>2, EndTyped DEF Finish, TypeOK, Stage
    <2>4. TaskShape' BY <1>13, EndTyped DEF Finish, TypeOK, TaskShape, Carrying, Answering
    <2> QED BY <2>1, <2>2, <2>3, <2>4
<1>14. ASSUME NEW t \in Task, Signal(t) PROVE Base'
    <2>1. SlotAccounting' /\ slots' \in [Kind -> Nat]
        BY <1>14, SlotsKept DEF Signal, Woken, Holding, Stage, TypeOK, TaskShape, Carrying
    <2>2. InflightAccounting' /\ inflight' \in Nat
        BY <1>14, CountKept DEF Signal, Woken, Counted, Stage, TypeOK
    <2>3. TypeOK' BY <1>14, <2>1, <2>2, WokenTyped DEF Signal, TypeOK, Stage, Phase
    <2>4. TaskShape' BY <1>14 DEF Signal, TypeOK, TaskShape, Carrying, Answering
    <2> QED BY <2>1, <2>2, <2>3, <2>4
<1>15. ASSUME NEW t \in Task, Report(t) PROVE Base'
    <2>1. SlotAccounting' /\ slots' \in [Kind -> Nat]
        BY <1>15, SlotsKept DEF Report, End, Holding, Stage, TypeOK, TaskShape, Carrying
    <2>2. InflightAccounting' /\ inflight' \in Nat
        BY <1>15, CountKept DEF Report, End, Counted, Stage, TypeOK
    <2>3. TypeOK' BY <1>15, <2>1, <2>2, EndTyped DEF Report, TypeOK, Stage
    <2>4. TaskShape' BY <1>15, EndTyped DEF Report, TypeOK, TaskShape, Carrying, Answering
    <2> QED BY <2>1, <2>2, <2>3, <2>4
<1>16. ASSUME NEW t \in Task, ReadState(t) PROVE Base'
    <2>1. SlotAccounting' /\ slots' \in [Kind -> Nat]
        BY <1>16, SlotsKept DEF ReadState, Holding, Stage, TypeOK, TaskShape, Carrying
    <2>2. InflightAccounting' /\ inflight' \in Nat
        BY <1>16, CountKept DEF ReadState, Counted, Stage, TypeOK
    <2>3. TypeOK' BY <1>16, <2>1, <2>2 DEF ReadState, TypeOK, Stage, DrainStates, DrainState
    <2>4. TaskShape' BY <1>16 DEF ReadState, TypeOK, TaskShape, Carrying, Answering
    <2> QED BY <2>1, <2>2, <2>3, <2>4
<1>17. ASSUME NEW t \in Task, SendStatus(t) PROVE Base'
    <2>1. SlotAccounting' /\ slots' \in [Kind -> Nat]
        BY <1>17, SlotsKept DEF SendStatus, End, Holding, Stage, TypeOK, TaskShape, Carrying
    <2>2. InflightAccounting' /\ inflight' \in Nat
        BY <1>17, CountKept DEF SendStatus, End, Counted, Stage, TypeOK
    <2>3. TypeOK'
        BY <1>17, <2>1, <2>2, EndTyped DEF SendStatus, TypeOK, Stage, DrainStates, DrainState
    <2>4. TaskShape' BY <1>17, EndTyped DEF SendStatus, TypeOK, TaskShape, Carrying, Answering
    <2> QED BY <2>1, <2>2, <2>3, <2>4
<1>18. ASSUME UNCHANGED <<stage, kind, slots, inflight>> PROVE SlotAccounting' /\ InflightAccounting'
    BY <1>18 DEF SlotAccounting, InflightAccounting, Holders, Inflight
<1>19. ASSUME ReaderStops PROVE Base' BY <1>19, <1>18 DEF ReaderStops, TypeOK, TaskShape, Phase
<1>20. ASSUME BeginDrain PROVE Base'
    BY <1>20, <1>18 DEF BeginDrain, Woken, TypeOK, TaskShape, Phase
<1>21. ASSUME CancelDrain PROVE Base'
    BY <1>21, <1>18 DEF CancelDrain, Serve, Woken, TypeOK, TaskShape, Phase
<1>22. ASSUME Heartbeat PROVE Base' BY <1>22, <1>18 DEF Heartbeat, TypeOK, TaskShape, Phase
<1>23. ASSUME Close PROVE Base' BY <1>23, <1>18 DEF Close, TypeOK, TaskShape, Phase
<1>24. ASSUME NEW w \in Waiter, WaitForDrained(w) PROVE Base'
    BY <1>24, <1>18 DEF WaitForDrained, TypeOK, TaskShape, Phase
<1>25. ASSUME NEW w \in Waiter, CheckDrained(w) PROVE Base'
    BY <1>25, <1>18 DEF CheckDrained, TypeOK, TaskShape, Phase
<1>26. ASSUME NEW w \in Waiter, LeaveWait(w) PROVE Base'
    BY <1>26, <1>18 DEF LeaveWait, TypeOK, TaskShape, Phase
<1>27. CASE UNCHANGED vars BY <1>27, <1>18 DEF vars, TypeOK, TaskShape
<1> QED
    BY <1>1, <1>2, <1>3, <1>4, <1>5, <1>6, <1>7, <1>8, <1>9, <1>10, <1>11, <1>12, <1>13,
       <1>14, <1>15, <1>16, <1>17, <1>19, <1>20, <1>21, <1>22, <1>23, <1>24, <1>25,
       <1>26, <1>27
    DEF Next, ReaderStep, TeardownStep

\* The pools, the counter, the types and the shape of tasks hold in every state.
LEMMA BaseInvariant == Spec => []Base
BY BaseInit, BaseNext, PTL DEF Spec

\* Every step keeps every variable of the session well-typed: no pool or counter ever
\* goes below zero, and no task loses the request or the command it carries.
THEOREM TypeCorrect == Spec => []TypeOK
BY BaseInvariant, PTL DEF Base

-----------------------------------------------------------------------------
\* The drain contract: what each step does to the admitted inference and to the
\* confirmed waits.

Quiet == {w \in Waiter : waiter[w] = "quiet"}

Stutter == UNCHANGED <<draining, Admitted, Quiet>>

\* DrainStatus says "drained" only while draining is set and no inference is admitted.
LEMMA DrainedQuiet == Base /\ DrainState = "drained" => draining /\ Admitted = {}
<1> SUFFICES ASSUME Base, DrainState = "drained" PROVE draining /\ Admitted = {} OBVIOUS
<1>1. draining /\ inflight = 0 BY DEF DrainState
<1>2. Inflight = {} BY <1>1, SetsFinite, FS_EmptySet DEF Base, InflightAccounting
<1> QED BY <1>1, <1>2 DEF Admitted

\* A task that does not pass the drain gate, nor finish, leaves the admitted set alone.
LEMMA AdmittedKept ==
    ASSUME Base, NEW t \in Task, NEW s \in Stage, stage' = [stage EXCEPT ![t] = s],
           stage[t] \in Counted <=> s \in Counted,
           \/ kind' = kind
           \/ stage[t] \notin Counted /\ \E x : kind' = [kind EXCEPT ![t] = x]
    PROVE  Admitted' = Admitted
BY DEF Base, TypeOK, Admitted, Inflight

\* Waking the waiters tells nobody that the node is drained: each must look again.
LEMMA WokenQuiet == Base /\ waiter' = Woken => Quiet' = Quiet
BY DEF Base, TypeOK, Woken, Quiet

\* A new client is a new node of the contract: accepting, with nothing admitted.
LEMMA ContractInit == Init => Contract!Init
BY DEF Init, Contract!Init, Admitted, Inflight, Counted

\* One step per action: the step of the contract it takes, or that it takes none.
LEMMA ContractNext == Base /\ [Next]_vars => [Contract!Next]_Contract!vars
<1> SUFFICES ASSUME Base, [Next]_vars PROVE Contract!Next \/ Stutter
    BY DEF Contract!vars, Stutter, Quiet
<1> USE DEF Goto, drainVars, reportVars, requestVars
<1>1. ASSUME NEW t \in Task, NEW i \in RequestId, NEW k \in Kind, Receive(t, i, k) PROVE Stutter
    BY <1>1, AdmittedKept DEF Receive, Counted, Stage, Stutter, Quiet
<1>2. ASSUME NEW t \in Task, Gate(t) PROVE Stutter
    BY <1>2, AdmittedKept DEF Gate, End, Counted, Stage, Stutter, Quiet
<1>3. ASSUME NEW t \in Task, CheckVRAM(t) PROVE Stutter
    BY <1>3, AdmittedKept DEF CheckVRAM, End, Counted, Stage, Stutter, Quiet
<1>4. ASSUME NEW t \in Task, Acquire(t) PROVE Stutter
    BY <1>4, AdmittedKept DEF Acquire, End, Counted, Stage, Stutter, Quiet
<1>5. ASSUME NEW t \in Task, Recheck(t) PROVE Stutter
    BY <1>5, AdmittedKept DEF Recheck, End, Counted, Stage, Stutter, Quiet
<1>6. ASSUME NEW t \in Task, Register(t) PROVE Stutter
    BY <1>6, AdmittedKept DEF Register, Counted, Stage, Stutter, Quiet
<1>7. ASSUME NEW t \in Task, HandlerReturns(t) PROVE Stutter
    BY <1>7, AdmittedKept DEF HandlerReturns, Counted, Stage, Stutter, Quiet
<1>8. ASSUME NEW t \in Task, Unregister(t) PROVE Stutter
    BY <1>8, AdmittedKept DEF Unregister, Counted, Stage, Stutter, Quiet
<1>9. ASSUME NEW t \in Task, Release(t) PROVE Stutter
    BY <1>9, AdmittedKept DEF Release, Counted, Stage, Stutter, Quiet
<1>10. ASSUME NEW t \in Task, Report(t) PROVE Stutter
    BY <1>10, AdmittedKept DEF Report, End, Counted, Stage, Stutter, Quiet
<1>11. ASSUME NEW t \in Task, ReadState(t) PROVE Stutter
    BY <1>11, AdmittedKept DEF ReadState, Counted, Stage, Stutter, Quiet
<1>12. ASSUME NEW t \in Task, SendStatus(t) PROVE Stutter
    BY <1>12, AdmittedKept DEF SendStatus, End, Counted, Stage, Stutter, Quiet
<1>13. ASSUME NEW t \in Task, Signal(t) PROVE Stutter
    BY <1>13, AdmittedKept, WokenQuiet DEF Signal, Counted, Stage, Stutter
<1>14. ASSUME NEW t \in Task, Admit(t) PROVE Contract!Next \/ Stutter
    <2>1. CASE kind[t] \in Inference /\ draining
        BY <1>14, <2>1, AdmittedKept DEF Admit, End, Counted, Stage, Stutter, Quiet
    <2>2. CASE kind[t] \in Inference /\ ~draining
        <3>1. t \notin Admitted /\ Admitted' = Admitted \cup {t}
            BY <1>14, <2>2 DEF Admit, Base, TypeOK, Admitted, Inflight, Counted
        <3> QED BY <1>14, <2>2, <3>1 DEF Admit, Contract!Next, Contract!Admit, Quiet
    <2>3. CASE kind[t] \notin Inference
        <3>1. Admitted' = Admitted
            BY <1>14, <2>3 DEF Admit, Base, TypeOK, Admitted, Inflight, Counted
        <3> QED BY <1>14, <2>3, <3>1 DEF Admit, Stutter, Quiet
    <2> QED BY <2>1, <2>2, <2>3
<1>15. ASSUME NEW t \in Task, Finish(t) PROVE Contract!Next \/ Stutter
    <2>1. Admitted' = Admitted \ {t}
        BY <1>15 DEF Finish, End, Base, TypeOK, Admitted, Inflight, Counted
    <2>2. UNCHANGED <<draining, Quiet>> BY <1>15 DEF Finish, Quiet
    <2>3. CASE t \in Admitted BY <2>1, <2>2, <2>3 DEF Contract!Next, Contract!Complete, Quiet
    <2>4. CASE t \notin Admitted BY <2>1, <2>2, <2>4 DEF Stutter
    <2> QED BY <2>3, <2>4
<1>16. ASSUME draining' = TRUE, Admitted' = Admitted, Quiet' = Quiet PROVE Contract!Next
    BY <1>16 DEF Contract!Next, Contract!Drain, Quiet
<1>17. ASSUME Serve, Admitted' = Admitted PROVE Contract!Next \/ Stutter
    <2>1. CASE draining
        <3>1. Quiet' = {} BY <1>17, <2>1 DEF Serve, Woken, Quiet
        <3> QED BY <1>17, <2>1, <3>1 DEF Serve, Contract!Next, Contract!Resume, Quiet
    <2>2. CASE ~draining BY <1>17, <2>2 DEF Serve, Stutter, Quiet, Base, TypeOK
    <2> QED BY <2>1, <2>2
<1>18. ASSUME NEW t \in Task, NEW c \in Command, HandleDrainStart(t, c) PROVE Contract!Next
    <2>1. Admitted' = Admitted
        BY <1>18, AdmittedKept DEF HandleDrainStart, Counted, Stage
    <2>2. Quiet' = Quiet BY <1>18, WokenQuiet DEF HandleDrainStart, Quiet
    <2> QED BY <1>18, <2>1, <2>2, <1>16 DEF HandleDrainStart
<1>19. ASSUME NEW t \in Task, NEW c \in Command, HandleDrainCancel(t, c) PROVE Contract!Next \/ Stutter
    <2>1. Admitted' = Admitted
        BY <1>19, AdmittedKept DEF HandleDrainCancel, Counted, Stage
    <2> QED BY <1>19, <2>1, <1>17 DEF HandleDrainCancel
<1>20. ASSUME BeginDrain PROVE Contract!Next
    <2>1. Admitted' = Admitted BY <1>20 DEF BeginDrain, Admitted, Inflight
    <2>2. Quiet' = Quiet BY <1>20, WokenQuiet DEF BeginDrain, Quiet
    <2> QED BY <1>20, <2>1, <2>2, <1>16 DEF BeginDrain
<1>21. ASSUME CancelDrain PROVE Contract!Next \/ Stutter
    <2>1. Admitted' = Admitted BY <1>21 DEF CancelDrain, Admitted, Inflight
    <2> QED BY <1>21, <2>1, <1>17 DEF CancelDrain
<1>22. ASSUME NEW w \in Waiter, WaitForDrained(w) PROVE Stutter
    BY <1>22 DEF WaitForDrained, Stutter, Quiet, Admitted, Inflight, Base, TypeOK
<1>23. ASSUME NEW w \in Waiter, CheckDrained(w) PROVE Contract!Next \/ Stutter
    <2>1. UNCHANGED <<draining, Admitted>> BY <1>23 DEF CheckDrained, Admitted, Inflight
    <2>2. CASE DrainState = "drained"
        <3>1. Quiet' = Quiet \cup {w} BY <1>23, <2>2 DEF CheckDrained, Quiet, Base, TypeOK
        <3> QED BY <2>1, <2>2, <3>1, DrainedQuiet DEF Contract!Next, Contract!Confirm, Quiet
    <2>3. CASE DrainState # "drained"
        <3>1. Quiet' = Quiet BY <1>23, <2>3 DEF CheckDrained, Quiet, Base, TypeOK
        <3> QED BY <2>1, <3>1 DEF Stutter
    <2> QED BY <2>2, <2>3
<1>24. ASSUME NEW w \in Waiter, LeaveWait(w) PROVE Contract!Next
    <2>1. UNCHANGED <<draining, Admitted>> BY <1>24 DEF LeaveWait, Admitted, Inflight
    <2>2. Quiet' = Quiet \ {w} BY <1>24 DEF LeaveWait, Quiet, Base, TypeOK
    <2> QED BY <2>1, <2>2 DEF Contract!Next, Contract!Leave, Quiet
<1>25. ASSUME ReaderStops PROVE Stutter
    BY <1>25 DEF ReaderStops, Stutter, Admitted, Inflight, Quiet
<1>26. ASSUME Heartbeat PROVE Stutter
    BY <1>26 DEF Heartbeat, Stutter, Admitted, Inflight, Quiet
<1>27. ASSUME Close PROVE Stutter
    BY <1>27 DEF Close, Stutter, Admitted, Inflight, Quiet
<1>28. CASE UNCHANGED vars BY <1>28 DEF vars, Stutter, Admitted, Inflight, Quiet
<1> QED
    BY <1>1, <1>2, <1>3, <1>4, <1>5, <1>6, <1>7, <1>8, <1>9, <1>10, <1>11, <1>12, <1>13,
       <1>14, <1>15, <1>18, <1>19, <1>20, <1>21, <1>22, <1>23, <1>24, <1>25, <1>26,
       <1>27, <1>28
    DEF Next, ReaderStep, TeardownStep

\* The client implements the drain contract: seen through the refinement mapping,
\* every step of admission, teardown, drain control and waiting is a step of the
\* contract or changes nothing of it.
THEOREM ImplementsContract == Spec => DrainContractSpec
BY BaseInvariant, ContractInit, ContractNext, PTL DEF Spec, DrainContractSpec, Contract!Spec

\* While the drain lasts no step admits inference: follows from the contract.
THEOREM AdmissionStops == Spec => NoAdmissionWhileDraining
<1>1. [Contract!Next]_Contract!vars => (draining /\ draining' => Admitted' \subseteq Admitted)
    BY DEF Contract!Next, Contract!Admit, Contract!Complete, Contract!Drain, Contract!Resume,
           Contract!Confirm, Contract!Leave, Contract!vars
<1>2. Base /\ [Next]_vars => [draining /\ draining' => Admitted' \subseteq Admitted]_vars
    BY <1>1, ContractNext
<1> QED BY <1>2, BaseInvariant, PTL DEF Spec, NoAdmissionWhileDraining

\* A node that reports DRAINED runs no inference, and none is past the drain gate.
THEOREM DrainedNodesAreQuiet == Spec => []DrainedMeansQuiet
<1>1. Base => DrainedMeansQuiet BY DrainedQuiet DEF DrainedMeansQuiet
<1> QED BY <1>1, BaseInvariant, PTL

\* Once WaitForDrained returned the node stays drained of inference until someone
\* cancels the drain: an invariant of the contract, inherited by the client.
THEOREM ConfirmedDrainHolds == Spec => []QuietHolds
<1> DEFINE Sound == Quiet # {} => draining /\ Admitted = {}
<1>1. Init => Sound BY DEF Init, Quiet
<1>2. Sound /\ [Contract!Next]_Contract!vars => Sound'
    BY DEF Quiet, Contract!Next, Contract!Admit, Contract!Complete, Contract!Drain,
           Contract!Resume, Contract!Confirm, Contract!Leave, Contract!vars
<1>3. Sound => QuietHolds BY DEF QuietHolds, Quiet
<1>4. Base /\ Sound /\ [Next]_vars => Sound' BY <1>2, ContractNext
<1> QED BY <1>1, <1>3, <1>4, BaseInvariant, PTL DEF Spec

-----------------------------------------------------------------------------
\* Wake-ups: a caller of WaitForDrained parks on the channel only while somebody who
\* closes it is still on the way.

\* A step that signals nothing and touches no waiter leaves every wakeup on its way.
LEMMA WakerKept ==
    ASSUME Base, NoLostWakeup, NEW t \in Task, NEW s \in Stage,
           stage' = [stage EXCEPT ![t] = s], stage[t] # "signal",
           UNCHANGED <<waiter, draining, inflight>>
    PROVE  NoLostWakeup'
BY DEF Base, TypeOK, NoLostWakeup, DrainState

\* After the channel is closed nobody is parked on it, so no wakeup can be missing.
LEMMA NobodyParked == Base /\ waiter' = Woken => NoLostWakeup'
BY DEF Base, TypeOK, Woken, NoLostWakeup

\* One step per action: whoever parks has a waker, and no waker leaves without waking.
LEMMA WakeupNext == Base /\ NoLostWakeup /\ [Next]_vars => NoLostWakeup'
<1> SUFFICES ASSUME Base, NoLostWakeup, [Next]_vars PROVE NoLostWakeup' OBVIOUS
<1> USE DEF Goto, drainVars, reportVars, requestVars
<1>1. ASSUME NEW t \in Task, NEW i \in RequestId, NEW k \in Kind, Receive(t, i, k) PROVE NoLostWakeup'
    BY <1>1, WakerKept DEF Receive, Stage
<1>2. ASSUME NEW t \in Task, Gate(t) PROVE NoLostWakeup'
    BY <1>2, WakerKept DEF Gate, End, Stage
<1>3. ASSUME NEW t \in Task, CheckVRAM(t) PROVE NoLostWakeup'
    BY <1>3, WakerKept DEF CheckVRAM, End, Stage
<1>4. ASSUME NEW t \in Task, Acquire(t) PROVE NoLostWakeup'
    BY <1>4, WakerKept DEF Acquire, End, Stage
<1>5. ASSUME NEW t \in Task, Recheck(t) PROVE NoLostWakeup'
    BY <1>5, WakerKept DEF Recheck, End, Stage
<1>6. ASSUME NEW t \in Task, Register(t) PROVE NoLostWakeup'
    BY <1>6, WakerKept DEF Register, Stage
<1>7. ASSUME NEW t \in Task, HandlerReturns(t) PROVE NoLostWakeup'
    BY <1>7, WakerKept DEF HandlerReturns, Stage
<1>8. ASSUME NEW t \in Task, Unregister(t) PROVE NoLostWakeup'
    BY <1>8, WakerKept DEF Unregister, Stage
<1>9. ASSUME NEW t \in Task, Release(t) PROVE NoLostWakeup'
    BY <1>9, WakerKept DEF Release, Stage
<1>10. ASSUME NEW t \in Task, Report(t) PROVE NoLostWakeup'
    BY <1>10, WakerKept DEF Report, End, Stage
<1>11. ASSUME NEW t \in Task, ReadState(t) PROVE NoLostWakeup'
    BY <1>11, WakerKept DEF ReadState, Stage
<1>12. ASSUME NEW t \in Task, SendStatus(t) PROVE NoLostWakeup'
    BY <1>12, WakerKept DEF SendStatus, End, Stage
<1>13. ASSUME NEW t \in Task, Admit(t) PROVE NoLostWakeup'
    <2>1. CASE inflight' = inflight BY <1>13, <2>1, WakerKept DEF Admit, End, Stage, Base, TypeOK
    <2>2. CASE inflight' = inflight + 1 BY <1>13, <2>2 DEF Admit, Base, TypeOK, NoLostWakeup, DrainState
    <2> QED BY <1>13, <2>1, <2>2 DEF Admit
<1>14. ASSUME NEW t \in Task, Finish(t) PROVE NoLostWakeup'
    <2>1. CASE inflight = 1
        <3>1. stage'[t] = "signal" BY <1>14, <2>1 DEF Finish, Base, TypeOK
        <3> QED BY <3>1 DEF NoLostWakeup
    <2>2. CASE inflight # 1
        <3>1. inflight' # 0 BY <1>14, <2>2 DEF Finish, Base, TypeOK
        <3> QED BY <3>1 DEF NoLostWakeup, DrainState
    <2> QED BY <2>1, <2>2
<1>15. ASSUME NEW t \in Task, Signal(t) PROVE NoLostWakeup'
    BY <1>15, NobodyParked DEF Signal
<1>16. ASSUME NEW t \in Task, NEW c \in Command, HandleDrainStart(t, c) PROVE NoLostWakeup'
    <2>1. CASE draining BY <1>16, <2>1, WakerKept DEF HandleDrainStart, Stage
    <2>2. CASE ~draining BY <1>16, <2>2, NobodyParked DEF HandleDrainStart
    <2> QED BY <2>1, <2>2
<1>17. ASSUME NEW t \in Task, NEW c \in Command, HandleDrainCancel(t, c) PROVE NoLostWakeup'
    BY <1>17 DEF HandleDrainCancel, Serve, NoLostWakeup, DrainState
<1>18. ASSUME BeginDrain PROVE NoLostWakeup'
    <2>1. CASE draining BY <1>18, <2>1 DEF BeginDrain, NoLostWakeup, DrainState
    <2>2. CASE ~draining BY <1>18, <2>2, NobodyParked DEF BeginDrain
    <2> QED BY <2>1, <2>2
<1>19. ASSUME CancelDrain PROVE NoLostWakeup'
    BY <1>19 DEF CancelDrain, Serve, NoLostWakeup, DrainState
<1>20. ASSUME NEW w \in Waiter, WaitForDrained(w) PROVE NoLostWakeup'
    BY <1>20 DEF WaitForDrained, Base, TypeOK, NoLostWakeup, DrainState
<1>21. ASSUME NEW w \in Waiter, CheckDrained(w) PROVE NoLostWakeup'
    BY <1>21 DEF CheckDrained, Base, TypeOK, NoLostWakeup, DrainState
<1>22. ASSUME NEW w \in Waiter, LeaveWait(w) PROVE NoLostWakeup'
    BY <1>22 DEF LeaveWait, Base, TypeOK, NoLostWakeup, DrainState
<1>23. ASSUME ReaderStops PROVE NoLostWakeup'
    BY <1>23 DEF ReaderStops, NoLostWakeup, DrainState
<1>24. ASSUME Heartbeat PROVE NoLostWakeup'
    BY <1>24 DEF Heartbeat, NoLostWakeup, DrainState
<1>25. ASSUME Close PROVE NoLostWakeup'
    BY <1>25 DEF Close, NoLostWakeup, DrainState
<1>26. CASE UNCHANGED vars BY <1>26 DEF vars, NoLostWakeup, DrainState
<1> QED
    BY <1>1, <1>2, <1>3, <1>4, <1>5, <1>6, <1>7, <1>8, <1>9, <1>10, <1>11, <1>12, <1>13,
       <1>14, <1>15, <1>16, <1>17, <1>18, <1>19, <1>20, <1>21, <1>22, <1>23, <1>24,
       <1>25, <1>26
    DEF Next, ReaderStep, TeardownStep

\* No caller of WaitForDrained sleeps through the moment the node becomes drained, for
\* any number of callers and of requests finishing at the same time.
THEOREM WakeupsNeverLost == Spec => []NoLostWakeup
<1>1. Init => NoLostWakeup BY DEF Init, NoLostWakeup
<1> QED BY <1>1, WakeupNext, BaseInvariant, PTL DEF Spec

-----------------------------------------------------------------------------
\* The registry of active requests.

Registered == {"run", "unregister"}

\* A step of a task that is registered neither before nor after it, and that touches
\* nobody else's id, leaves the registry right.
LEMMA RegistryKept ==
    ASSUME Base, ActiveRegistry, NEW t \in Task, NEW s \in Stage,
           stage' = [stage EXCEPT ![t] = s], stage[t] \notin Registered, s \notin Registered,
           id' = id \/ \E x : id' = [id EXCEPT ![t] = x],
           activeRequests' = activeRequests
    PROVE  ActiveRegistry'
BY DEF Base, TypeOK, TaskShape, Carrying, ActiveRegistry, Registered

\* One step per action: register and unregister touch the id of their own task only.
LEMMA RegistryNext == Base /\ ActiveRegistry /\ [Next]_vars => ActiveRegistry'
<1> SUFFICES ASSUME Base, ActiveRegistry, [Next]_vars PROVE ActiveRegistry' OBVIOUS
<1> USE DEF Goto, drainVars, reportVars, requestVars
<1>1. ASSUME NEW t \in Task, NEW i \in RequestId, NEW k \in Kind, Receive(t, i, k) PROVE ActiveRegistry'
    BY <1>1, RegistryKept DEF Receive, Registered, Stage
<1>2. ASSUME NEW t \in Task, NEW c \in Command, HandleDrainStart(t, c) PROVE ActiveRegistry'
    BY <1>2, RegistryKept DEF HandleDrainStart, Registered, Stage
<1>3. ASSUME NEW t \in Task, NEW c \in Command, HandleDrainCancel(t, c) PROVE ActiveRegistry'
    BY <1>3, RegistryKept DEF HandleDrainCancel, Registered, Stage
<1>4. ASSUME NEW t \in Task, Gate(t) PROVE ActiveRegistry'
    BY <1>4, RegistryKept DEF Gate, End, Registered, Stage
<1>5. ASSUME NEW t \in Task, CheckVRAM(t) PROVE ActiveRegistry'
    BY <1>5, RegistryKept DEF CheckVRAM, End, Registered, Stage
<1>6. ASSUME NEW t \in Task, Acquire(t) PROVE ActiveRegistry'
    BY <1>6, RegistryKept DEF Acquire, End, Registered, Stage
<1>7. ASSUME NEW t \in Task, Recheck(t) PROVE ActiveRegistry'
    BY <1>7, RegistryKept DEF Recheck, End, Registered, Stage
<1>8. ASSUME NEW t \in Task, Admit(t) PROVE ActiveRegistry'
    BY <1>8, RegistryKept DEF Admit, End, Registered, Stage
<1>9. ASSUME NEW t \in Task, Release(t) PROVE ActiveRegistry'
    BY <1>9, RegistryKept DEF Release, Registered, Stage
<1>10. ASSUME NEW t \in Task, Finish(t) PROVE ActiveRegistry'
    BY <1>10, RegistryKept DEF Finish, End, Registered, Stage
<1>11. ASSUME NEW t \in Task, Signal(t) PROVE ActiveRegistry'
    BY <1>11, RegistryKept DEF Signal, Registered, Stage
<1>12. ASSUME NEW t \in Task, Report(t) PROVE ActiveRegistry'
    BY <1>12, RegistryKept DEF Report, End, Registered, Stage
<1>13. ASSUME NEW t \in Task, ReadState(t) PROVE ActiveRegistry'
    BY <1>13, RegistryKept DEF ReadState, Registered, Stage
<1>14. ASSUME NEW t \in Task, SendStatus(t) PROVE ActiveRegistry'
    BY <1>14, RegistryKept DEF SendStatus, End, Registered, Stage
<1>15. ASSUME NEW t \in Task, Register(t) PROVE ActiveRegistry'
    <2>1. CASE activeRequests[id[t]] # NoTask
        BY <1>15, <2>1, RegistryKept DEF Register, Registered, Stage
    <2>2. CASE activeRequests[id[t]] = NoTask
        BY <1>15, <2>2, AdmissionAssumption
        DEF AdmissionAssumption, Register, Base, TypeOK, TaskShape, Carrying, ActiveRegistry
    <2> QED BY <2>1, <2>2
<1>16. ASSUME NEW t \in Task, HandlerReturns(t) PROVE ActiveRegistry'
    BY <1>16 DEF HandlerReturns, Base, TypeOK, ActiveRegistry
<1>17. ASSUME NEW t \in Task, Unregister(t) PROVE ActiveRegistry'
    BY <1>17, AdmissionAssumption
    DEF AdmissionAssumption, Unregister, Base, TypeOK, TaskShape, Carrying, ActiveRegistry
<1>18. ASSUME UNCHANGED <<stage, id, activeRequests>> PROVE ActiveRegistry'
    BY <1>18 DEF ActiveRegistry
<1> QED
    BY <1>1, <1>2, <1>3, <1>4, <1>5, <1>6, <1>7, <1>8, <1>9, <1>10, <1>11, <1>12, <1>13,
       <1>14, <1>15, <1>16, <1>17, <1>18
    DEF Next, ReaderStep, TeardownStep, ReaderStops, BeginDrain, CancelDrain, Heartbeat, Close,
        WaitForDrained, CheckDrained, LeaveWait, vars

\* activeRequests is exactly the running handlers, each under its own request id.
THEOREM RegistryExact == Spec => []ActiveRegistry
<1>1. Init => ActiveRegistry BY DEF Init, ActiveRegistry
<1> QED BY <1>1, RegistryNext, BaseInvariant, PTL DEF Spec

\* For any number of frames in flight, any pool limits and any runtime kinds, the pools
\* hold exactly one token per task between acquiring and releasing, the counter counts
\* exactly the requests between admitInflight and finishInflightRequest, and the registry
\* names exactly the running handlers.
THEOREM AccountingExact == Spec => []Accounting
BY BaseInvariant, RegistryExact, PTL DEF Base, Accounting
-----------------------------------------------------------------------------
\* The reader.  What it carries is at a step of its own: a handler goroutine has taken over
\* what runs, and it has let go of what has ended.
Carries == \A t \in Task : reader = t => stage[t] \notin {"free", "run", "unregister"}

\* A step of task t, which the reader carries only if it is not over for it.
LEMMA CarriesKept ==
    ASSUME TypeOK, Carries, NEW t \in Task, NEW s \in Stage,
           stage' = [stage EXCEPT ![t] = s],
           \/ reader' = NoTask
           \/ reader' \in {reader, t} /\ s \notin {"free", "run", "unregister"}
           \/ reader' = reader /\ reader # t
    PROVE  Carries'
BY AdmissionAssumption DEF TypeOK, Carries

\* The end of a task, wherever it was.
LEMMA CarriesEnd == ASSUME TypeOK, Carries, NEW t \in Task, End(t) PROVE Carries'
<1>1. "free" \in Stage BY DEF Stage
<1> QED BY <1>1, CarriesKept DEF End, Goto

\* One step per action.
LEMMA CarriesNext == TypeOK /\ Carries /\ [Next]_vars => Carries'
<1> SUFFICES ASSUME TypeOK, Carries, [Next]_vars PROVE Carries' OBVIOUS
<1>1. ASSUME UNCHANGED <<stage, reader>> PROVE Carries' BY <1>1 DEF Carries
<1>2. ASSUME NEW t \in Task, NEW i \in RequestId, NEW k \in Kind, Receive(t, i, k) PROVE Carries'
    BY <1>2, CarriesKept DEF Receive, Goto, Stage
<1>3. ASSUME NEW t \in Task, NEW c \in Command, HandleDrainStart(t, c) \/ HandleDrainCancel(t, c)
      PROVE  Carries'
    BY <1>3, CarriesKept DEF HandleDrainStart, HandleDrainCancel, Goto, Stage
<1>4. ASSUME NEW t \in Task, Gate(t) \/ CheckVRAM(t) PROVE Carries'
    <2>1. CASE End(t) BY <2>1, CarriesEnd
    <2>2. CASE ~End(t) BY <1>4, <2>2, CarriesKept DEF Gate, CheckVRAM, Goto, Stage
    <2> QED BY <2>1, <2>2
<1>5. ASSUME NEW t \in Task, Acquire(t) \/ Recheck(t) \/ Admit(t) PROVE Carries'
    <2>1. CASE End(t) BY <2>1, CarriesEnd
    <2>2. CASE ~End(t) BY <1>5, <2>2, CarriesKept DEF Acquire, Recheck, Admit, Goto, Stage
    <2> QED BY <2>1, <2>2
<1>6. ASSUME NEW t \in Task, Register(t) PROVE Carries'
    BY <1>6, CarriesKept DEF Register, Goto, Stage
<1>7. ASSUME NEW t \in Task, HandlerReturns(t) \/ Unregister(t) \/ Release(t) \/ Signal(t) \/ ReadState(t)
      PROVE  Carries'
    <2>1. CASE HandlerReturns(t)
        BY <2>1, CarriesKept DEF HandlerReturns, Goto, Stage, requestVars, Carries
    <2>2. CASE Unregister(t) BY <2>2, CarriesKept DEF Unregister, Goto, Stage
    <2>3. CASE Release(t) BY <2>3, CarriesKept DEF Release, Goto, Stage
    <2>4. CASE Signal(t) BY <2>4, CarriesKept DEF Signal, Goto, Stage
    <2>5. CASE ReadState(t) BY <2>5, CarriesKept DEF ReadState, Goto, Stage
    <2> QED BY <1>7, <2>1, <2>2, <2>3, <2>4, <2>5
<1>8. ASSUME NEW t \in Task, Finish(t) \/ Report(t) \/ SendStatus(t) PROVE Carries'
    <2>1. CASE End(t) BY <2>1, CarriesEnd
    <2>2. CASE ~End(t) BY <1>8, <2>2, CarriesKept DEF Finish, Report, SendStatus, Goto, Stage
    <2> QED BY <2>1, <2>2
<1>9. CASE ReaderStops \/ BeginDrain \/ CancelDrain \/ Heartbeat \/ Close
    BY <1>1, <1>9 DEF ReaderStops, BeginDrain, CancelDrain, Heartbeat, Close
<1>10. ASSUME NEW w \in Waiter, WaitForDrained(w) \/ CheckDrained(w) \/ LeaveWait(w) PROVE Carries'
    BY <1>1, <1>10 DEF WaitForDrained, CheckDrained, LeaveWait
<1>11. CASE UNCHANGED vars BY <1>1, <1>11 DEF vars
<1> QED
    BY <1>2, <1>3, <1>4, <1>5, <1>6, <1>7, <1>8, <1>9, <1>10, <1>11
    DEF Next, ReaderStep, TeardownStep

\* The guards of the reader's steps.  Only the select of startHandler looks at more than
\* where the frame is: one of its arms, a free slot, the closing session or a full pool,
\* must be ready.
CanStep(t) ==
    /\ stage[t] \in {"gate", "vram", "acquire", "recheck", "admit", "register", "release",
                     "finish", "signal", "report", "state", "send"}
    /\ stage[t] = "acquire" =>
          LET k == kind[t] IN
             /\ k \in Kind
             /\ slots[k] < Limit[k] \/ closing \/ (slots[k] = Limit[k] /\ ~closing)

\* The reader is never parked on a pool, a handler or the drain, for any number of frames
\* in flight and any capacity: the guard of its next step holds.  ReaderNeverParks says it
\* with ENABLED of the actions themselves.
THEOREM ReaderIsReady == Spec => [](\A t \in Task : reader = t => CanStep(t))
<1> DEFINE Ready == \A t \in Task : reader = t => CanStep(t)
<1>1. Init => Carries BY AdmissionAssumption DEF Init, Carries
<1>2. Base => TypeOK BY DEF Base
<1>3. Base /\ Carries => Ready
    <2> SUFFICES ASSUME Base, Carries, NEW t \in Task, reader = t PROVE CanStep(t) OBVIOUS
    <2>1. stage[t] \in Stage /\ stage[t] \notin {"free", "run", "unregister"}
        BY DEF Base, TypeOK, Carries
    <2>2. ASSUME stage[t] = "acquire"
          PROVE  /\ kind[t] \in Kind
                 /\ slots[kind[t]] < Limit[kind[t]] \/ slots[kind[t]] = Limit[kind[t]]
        <3>1. kind[t] \in Kind BY <2>2 DEF Base, TaskShape, Carrying
        <3>2. slots[kind[t]] \in Nat /\ Limit[kind[t]] \in Nat
            BY <3>1, AdmissionAssumption DEF Base, TypeOK
        <3>3. slots[kind[t]] <= Limit[kind[t]] BY <3>1 DEF Base, SlotAccounting
        <3> QED BY <3>1, <3>2, <3>3
    <2> QED BY <2>1, <2>2 DEF CanStep, Stage
<1> HIDE DEF Ready
<1>4. Spec => []Ready BY <1>1, <1>2, <1>3, CarriesNext, BaseInvariant, PTL DEF Spec
<1> QED BY <1>4 DEF Ready
=============================================================================
