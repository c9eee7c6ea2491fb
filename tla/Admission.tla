----------------------------- MODULE Admission -----------------------------
(***************************************************************************)
(* Request admission and drain of one gateway session (internal/client).   *)
(*                                                                         *)
(* A Task is one inbound frame on its way through the client: the reader   *)
(* goroutine carries it through startHandler, one program point at a time, *)
(* and an admitted request continues in a handler goroutine of its own.    *)
(* Everything that other goroutines can interleave with is a step: the     *)
(* admission pools (buffered channels), the in-flight counter, the drain   *)
(* flag with its wake-up channel, the registry of active requests, and the *)
(* drain status frames, whose state is read some time before it is queued. *)
(* Drain controllers (the Control Room, the updater) run off the reader.   *)
(***************************************************************************)
EXTENDS Integers, FiniteSets

CONSTANTS
    Task,       \* goroutines' work items; bounds the frames processed at once
    RequestId,  \* frame ids the gateway uses for requests
    Inference,  \* runtime kinds with an admission pool of their own
    Control,    \* {"control"}, or {} for a gateway that sends no control requests
    Command,    \* frame ids of gateway drain commands, each used once
    Waiter,     \* callers of WaitForDrained
    Limit,      \* admission pool capacity of each kind
    NoTask, NoRequest, NoCommand

Kind == Inference \cup Control

ASSUME AdmissionAssumption ==
    /\ IsFiniteSet(Task)
    /\ Limit \in [Kind -> Nat \ {0}]
    /\ Inference \cap Control = {}
    /\ NoTask \notin Task
    /\ NoRequest \notin RequestId
    /\ NoCommand \notin Command

VARIABLES
    stage,          \* where each task is in startHandler, the handler or its teardown
    id, kind,       \* the request id and runtime kind a task carries
    reader,         \* the task in the reader's hands, NoTask when it is in ReadMessage
    readerLive,     \* FALSE once readerLoop has returned
    slots,          \* tokens in each pool channel
    inflight,       \* the inflight counter
    activeRequests, \* request id -> the task registered for it
    lowVRAM,        \* kinds whose VRAM reserve the last heartbeat found missing
    draining, drainCommandID,
    waiter,         \* phase of each WaitForDrained caller
    note,           \* the drain status a task is about to queue
    told,           \* what became of the last status frame for each drain command
    closing         \* done is closed or the session context is cancelled

drainVars   == <<draining, drainCommandID, waiter>>
reportVars  == <<note, told>>
requestVars == <<id, kind, activeRequests>>
vars == <<stage, id, kind, reader, readerLive, slots, inflight, activeRequests,
          lowVRAM, draining, drainCommandID, waiter, note, told, closing>>

Stage == {"free", "gate", "vram", "acquire", "recheck", "admit", "register",
          "run", "unregister", "release", "finish", "signal", "report",
          "state", "send"}

DrainStates == {"serving", "draining", "drained"}
Phase == {"idle", "checking", "parked", "quiet"}
NoNote == [command |-> NoCommand, state |-> "serving"]

\* Tasks that own a token of their pool, and tasks the counter has counted.
Holding == {"recheck", "admit", "register", "run", "unregister", "release"}
Counted == {"register", "run", "unregister", "release", "finish"}

Holders(k) == {t \in Task : stage[t] \in Holding /\ kind[t] = k}
Inflight   == {t \in Task : stage[t] \in Counted}

\* Inference tasks that passed the drain gate and have not yet completed.
Admitted   == {t \in Inflight : kind[t] \in Inference}

DrainState ==
    IF ~draining THEN "serving" ELSE IF inflight = 0 THEN "drained" ELSE "draining"

-----------------------------------------------------------------------------
\* Moving a task along, and ending it: a task that ends in the reader's hands
\* sends the reader back to ReadMessage.
Goto(t, s) == stage' = [stage EXCEPT ![t] = s]

End(t) ==
    /\ Goto(t, "free")
    /\ id'   = [id EXCEPT ![t] = NoRequest]
    /\ kind' = [kind EXCEPT ![t] = NoRequest]
    /\ note' = [note EXCEPT ![t] = NoNote]
    /\ reader' = IF reader = t THEN NoTask ELSE reader

\* signalDrainChangedLocked closes the channel every parked caller selects on.
Woken == [w \in Waiter |-> IF waiter[w] = "parked" THEN "checking" ELSE waiter[w]]

-----------------------------------------------------------------------------
\* The reader: readerLoop, dispatch, startHandler, handleDrain.

Receive(t, i, k) ==
    /\ readerLive /\ reader = NoTask /\ stage[t] = "free"
    /\ Goto(t, "gate")
    /\ id'   = [id EXCEPT ![t] = i]
    /\ kind' = [kind EXCEPT ![t] = k]
    /\ reader' = t
    /\ UNCHANGED <<readerLive, slots, inflight, activeRequests, lowVRAM, drainVars,
                   reportVars, closing>>

Gate(t) ==
    /\ stage[t] = "gate"
    /\ IF kind[t] \in Inference /\ draining
          THEN End(t)
          ELSE Goto(t, "vram") /\ UNCHANGED <<id, kind, note, reader>>
    /\ UNCHANGED <<readerLive, slots, inflight, activeRequests, lowVRAM, drainVars,
                   told, closing>>

CheckVRAM(t) ==
    /\ stage[t] = "vram"
    /\ IF kind[t] \in lowVRAM
          THEN End(t)
          ELSE Goto(t, "acquire") /\ UNCHANGED <<id, kind, note, reader>>
    /\ UNCHANGED <<readerLive, slots, inflight, activeRequests, lowVRAM, drainVars,
                   told, closing>>

\* Deviation: the reader waits for a slot instead of answering node_busy.
AcquireWaits(t) ==
    /\ stage[t] = "acquire"
    /\ slots[kind[t]] < Limit[kind[t]]
    /\ slots' = [slots EXCEPT ![kind[t]] = @ + 1]
    /\ Goto(t, "recheck")
    /\ UNCHANGED <<id, kind, note, reader, readerLive, inflight, activeRequests, lowVRAM,
                   drainVars, told, closing>>

\* select: a free slot, the closing session, and only when neither is ready the
\* default arm that answers node_busy.
Acquire(t) ==
    /\ stage[t] = "acquire"
    /\ \/ /\ slots[kind[t]] < Limit[kind[t]]
          /\ slots' = [slots EXCEPT ![kind[t]] = @ + 1]
          /\ Goto(t, "recheck")
          /\ UNCHANGED <<id, kind, note, reader, readerLive>>
       \/ closing /\ End(t) /\ readerLive' = FALSE /\ UNCHANGED slots
       \/ /\ slots[kind[t]] = Limit[kind[t]] /\ ~closing
          /\ End(t) /\ UNCHANGED <<slots, readerLive>>
    /\ UNCHANGED <<inflight, activeRequests, lowVRAM, drainVars, told, closing>>

Recheck(t) ==
    /\ stage[t] = "recheck"
    /\ IF closing
          THEN /\ slots' = [slots EXCEPT ![kind[t]] = @ - 1]
               /\ End(t) /\ readerLive' = FALSE
          ELSE Goto(t, "admit") /\ UNCHANGED <<id, kind, note, reader, readerLive, slots>>
    /\ UNCHANGED <<inflight, activeRequests, lowVRAM, drainVars, told, closing>>

\* Deviations: no second look at the drain flag; control requests not counted.
AdmitUngated(t) ==
    /\ stage[t] = "admit"
    /\ inflight' = inflight + 1
    /\ Goto(t, "register")
    /\ UNCHANGED <<id, kind, note, reader, slots, readerLive, activeRequests, lowVRAM,
                   drainVars, told, closing>>

\* admitInflight: the final drain gate and the increment under one hold of drainMu.
Admit(t) ==
    /\ stage[t] = "admit"
    /\ IF kind[t] \in Inference /\ draining
          THEN /\ slots' = [slots EXCEPT ![kind[t]] = @ - 1]
               /\ End(t) /\ UNCHANGED inflight
          ELSE /\ inflight' = inflight + 1
               /\ Goto(t, "register") /\ UNCHANGED <<id, kind, note, reader, slots>>
    /\ UNCHANGED <<readerLive, activeRequests, lowVRAM, drainVars, told, closing>>

\* Deviations: no duplicate check; a duplicate that gives its slot, or its count,
\* back twice.
RegisterOverwrites(t) ==
    /\ stage[t] = "register"
    /\ activeRequests' = [activeRequests EXCEPT ![id[t]] = t]
    /\ Goto(t, "run") /\ reader' = NoTask
    /\ UNCHANGED <<id, kind, readerLive, slots, inflight, lowVRAM, drainVars,
                   reportVars, closing>>

RegisterFinishesTwice(t) ==
    /\ stage[t] = "register"
    /\ IF activeRequests[id[t]] # NoTask
          THEN /\ inflight' = inflight - 1
               /\ Goto(t, "release") /\ UNCHANGED <<activeRequests, reader>>
          ELSE /\ activeRequests' = [activeRequests EXCEPT ![id[t]] = t]
               /\ Goto(t, "run") /\ reader' = NoTask /\ UNCHANGED inflight
    /\ UNCHANGED <<id, kind, readerLive, slots, lowVRAM, drainVars, reportVars, closing>>

\* A duplicate id gives back slot and count on the reader; otherwise the handler
\* goroutine takes the task over and the reader goes back to ReadMessage.
Register(t) ==
    /\ stage[t] = "register"
    /\ IF activeRequests[id[t]] # NoTask
          THEN Goto(t, "release") /\ UNCHANGED <<activeRequests, reader>>
          ELSE /\ activeRequests' = [activeRequests EXCEPT ![id[t]] = t]
               /\ Goto(t, "run") /\ reader' = NoTask
    /\ UNCHANGED <<id, kind, readerLive, slots, inflight, lowVRAM, drainVars,
                   reportVars, closing>>

HandleDrainStart(t, c) ==
    /\ readerLive /\ reader = NoTask /\ stage[t] = "free" /\ told[c] = "none"
    /\ drainCommandID' = c
    /\ draining' = TRUE
    /\ waiter' = IF draining THEN waiter ELSE Woken
    /\ reader' = t
    /\ Goto(t, "state")
    /\ note' = [note EXCEPT ![t].command = c]
    /\ told' = [told EXCEPT ![c] = "unanswered"]
    /\ UNCHANGED <<requestVars, readerLive, slots, inflight, lowVRAM, closing>>

\* CancelDrain: the phase "quiet" stands for a confirmation nobody has cancelled.
Serve ==
    /\ draining' = FALSE
    /\ drainCommandID' = IF draining THEN NoCommand ELSE drainCommandID
    /\ waiter' = IF draining
                    THEN [w \in Waiter |-> IF waiter[w] = "quiet" THEN "idle" ELSE Woken[w]]
                    ELSE waiter

HandleDrainCancel(t, c) ==
    /\ readerLive /\ reader = NoTask /\ stage[t] = "free" /\ told[c] = "none"
    /\ Serve
    /\ reader' = t
    /\ Goto(t, "state")
    /\ note' = [note EXCEPT ![t].command = c]
    /\ told' = [told EXCEPT ![c] = "unanswered"]
    /\ UNCHANGED <<requestVars, readerLive, slots, inflight, lowVRAM, closing>>

ReaderStops ==
    /\ closing /\ readerLive /\ reader = NoTask
    /\ readerLive' = FALSE
    /\ UNCHANGED <<stage, requestVars, reader, slots, inflight, lowVRAM, drainVars,
                   reportVars, closing>>

-----------------------------------------------------------------------------
\* The handler goroutine and its deferred teardown, in the order of the defers.
\* The reader runs Release and what follows for a duplicate request id.

HandlerReturns(t) ==
    /\ stage[t] = "run"
    /\ Goto(t, "unregister")
    /\ UNCHANGED <<requestVars, reader, readerLive, slots, inflight, lowVRAM, drainVars,
                   reportVars, closing>>

Unregister(t) ==
    /\ stage[t] = "unregister"
    /\ activeRequests' = [activeRequests EXCEPT ![id[t]] = IF @ = t THEN NoTask ELSE @]
    /\ Goto(t, "release")
    /\ UNCHANGED <<id, kind, reader, readerLive, slots, inflight, lowVRAM, drainVars,
                   reportVars, closing>>

Release(t) ==
    /\ stage[t] = "release"
    /\ slots' = [slots EXCEPT ![kind[t]] = @ - 1]
    /\ Goto(t, "finish")
    /\ UNCHANGED <<requestVars, reader, readerLive, inflight, lowVRAM, drainVars,
                   reportVars, closing>>

\* Deviation: the last handler reports the drain without waking the waiters.
FinishSilently(t) ==
    /\ stage[t] = "finish"
    /\ inflight' = inflight - 1
    /\ IF inflight = 1
          THEN Goto(t, "report") /\ UNCHANGED <<id, kind, note, reader>>
          ELSE End(t)
    /\ UNCHANGED <<readerLive, slots, activeRequests, lowVRAM, drainVars, told, closing>>

\* finishInflightRequest
Finish(t) ==
    /\ stage[t] = "finish"
    /\ inflight' = inflight - 1
    /\ IF inflight = 1
          THEN Goto(t, "signal") /\ UNCHANGED <<id, kind, note, reader>>
          ELSE End(t)
    /\ UNCHANGED <<readerLive, slots, activeRequests, lowVRAM, drainVars, told, closing>>

\* Deviation: the channel is replaced without being closed.
SignalReplaces(t) ==
    /\ stage[t] = "signal"
    /\ Goto(t, "report")
    /\ UNCHANGED <<requestVars, reader, readerLive, slots, inflight, lowVRAM, drainVars,
                   reportVars, closing>>

Signal(t) ==
    /\ stage[t] = "signal"
    /\ waiter' = Woken
    /\ Goto(t, "report")
    /\ UNCHANGED <<requestVars, reader, readerLive, slots, inflight, lowVRAM, draining,
                   drainCommandID, reportVars, closing>>

\* Deviation: the pending command is forgotten before it is taken.
ReportForgets(t) ==
    /\ stage[t] = "report"
    /\ drainCommandID' = IF DrainState = "drained" THEN NoCommand ELSE drainCommandID
    /\ IF drainCommandID' = NoCommand
          THEN End(t)
          ELSE /\ Goto(t, "state")
               /\ note' = [note EXCEPT ![t].command = drainCommandID]
               /\ UNCHANGED <<id, kind, reader>>
    /\ UNCHANGED <<readerLive, slots, inflight, activeRequests, lowVRAM, draining, waiter,
                   told, closing>>

\* reportDrainStatus: the pending command is taken, and forgotten once drained.
Report(t) ==
    /\ stage[t] = "report"
    /\ drainCommandID' = IF DrainState = "drained" THEN NoCommand ELSE drainCommandID
    /\ IF drainCommandID = NoCommand
          THEN End(t)
          ELSE /\ Goto(t, "state")
               /\ note' = [note EXCEPT ![t].command = drainCommandID]
               /\ UNCHANGED <<id, kind, reader>>
    /\ UNCHANGED <<readerLive, slots, inflight, activeRequests, lowVRAM, draining, waiter,
                   told, closing>>

\* trySendDrainStatus: DrainState() is read first, the frame is queued later or,
\* when the queue is full or the session closes, dropped.
ReadState(t) ==
    /\ stage[t] = "state"
    /\ note' = [note EXCEPT ![t].state = DrainState]
    /\ Goto(t, "send")
    /\ UNCHANGED <<requestVars, reader, readerLive, slots, inflight, lowVRAM, drainVars,
                   told, closing>>

SendStatus(t) ==
    /\ stage[t] = "send"
    /\ \/ told' = [told EXCEPT ![note[t].command] = note[t].state]
       \/ told' = [told EXCEPT ![note[t].command] = "dropped"]
    /\ End(t)
    /\ UNCHANGED <<readerLive, slots, inflight, activeRequests, lowVRAM, drainVars, closing>>

-----------------------------------------------------------------------------
\* Drain controllers, the heartbeat's VRAM snapshot, and the end of the session.

BeginDrain ==
    /\ draining' = TRUE
    /\ waiter' = IF draining THEN waiter ELSE Woken
    /\ UNCHANGED <<stage, requestVars, reader, readerLive, slots, inflight, lowVRAM,
                   drainCommandID, reportVars, closing>>

CancelDrain ==
    /\ Serve
    /\ UNCHANGED <<stage, requestVars, reader, readerLive, slots, inflight, lowVRAM,
                   reportVars, closing>>

WaitForDrained(w) ==
    /\ waiter[w] = "idle"
    /\ waiter' = [waiter EXCEPT ![w] = "checking"]
    /\ UNCHANGED <<stage, requestVars, reader, readerLive, slots, inflight, lowVRAM,
                   draining, drainCommandID, reportVars, closing>>

CheckDrained(w) ==
    /\ waiter[w] = "checking"
    /\ waiter' = [waiter EXCEPT ![w] = IF DrainState = "drained" THEN "quiet" ELSE "parked"]
    /\ UNCHANGED <<stage, requestVars, reader, readerLive, slots, inflight, lowVRAM,
                   draining, drainCommandID, reportVars, closing>>

\* The caller's context ends the wait, or the caller is done with the maintenance.
LeaveWait(w) ==
    /\ waiter[w] \in {"parked", "quiet"}
    /\ waiter' = [waiter EXCEPT ![w] = "idle"]
    /\ UNCHANGED <<stage, requestVars, reader, readerLive, slots, inflight, lowVRAM,
                   draining, drainCommandID, reportVars, closing>>

Heartbeat ==
    /\ lowVRAM' \in SUBSET Inference
    /\ UNCHANGED <<stage, requestVars, reader, readerLive, slots, inflight, drainVars,
                   reportVars, closing>>

Close ==
    /\ closing' = TRUE
    /\ UNCHANGED <<stage, requestVars, reader, readerLive, slots, inflight, lowVRAM,
                   drainVars, reportVars>>

-----------------------------------------------------------------------------
Init ==
    /\ stage = [t \in Task |-> "free"]
    /\ id    = [t \in Task |-> NoRequest]
    /\ kind  = [t \in Task |-> NoRequest]
    /\ reader = NoTask
    /\ readerLive = TRUE
    /\ slots = [k \in Kind |-> 0]
    /\ inflight = 0
    /\ activeRequests = [i \in RequestId |-> NoTask]
    /\ lowVRAM = {}
    /\ draining = FALSE
    /\ drainCommandID = NoCommand
    /\ waiter = [w \in Waiter |-> "idle"]
    /\ note = [t \in Task |-> NoNote]
    /\ told = [c \in Command |-> "none"]
    /\ closing = FALSE

ReaderStep(t) ==
    \/ Gate(t) \/ CheckVRAM(t) \/ Acquire(t) \/ Recheck(t) \/ Admit(t) \/ Register(t)

TeardownStep(t) ==
    \/ Unregister(t) \/ Release(t) \/ Finish(t) \/ Signal(t) \/ Report(t)
    \/ ReadState(t) \/ SendStatus(t)

Next ==
    \/ \E t \in Task :
          \/ \E i \in RequestId, k \in Kind : Receive(t, i, k)
          \/ \E c \in Command : HandleDrainStart(t, c) \/ HandleDrainCancel(t, c)
          \/ ReaderStep(t)
          \/ HandlerReturns(t)
          \/ TeardownStep(t)
    \/ ReaderStops
    \/ BeginDrain \/ CancelDrain \/ Heartbeat \/ Close
    \/ \E w \in Waiter : WaitForDrained(w) \/ CheckDrained(w) \/ LeaveWait(w)

Spec == Init /\ [][Next]_vars

\* The Go runtime schedules every goroutine; a handler returns because the
\* forwarder bounds each request by a timeout and by the session context.
ReaderFairness  == \A t \in Task : WF_vars(ReaderStep(t) \/ (reader = t /\ TeardownStep(t)))
HandlerFairness == \A t \in Task : WF_vars(HandlerReturns(t) \/ TeardownStep(t))
WaiterFairness  == \A w \in Waiter : WF_vars(CheckDrained(w))

FairSpec == Spec /\ ReaderFairness /\ HandlerFairness /\ WaiterFairness

-----------------------------------------------------------------------------
TypeOK ==
    /\ stage \in [Task -> Stage]
    /\ id \in [Task -> RequestId \cup {NoRequest}]
    /\ kind \in [Task -> Kind \cup {NoRequest}]
    /\ reader \in Task \cup {NoTask}
    /\ readerLive \in BOOLEAN
    /\ slots \in [Kind -> Nat]
    /\ inflight \in Nat
    /\ activeRequests \in [RequestId -> Task \cup {NoTask}]
    /\ lowVRAM \in SUBSET Inference
    /\ draining \in BOOLEAN
    /\ drainCommandID \in Command \cup {NoCommand}
    /\ waiter \in [Waiter -> Phase]
    /\ note \in [Task -> [command : Command \cup {NoCommand}, state : DrainStates]]
    /\ told \in [Command -> DrainStates \cup {"none", "unanswered", "dropped"}]
    /\ closing \in BOOLEAN

\* Every token in a pool channel belongs to exactly one live task of that kind,
\* and no pool runs more tasks than its limit: rejected, duplicate and shut-down
\* admissions of startHandler give their slot back, once.
SlotAccounting ==
    \A k \in Kind : slots[k] = Cardinality(Holders(k)) /\ slots[k] <= Limit[k]

\* The inflight counter is the number of tasks between admitInflight and
\* finishInflightRequest, whichever goroutine they are in.
InflightAccounting == inflight = Cardinality(Inflight)

\* activeRequests is exactly the running handlers: no two of them share a request
\* id, so a gateway cancel always reaches the handler it names.
ActiveRegistry ==
    /\ \A t \in Task : stage[t] \in {"run", "unregister"} => activeRequests[id[t]] = t
    /\ \A i \in RequestId : activeRequests[i] # NoTask =>
          stage[activeRequests[i]] \in {"run", "unregister"} /\ id[activeRequests[i]] = i

\* Slots, counter and registry are exact together, on every path through startHandler:
\* none of them can be repaired later by another request.
Accounting == TypeOK /\ SlotAccounting /\ InflightAccounting /\ ActiveRegistry

\* A node that reports DRAINED runs no inference, and none is about to start: the
\* admission in flight between the drain gate and the handler is counted too.
DrainedMeansQuiet == DrainState = "drained" => Admitted = {}

\* After WaitForDrained returned, and until someone cancels the drain, the node
\* stays drained of inference: the updater replaces the process on this.
QuietHolds == \A w \in Waiter : waiter[w] = "quiet" => draining /\ Admitted = {}

\* A caller parked on the drainChanged channel never sleeps through the moment the
\* node becomes drained: somebody who closes the channel is still on the way.
NoLostWakeup ==
    \A w \in Waiter : waiter[w] = "parked" /\ DrainState = "drained" =>
        \E t \in Task : stage[t] = "signal"

\* While the drain lasts no step admits inference, wherever the request was in
\* startHandler when the drain began.
NoAdmissionWhileDraining ==
    [][draining /\ draining' => Admitted' \subseteq Admitted]_vars

\* The client implements the drain contract.
Contract == INSTANCE DrainContract WITH
    Work <- Task, running <- Admitted, confirmed <- {w \in Waiter : waiter[w] = "quiet"}

DrainContractSpec == Contract!Spec

\* dispatch never parks the reader: whatever the handlers, the pools and the drain are
\* doing, the frame in its hands can take its next step, so that reads keep extending
\* the WebSocket deadline.
ReaderNeverParks == \A t \in Task : reader = t => ENABLED (ReaderStep(t) \/ TeardownStep(t))

\* A wait under a drain nobody cancels returns once the handlers have returned.
DrainWaitReturns ==
    \A w \in Waiter : (waiter[w] \in {"checking", "parked"}) ~>
                          (waiter[w] \in {"quiet", "idle"} \/ ~draining)

\* A gateway drain command is eventually answered with the terminal drained state,
\* unless the drain is cancelled or superseded, the session closes, or the send queue
\* was full when a status frame was due.
DrainCommandAnswered ==
    \A c \in Command : (drainCommandID = c) ~>
        \/ told[c] \in {"drained", "dropped"}
        \/ ~draining \/ closing
        \/ drainCommandID \notin {c, NoCommand}
=============================================================================
