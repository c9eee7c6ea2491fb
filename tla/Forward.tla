------------------------------ MODULE Forward ------------------------------
(***************************************************************************)
(* Inference on one node: the forwarder that serves the gateway's requests *)
(* (internal/forward), the playground and the benchmark of the Control     *)
(* Room (internal/console), which call the same runtimes, and the record   *)
(* of requests in the Control Room's store.                                *)
(*                                                                         *)
(* A job is one request and the goroutine that carries it.  The forwarder  *)
(* outlives sessions: its GPU gate is shared by the jobs of a session that *)
(* was lost and of the one that replaced it.                               *)
(***************************************************************************)
EXTENDS Integers, FiniteSets

CONSTANTS
    Buyer,     \* requests of the gateway
    Playground,\* requests of the Control Room's playground
    Benchmark, \* quick benchmarks of the Control Room
    Route,     \* each job's route: "gpu", "cpu" (speech) or "closed" (refused by Resolve)
    Crews      \* bound: the sets of jobs that may arrive in one behaviour

Job == Buyer \cup Playground \cup Benchmark

ASSUME ForwardAssumption ==
    /\ IsFiniteSet(Job)
    /\ Buyer \cap Playground = {} /\ (Buyer \cup Playground) \cap Benchmark = {}
    /\ Route \in [Job -> {"gpu", "cpu", "closed"}]
    /\ Crews \subseteq SUBSET Job

VARIABLES
    at,         \* where each job is
    ctx,        \* its context: live, over by its own timeout, or cancelled from outside
    gpu,        \* tokens in the gate channel
    whole,      \* every byte read of the body so far was handed to the session
    fault,      \* the job has failed
    active,     \* ids in the store's active map
    completed, failed,   \* the store's counters
    answer      \* the frame that closed the request towards the gateway

progress == <<whole, fault>>
record   == <<active, completed, failed>>
vars == <<at, ctx, gpu, progress, record, answer>>

\* A job has a request open at its runtime: nothing of the body handed on yet
\* (opened, first), or some of it (streaming, sending), or only the head to hand on.
Serving == {"opened", "first", "streaming", "sending", "head"}

\* The gateway's GPU requests own a token from acquiring the gate to their release.
Gated(j) == j \in Buyer /\ Route[j] = "gpu"
Holders  == {j \in Buyer : Gated(j) /\ at[j] \in Serving \cup {"calling", "closing"}}

Goto(j, p) == at' = [at EXCEPT ![j] = p]
Fail(j)    == fault' = [fault EXCEPT ![j] = TRUE]
Start(j)   == active' = active \cup {j} /\ UNCHANGED <<completed, failed>>

\* Store.Finish: an id that is no longer active is left alone.
Finish(j) ==
    IF j \in active
       THEN /\ active' = active \ {j}
            /\ completed' = completed + 1
            /\ failed' = IF fault[j] THEN failed + 1 ELSE failed
       ELSE UNCHANGED record

-----------------------------------------------------------------------------
\* Router.Resolve: a known path whose runtime is configured.
Resolves(j) == Route[j] # "closed"

\* Forwarder.Handle: resolve the route, tell the observer, take the gate.
Handle(j) ==
    /\ j \in Buyer /\ at[j] = "new"
    /\ IF Resolves(j)
          THEN Goto(j, IF Gated(j) THEN "queued" ELSE "calling") /\ Start(j) /\ UNCHANGED fault
          ELSE Goto(j, "report") /\ Fail(j) /\ UNCHANGED record
    /\ UNCHANGED <<ctx, gpu, whole, answer>>

AcquireGate(j) ==
    /\ at[j] = "queued" /\ gpu = 0
    /\ gpu' = gpu + 1
    /\ Goto(j, "calling")
    /\ UNCHANGED <<ctx, progress, record, answer>>

\* gpu_queue_timeout: the select's other arm, ready as soon as the context is over.
LeaveQueue(j) ==
    /\ at[j] = "queued" /\ ctx[j] # "live"
    /\ Goto(j, "record") /\ Fail(j)
    /\ UNCHANGED <<ctx, gpu, whole, record, answer>>

\* target.Do: a context that is over sends nothing.
Call(j) ==
    /\ at[j] = "calling" /\ ctx[j] = "live"
    /\ Goto(j, "opened")
    /\ UNCHANGED <<ctx, gpu, progress, record, answer>>

CallFails(j) ==
    /\ at[j] = "calling"
    /\ Goto(j, "closing") /\ Fail(j)
    /\ UNCHANGED <<ctx, gpu, whole, record, answer>>

\* One turn of the read loop: bytes, the end of the body, or a read error.  Bytes that
\* are read while the context ends were read before it.
Read(j) ==
    /\ j \in Buyer /\ ctx[j] = "live"
    /\ \/ at[j] = "opened"    /\ Goto(j, "first")
       \/ at[j] = "streaming" /\ Goto(j, "sending")
    /\ UNCHANGED <<ctx, gpu, progress, record, answer>>

ReadEnds(j) ==
    /\ j \in Buyer
    /\ \/ at[j] = "streaming" /\ Goto(j, "closing")
       \/ at[j] = "opened"    /\ Goto(j, "head")
    /\ UNCHANGED <<ctx, gpu, progress, record, answer>>

ReadFails(j) ==
    /\ at[j] \in {"opened", "streaming"}
    /\ Goto(j, "closing") /\ Fail(j)
    /\ UNCHANGED <<ctx, gpu, whole, record, answer>>

\* Deviation: a chunk the session did not take is forgotten.
SendIgnoresError(j) ==
    /\ at[j] \in {"first", "sending"}
    /\ \/ UNCHANGED whole
       \/ whole' = [whole EXCEPT ![j] = FALSE]
    /\ Goto(j, "streaming")
    /\ UNCHANGED <<ctx, gpu, fault, record, answer>>

\* A send fails when the session closes or its queue stays full.
Send(j) ==
    /\ at[j] \in {"first", "sending"}
    /\ \/ Goto(j, "streaming") /\ UNCHANGED progress
       \/ /\ Goto(j, "closing") /\ Fail(j)
          /\ whole' = [whole EXCEPT ![j] = FALSE]
    /\ UNCHANGED <<ctx, gpu, record, answer>>

\* The chunk without bytes that carries the head of an empty body; its error is dropped.
SendHead(j) ==
    /\ at[j] = "head"
    /\ Goto(j, "closing")
    /\ UNCHANGED <<ctx, gpu, progress, record, answer>>

-----------------------------------------------------------------------------
\* The deferred calls, last first: close the body, leave the gate, then the observer.

\* Deviation: only a request that did not fail gives the gate back.
CloseKeepsGate(j) ==
    /\ at[j] = "closing"
    /\ gpu' = IF Gated(j) /\ ~fault[j] THEN gpu - 1 ELSE gpu
    /\ Goto(j, IF j \in Benchmark THEN "done" ELSE "record")
    /\ UNCHANGED <<ctx, progress, record, answer>>

Close(j) ==
    /\ at[j] = "closing"
    /\ gpu' = IF Gated(j) THEN gpu - 1 ELSE gpu
    /\ Goto(j, IF j \in Benchmark THEN "done" ELSE "record")
    /\ UNCHANGED <<ctx, progress, record, answer>>

\* The Observer's Finished; the playground's finish, whose deferred call comes again.
Record(j) ==
    /\ at[j] \in {"record", "again"}
    /\ Finish(j)
    /\ Goto(j, IF j \in Buyer THEN "report" ELSE IF at[j] = "record" THEN "again" ELSE "done")
    /\ UNCHANGED <<ctx, gpu, progress, answer>>

\* Deviation: the caller closes the request whatever became of its context.
ReportAnyway(j) ==
    /\ at[j] = "report"
    /\ Goto(j, "answering")
    /\ UNCHANGED <<ctx, gpu, progress, record, answer>>

\* handleRequestBody looks at the request's context once: nothing is said of a request
\* that was cancelled by then.
Report(j) ==
    /\ at[j] = "report"
    /\ Goto(j, IF ctx[j] = "cancelled" THEN "done" ELSE "answering")
    /\ UNCHANGED <<ctx, gpu, progress, record, answer>>

\* Then it sends, for up to five seconds and whatever becomes of that context; either
\* frame is lost when the session closes or the send queue stays full.
Answer(j) ==
    /\ at[j] = "answering"
    /\ \/ answer' = [answer EXCEPT ![j] = IF fault[j] THEN "error" ELSE "done"]
       \/ UNCHANGED answer
    /\ Goto(j, "done")
    /\ UNCHANGED <<ctx, gpu, progress, record>>

-----------------------------------------------------------------------------
\* The Control Room's own calls: straight to the runtime.

\* playgroundChat: refused, by validation or for memory, or recorded.
Play(j) ==
    /\ j \in Playground /\ at[j] = "new"
    /\ \/ Goto(j, "calling") /\ Start(j)
       \/ Goto(j, "done") /\ UNCHANGED record
    /\ UNCHANGED <<ctx, gpu, progress, answer>>

\* A chat streamed to the browser, whose writes are not looked at: one line, the end, or
\* (ReadFails) a line that does not parse.
PlayStream(j) ==
    /\ j \in Playground /\ at[j] \in {"opened", "streaming"} /\ ctx[j] = "live"
    /\ Goto(j, "streaming") \/ Goto(j, "closing")
    /\ UNCHANGED <<ctx, gpu, progress, record, answer>>

\* An image chat or a media request answered as a whole: a bad status, a body that does not
\* decode, is empty or too large is a failure.
PlayWhole(j) ==
    /\ j \in Playground /\ at[j] = "opened"
    /\ Goto(j, "closing")
    /\ UNCHANGED fault \/ Fail(j)
    /\ UNCHANGED <<ctx, gpu, whole, record, answer>>

\* benchmarkModel asks the store first, and is not recorded itself.
Bench(j) ==
    /\ j \in Benchmark /\ at[j] = "new"
    /\ Goto(j, IF active = {} THEN "calling" ELSE "done")
    /\ UNCHANGED <<ctx, gpu, progress, record, answer>>

BenchResult(j) ==
    /\ j \in Benchmark /\ at[j] = "opened"
    /\ Goto(j, "closing")
    /\ UNCHANGED <<ctx, gpu, progress, record, answer>>

-----------------------------------------------------------------------------
\* Deviation: only the forwarder bounds its calls.
ExpireBuyers(j) ==
    /\ j \in Buyer /\ at[j] \in Serving \cup {"queued", "calling"} /\ ctx[j] = "live"
    /\ ctx' = [ctx EXCEPT ![j] = "timeout"]
    /\ UNCHANGED <<at, gpu, progress, record, answer>>

\* requestTimeout runs from before the gate; the Control Room has five minutes as well.
Expire(j) ==
    /\ at[j] \in Serving \cup {"queued", "calling"} /\ ctx[j] = "live"
    /\ ctx' = [ctx EXCEPT ![j] = "timeout"]
    /\ UNCHANGED <<at, gpu, progress, record, answer>>

\* The gateway cancels the request or its session closes; the browser goes away.
Cancel(j) ==
    /\ at[j] \notin {"absent", "new", "done"}
    /\ ctx[j] = "live" \/ (j \in Buyer /\ ctx[j] = "timeout")
    /\ ctx' = [ctx EXCEPT ![j] = "cancelled"]
    /\ UNCHANGED <<at, gpu, progress, record, answer>>

Init ==
    /\ \E crew \in Crews : at = [j \in Job |-> IF j \in crew THEN "new" ELSE "absent"]
    /\ ctx = [j \in Job |-> "live"]
    /\ gpu = 0
    /\ whole = [j \in Job |-> TRUE]
    /\ fault = [j \in Job |-> FALSE]
    /\ active = {} /\ completed = 0 /\ failed = 0
    /\ answer = [j \in Job |-> "none"]

\* What the agent does by itself; a runtime need not answer, but a context that is over
\* ends the call or the read.
AgentStep(j) ==
    \/ AcquireGate(j) \/ LeaveQueue(j) \/ Send(j) \/ SendHead(j)
    \/ Close(j) \/ Record(j) \/ Report(j) \/ Answer(j)
    \/ ctx[j] # "live" /\ (CallFails(j) \/ ReadFails(j))

RuntimeStep(j) ==
    \/ Call(j) \/ CallFails(j) \/ Read(j) \/ ReadEnds(j) \/ ReadFails(j)
    \/ PlayStream(j) \/ PlayWhole(j) \/ BenchResult(j)

Next ==
    \E j \in Job :
        \/ Handle(j) \/ Play(j) \/ Bench(j)
        \/ RuntimeStep(j) \/ AgentStep(j)
        \/ Expire(j) \/ Cancel(j)

Spec == Init /\ [][Next]_vars

\* The Go runtime schedules the goroutines, sendFrame returns within five seconds and
\* timers fire.  Nothing makes a runtime answer.
FairSpec ==
    /\ Spec
    /\ \A j \in Job : WF_vars(AgentStep(j)) /\ WF_vars(Expire(j))

-----------------------------------------------------------------------------
Places == Serving \cup
    {"absent", "new", "queued", "calling", "closing", "record", "again", "report",
     "answering", "done"}

TypeOK ==
    /\ at \in [Job -> Places]
    /\ ctx \in [Job -> {"live", "timeout", "cancelled"}]
    /\ gpu \in Nat
    /\ whole \in [Job -> BOOLEAN] /\ fault \in [Job -> BOOLEAN]
    /\ active \in SUBSET (Buyer \cup Playground)
    /\ completed \in Nat /\ failed \in Nat
    /\ answer \in [Job -> {"none", "done", "error"}]

\* The gate is held by exactly the gateway's GPU requests between acquiring and leaving
\* it, one at most: every return of Handle gives it back, those of a session that was
\* lost in the meantime included, and a timeout in the queue gives back nothing.
GateHeldOnce == TypeOK /\ gpu = Cardinality(Holders) /\ gpu <= 1

\* A request is reported done, and so billed, only if every byte that was read of the
\* response was handed to its session.
DoneMeansWhole == \A j \in Job : answer[j] = "done" => ~fault[j] /\ whole[j]

\* A request that is cancelled before handleRequestBody looks at its context gets no
\* closing frame, ever: the gateway has given its id up.  (One that is cancelled between
\* that look and the send gets one, which the gateway has to ignore.)
CancelledStaysSilent ==
    \A j \in Buyer : [](ctx[j] = "cancelled" /\ at[j] \notin {"answering", "done"}
                          => [](answer[j] = "none"))

\* The store's view of the node: the active requests are those between their start and
\* their finish, each is counted once, and failures are among them.
Recorded == {j \in Buyer \cup Playground : at[j] \in Serving \cup
                {"queued", "calling", "closing", "record"}}

RecordExact ==
    /\ active = Recorded
    /\ failed <= completed
    /\ completed + Cardinality(active)
           <= Cardinality({j \in Buyer \cup Playground : at[j] \notin {"absent", "new"}})

\* Whatever the runtime and the gateway do, a request ends; one that hangs keeps the
\* gate no longer than its timeout, so that those behind it are served or refused.
RequestEnds == []<>(\A j \in Job : at[j] \in {"absent", "new", "done"})

\* Not so: the forwarder's gate is described as node-wide, independent pipelines would never
\* share the GPU whoever asked for them; the playground and the benchmark do not take it.
GateIsNodeWide == Cardinality({j \in Job : Route[j] = "gpu" /\ at[j] \in Serving}) <= 1
=============================================================================
