--------------------------- MODULE Forward_proofs ---------------------------
(***************************************************************************)
(* Proofs about Forward, for any finite sets of requests and any routes,   *)
(* and about UsageScanner, for responses of any length.                    *)
(***************************************************************************)
EXTENDS Forward, UsageScanner, FiniteSetTheorems, WellFoundedInduction, TLAPS

(***************************************************************************)
(* Requests.  Served adds to the type invariant that the gate's token and  *)
(* its holder come and go together, that a chunk which was not handed on   *)
(* made the request fail, and that the store follows each request's place. *)
(***************************************************************************)

\* Places at which a request behind the gate owns its token.
Inside == Serving \cup {"calling", "closing"}

\* Places at which a recorded request is active.
Open == Serving \cup {"queued", "calling", "closing", "record"}

\* The gate is free, or it has its one token and its one holder.
Gate == \/ gpu = 0 /\ Holders = {}
        \/ gpu = 1 /\ \E h \in Job : Holders = {h}

\* What was lost is remembered as a fault, and a closing frame is the last thing done.
Remembered ==
    \A j \in Job : /\ ~whole[j] => fault[j]
                   /\ answer[j] = "done" => ~fault[j]
                   /\ answer[j] # "none" => at[j] = "done"

\* Only requests that need the gate queue for it.
Queued == \A j \in Job : at[j] = "queued" => Gated(j)

Served == TypeOK /\ Gate /\ Queued /\ Remembered

-----------------------------------------------------------------------------
\* Every request starts outside, with nothing recorded.
LEMMA ServedInit == Init => Served
<1> SUFFICES ASSUME Init PROVE Served OBVIOUS
<1>1. TypeOK BY DEF Init, TypeOK, Places
<1>2. Gate
    <2>1. \A j \in Job : at[j] \in {"absent", "new"} BY DEF Init
    <2>2. Holders = {} BY <2>1 DEF Holders, Serving, Job
    <2> QED BY <2>2 DEF Init, Gate
<1>3. Remembered BY DEF Init, Remembered
<1>4. Queued BY DEF Init, Queued
<1> QED BY <1>1, <1>2, <1>3, <1>4 DEF Served

-----------------------------------------------------------------------------
\* The places of a request that moves, and of one that does not.
LEMMA TypeMoves ==
    ASSUME TypeOK, NEW j \in Job, NEW p \in Places, Goto(j, p)
    PROVE  at' \in [Job -> Places]
BY DEF TypeOK, Goto

LEMMA TypeFails ==
    ASSUME TypeOK, NEW j \in Job, Fail(j)
    PROVE  fault' \in [Job -> BOOLEAN]
BY DEF TypeOK, Fail

LEMMA TypeRecord ==
    ASSUME TypeOK, NEW j \in Job, Finish(j)
    PROVE  active' \in SUBSET (Buyer \cup Playground) /\ completed' \in Nat /\ failed' \in Nat
BY DEF TypeOK, Finish, record

\* One step per action, or per group of actions that change the same variables.
LEMMA TypeNext == TypeOK /\ Gate /\ [Next]_vars => TypeOK'
<1> SUFFICES ASSUME TypeOK, Gate, [Next]_vars PROVE TypeOK' OBVIOUS
<1>1. CASE UNCHANGED vars BY <1>1 DEF TypeOK, vars, progress, record
<1>2. ASSUME NEW j \in Job, Handle(j) \/ Play(j) \/ Bench(j) PROVE TypeOK'
    <2>1. at' \in [Job -> Places] BY <1>2, TypeMoves DEF Handle, Play, Bench, Places, Serving
    <2>2. fault' \in [Job -> BOOLEAN] BY <1>2, TypeFails DEF Handle, Play, Bench, TypeOK, progress
    <2>3. active' \in SUBSET (Buyer \cup Playground) /\ UNCHANGED <<completed, failed>>
        BY <1>2 DEF Handle, Play, Bench, TypeOK, record, Start
    <2>4. UNCHANGED <<ctx, gpu, whole, answer>> BY <1>2 DEF Handle, Play, Bench, progress
    <2> QED BY <2>1, <2>2, <2>3, <2>4 DEF TypeOK
<1>3. ASSUME NEW j \in Job, RuntimeStep(j) \/ LeaveQueue(j) \/ SendHead(j) PROVE TypeOK'
    <2> USE <1>3 DEF RuntimeStep, LeaveQueue, SendHead, Call, CallFails, Read, ReadEnds, ReadFails,
                     PlayStream, PlayWhole, BenchResult
    <2>1. at' \in [Job -> Places] BY TypeMoves DEF Places, Serving
    <2>2. fault' \in [Job -> BOOLEAN] BY TypeFails DEF TypeOK, progress
    <2>3. UNCHANGED <<ctx, gpu, whole, record, answer>> BY DEF progress
    <2> QED BY <2>1, <2>2, <2>3 DEF TypeOK, record
<1>4. ASSUME NEW j \in Job, AcquireGate(j) \/ Close(j) PROVE TypeOK'
    <2>1. at' \in [Job -> Places] BY <1>4, TypeMoves DEF AcquireGate, Close, Places, Serving
    <2>2. UNCHANGED <<ctx, progress, record, answer>> BY <1>4 DEF AcquireGate, Close
    <2>3. gpu' \in Nat
        <3>1. CASE AcquireGate(j) BY <3>1 DEF AcquireGate
        <3>2. CASE Close(j) /\ ~Gated(j) BY <3>2 DEF Close, TypeOK
        <3>3. CASE Close(j) /\ Gated(j)
            <4>1. j \in Holders BY <3>3 DEF Close, Holders, Gated
            <4> QED BY <4>1, <3>3 DEF Close, Gate
        <3> QED BY <1>4, <3>1, <3>2, <3>3
    <2> QED BY <2>1, <2>2, <2>3 DEF TypeOK, record, progress
<1>5. ASSUME NEW j \in Job, Send(j) PROVE TypeOK'
    <2>1. at' \in [Job -> Places] BY <1>5, TypeMoves DEF Send, Places, Serving
    <2>2. fault' \in [Job -> BOOLEAN] BY <1>5, TypeFails DEF Send, TypeOK, progress
    <2>3. whole' \in [Job -> BOOLEAN] BY <1>5 DEF Send, TypeOK, progress
    <2>4. UNCHANGED <<ctx, gpu, record, answer>> BY <1>5 DEF Send
    <2> QED BY <2>1, <2>2, <2>3, <2>4 DEF TypeOK, record
<1>6. ASSUME NEW j \in Job, Record(j) PROVE TypeOK'
    <2>1. at' \in [Job -> Places] BY <1>6, TypeMoves DEF Record, Places
    <2>2. UNCHANGED <<ctx, gpu, progress, answer>> BY <1>6 DEF Record
    <2> QED BY <1>6, <2>1, <2>2, TypeRecord DEF TypeOK, progress, Record
<1>7. ASSUME NEW j \in Job, Report(j) \/ Answer(j) PROVE TypeOK'
    <2>1. at' \in [Job -> Places] BY <1>7, TypeMoves DEF Report, Answer, Places
    <2>2. answer' \in [Job -> {"none", "done", "error"}] BY <1>7 DEF Report, Answer, TypeOK
    <2>3. UNCHANGED <<ctx, gpu, progress, record>> BY <1>7 DEF Report, Answer
    <2> QED BY <2>1, <2>2, <2>3 DEF TypeOK, record, progress
<1>8. ASSUME NEW j \in Job, Expire(j) \/ Cancel(j) PROVE TypeOK'
    BY <1>8 DEF Expire, Cancel, TypeOK, progress, record
<1> QED BY <1>1, <1>2, <1>3, <1>4, <1>5, <1>6, <1>7, <1>8 DEF Next, AgentStep, RuntimeStep

-----------------------------------------------------------------------------
\* A request that moves within the gate's hold, or outside it, leaves the gate alone.
LEMMA GateElsewhere ==
    ASSUME TypeOK, Gate, gpu' = gpu, NEW j \in Job, NEW p, Goto(j, p),
           at[j] \in Inside <=> p \in Inside
    PROVE  Gate'
<1>1. \A i \in Buyer : at'[i] \in Inside <=> at[i] \in Inside BY DEF Goto, TypeOK, Job
<1>2. Holders' = Holders BY <1>1 DEF Holders, Inside, Gated
<1> QED BY <1>2 DEF Gate

\* So does one that never takes it.
LEMMA GateUnasked ==
    ASSUME TypeOK, Gate, gpu' = gpu, NEW j \in Job, NEW p, Goto(j, p), ~Gated(j)
    PROVE  Gate'
<1>1. \A i \in Buyer : Gated(i) => at'[i] = at[i] BY DEF Goto, TypeOK, Job
<1>2. Holders' = Holders BY <1>1 DEF Holders, Gated
<1> QED BY <1>2 DEF Gate

\* One step per action, or per group of actions that treat the gate alike.
LEMMA GateNext == TypeOK /\ Gate /\ Queued /\ [Next]_vars => Gate'
<1> SUFFICES ASSUME TypeOK, Gate, Queued, [Next]_vars PROVE Gate' OBVIOUS
<1>1. ASSUME UNCHANGED <<at, gpu>> PROVE Gate' BY <1>1 DEF Gate, Holders, Gated
<1>2. ASSUME NEW j \in Job, Handle(j) PROVE Gate'
    <2>1. CASE Gated(j) \/ ~Resolves(j)
        BY <1>2, <2>1, GateElsewhere DEF Handle, Inside, Serving, Gated, Resolves
    <2>2. CASE ~Gated(j) BY <1>2, <2>2, GateUnasked DEF Handle
    <2> QED BY <2>1, <2>2
<1>3. ASSUME NEW j \in Job, Play(j) \/ Bench(j) \/ PlayStream(j) \/ PlayWhole(j) \/ BenchResult(j)
      PROVE Gate'
    <2>1. ~Gated(j)
        BY <1>3, ForwardAssumption DEF Gated, Play, Bench, PlayStream, PlayWhole, BenchResult
    <2>2. gpu' = gpu /\ \E p \in Places : Goto(j, p)
        BY <1>3 DEF Play, Bench, PlayStream, PlayWhole, BenchResult, Places, Serving
    <2> QED BY <2>1, <2>2, GateUnasked
<1>4. ASSUME NEW j \in Job, Call(j) \/ CallFails(j) \/ Read(j) \/ ReadEnds(j) \/ ReadFails(j) PROVE Gate'
    BY <1>4, GateElsewhere DEF Call, CallFails, Read, ReadEnds, ReadFails, Inside, Serving
<1>5. ASSUME NEW j \in Job, LeaveQueue(j) \/ Send(j) \/ SendHead(j) PROVE Gate'
    BY <1>5, GateElsewhere DEF LeaveQueue, Send, SendHead, Inside, Serving
<1>6. ASSUME NEW j \in Job, Record(j) \/ Report(j) \/ Answer(j) PROVE Gate'
    BY <1>6, GateElsewhere DEF Record, Report, Answer, Inside, Serving
<1>7. ASSUME NEW j \in Job, AcquireGate(j) PROVE Gate'
    <2>1. gpu = 0 /\ gpu' = 1 /\ Holders = {} BY <1>7 DEF AcquireGate, Gate
    <2>2. j \in Buyer /\ Gated(j) BY <1>7 DEF AcquireGate, Queued, Gated
    <2>3. Holders' = {j}
        BY <2>1, <2>2, <1>7 DEF AcquireGate, Holders, Gated, Goto, TypeOK, Job
    <2> QED BY <2>1, <2>3 DEF Gate
<1>8. ASSUME NEW j \in Job, Close(j) PROVE Gate'
    <2>1. CASE ~Gated(j) BY <1>8, <2>1, GateUnasked DEF Close
    <2>2. CASE Gated(j)
        <3>1. j \in Holders BY <1>8, <2>2 DEF Close, Holders, Gated
        <3>2. gpu = 1 /\ Holders = {j} BY <3>1 DEF Gate
        <3>3. gpu' = 0 BY <1>8, <2>2, <3>2 DEF Close
        <3>4. \A i \in Buyer : i # j => at'[i] = at[i] BY <1>8 DEF Close, Goto, TypeOK, Job
        <3>5. at'[j] \in {"done", "record"} BY <1>8 DEF Close, Goto, TypeOK
        <3>6. Holders' = {} BY <3>2, <3>4, <3>5 DEF Holders, Gated, Serving
        <3> QED BY <3>3, <3>6 DEF Gate
    <2> QED BY <2>1, <2>2
<1>9. ASSUME NEW j \in Job, Expire(j) \/ Cancel(j) PROVE Gate'
    BY <1>9, <1>1 DEF Expire, Cancel
<1> QED BY <1>1, <1>2, <1>3, <1>4, <1>5, <1>6, <1>7, <1>8, <1>9 DEF Next, AgentStep, RuntimeStep, vars

-----------------------------------------------------------------------------
\* Handle alone puts a request into the queue.
LEMMA QueuedNext == TypeOK /\ Queued /\ [Next]_vars => Queued'
<1> SUFFICES ASSUME TypeOK, Queued, [Next]_vars PROVE Queued' OBVIOUS
<1>1. ASSUME UNCHANGED at PROVE Queued' BY <1>1 DEF Queued, Gated
<1>2. ASSUME NEW j \in Job, NEW p, Goto(j, p), p = "queued" => Gated(j) PROVE Queued'
    BY <1>2 DEF Queued, Gated, Goto, TypeOK
<1>3. ASSUME NEW j \in Job, Handle(j) \/ Play(j) \/ Bench(j) PROVE Queued'
    BY <1>3, <1>2 DEF Handle, Play, Bench
<1>4. ASSUME NEW j \in Job, RuntimeStep(j) PROVE Queued'
    BY <1>4, <1>2 DEF RuntimeStep, Call, CallFails, Read, ReadEnds, ReadFails, PlayStream,
                      PlayWhole, BenchResult
<1>5. ASSUME NEW j \in Job, AgentStep(j) PROVE Queued'
    BY <1>5, <1>4, <1>2 DEF AgentStep, RuntimeStep, AcquireGate, LeaveQueue, Send, SendHead, Close, Record,
       Report, Answer
<1>6. ASSUME NEW j \in Job, Expire(j) \/ Cancel(j) PROVE Queued'
    BY <1>6, <1>1 DEF Expire, Cancel
<1> QED BY <1>1, <1>3, <1>4, <1>5, <1>6 DEF Next, vars

-----------------------------------------------------------------------------
\* A request that is not done moves on: it may fail, and it lost no chunk without failing.
LEMMA RememberedElsewhere ==
    ASSUME TypeOK, Remembered, NEW j \in Job, NEW p, Goto(j, p), at[j] # "done",
           UNCHANGED fault \/ Fail(j), UNCHANGED <<whole, answer>>
    PROVE  Remembered'
<1>1. answer[j] = "none" BY DEF Remembered
<1>2. \A i \in Job : i # j => fault'[i] = fault[i] /\ at'[i] = at[i] BY DEF Goto, Fail, TypeOK
<1>3. fault[j] => fault'[j] BY DEF Fail, TypeOK
<1> QED BY <1>1, <1>2, <1>3 DEF Remembered

\* One step per action, or per group of actions that change the same variables.
LEMMA RememberedNext == TypeOK /\ Remembered /\ [Next]_vars => Remembered'
<1> SUFFICES ASSUME TypeOK, Remembered, [Next]_vars PROVE Remembered' OBVIOUS
<1>1. ASSUME UNCHANGED <<at, whole, fault, answer>> PROVE Remembered' BY <1>1 DEF Remembered
<1>2. ASSUME NEW j \in Job, Handle(j) \/ Play(j) \/ Bench(j) PROVE Remembered'
    BY <1>2, RememberedElsewhere DEF Handle, Play, Bench, progress
<1>3. ASSUME NEW j \in Job, RuntimeStep(j) PROVE Remembered'
    BY <1>3, RememberedElsewhere DEF RuntimeStep, Call, CallFails, Read, ReadEnds, ReadFails,
       PlayStream, PlayWhole, BenchResult, progress
<1>4. ASSUME NEW j \in Job,
             \/ AcquireGate(j) \/ LeaveQueue(j) \/ SendHead(j)
             \/ Close(j) \/ Record(j) \/ Report(j)
      PROVE Remembered'
    BY <1>4, RememberedElsewhere DEF AcquireGate, LeaveQueue, SendHead, Close, Record, Report, progress
<1>5. ASSUME NEW j \in Job, Send(j) PROVE Remembered'
    <2>1. CASE UNCHANGED progress
        BY <1>5, <2>1, RememberedElsewhere DEF Send, progress
    <2>2. CASE Goto(j, "closing") /\ Fail(j) /\ whole' = [whole EXCEPT ![j] = FALSE]
        <3>1. answer[j] = "none" /\ answer' = answer BY <1>5 DEF Send, Remembered
        <3>2. fault'[j] BY <2>2 DEF Fail, TypeOK
        <3>3. \A i \in Job : i # j => fault'[i] = fault[i] /\ at'[i] = at[i] /\ whole'[i] = whole[i]
            BY <2>2 DEF Goto, Fail, TypeOK
        <3> QED BY <3>1, <3>2, <3>3 DEF Remembered
    <2> QED BY <1>5, <2>1, <2>2 DEF Send
<1>6. ASSUME NEW j \in Job, Answer(j) PROVE Remembered'
    <2>1. UNCHANGED <<whole, fault>> BY <1>6 DEF Answer, progress
    <2>2. at'[j] = "done" BY <1>6 DEF Answer, Goto, TypeOK
    <2>3. answer'[j] = "done" => ~fault[j] BY <1>6 DEF Answer, TypeOK, Remembered
    <2>4. \A i \in Job : i # j => answer'[i] = answer[i] /\ at'[i] = at[i]
        BY <1>6 DEF Answer, Goto, TypeOK
    <2> QED BY <2>1, <2>2, <2>3, <2>4 DEF Remembered
<1>7. ASSUME NEW j \in Job, Expire(j) \/ Cancel(j) PROVE Remembered'
    BY <1>7, <1>1 DEF Expire, Cancel, progress
<1> QED BY <1>1, <1>2, <1>3, <1>4, <1>5, <1>6, <1>7 DEF Next, AgentStep, RuntimeStep, vars, progress

\* Every step keeps the invariant.
LEMMA ServedNext == Served /\ [Next]_vars => Served'
BY TypeNext, GateNext, QueuedNext, RememberedNext DEF Served

\* So it holds always.
LEMMA ServedAlways == Spec => []Served
BY ServedInit, ServedNext, PTL DEF Spec

-----------------------------------------------------------------------------
\* Requests that have left the start, whatever became of them.
Seen == {j \in Buyer \cup Playground : at[j] \notin {"absent", "new"}}

\* All these sets are finite.
LEMMA FiniteRecord == TypeOK => IsFiniteSet(active) /\ IsFiniteSet(Seen)
<1> SUFFICES ASSUME TypeOK PROVE IsFiniteSet(active) /\ IsFiniteSet(Seen) OBVIOUS
<1>1. active \in SUBSET Job /\ Seen \in SUBSET Job BY DEF TypeOK, Seen, Job
<1> QED BY <1>1, FS_Subset, ForwardAssumption

\* A request that stays on its side of the record, or has none, leaves it alone.
LEMMA RecordElsewhere ==
    ASSUME TypeOK, RecordExact, UNCHANGED record, NEW j \in Job, NEW p, Goto(j, p),
           \/ j \in Benchmark
           \/ /\ at[j] \in Open <=> p \in Open
              /\ {at[j], p} \cap {"absent", "new"} = {}
    PROVE  RecordExact'
<1>1. \A i \in Buyer \cup Playground : i # j => at'[i] = at[i] BY DEF Goto, TypeOK, Job
<1>2. at'[j] = p BY DEF Goto, TypeOK
<1>3. j \in Benchmark => j \notin Buyer \cup Playground BY ForwardAssumption
<1>4. Recorded' = Recorded BY <1>1, <1>2, <1>3 DEF Recorded, Open
<1>5. Seen' = Seen BY <1>1, <1>2, <1>3 DEF Seen
<1> QED BY <1>4, <1>5 DEF RecordExact, record, Seen

\* A request that starts is active; one that is refused is only seen.
LEMMA RecordStarts ==
    ASSUME TypeOK, RecordExact, NEW j \in Buyer \cup Playground, at[j] = "new", NEW p, Goto(j, p),
           \/ p \in Open /\ Start(j)
           \/ p \in {"report", "done"} /\ UNCHANGED record
    PROVE  RecordExact'
<1>1. \A i \in Buyer \cup Playground : i # j => at'[i] = at[i] BY DEF Goto, TypeOK, Job
<1>2. at'[j] = p /\ p \notin {"absent", "new"} BY DEF Goto, TypeOK, Job, Open, Serving
<1>3. Seen' = Seen \cup {j} /\ j \notin Seen BY <1>1, <1>2 DEF Seen
<1>4. Cardinality(Seen') = Cardinality(Seen) + 1 BY <1>3, FiniteRecord, FS_AddElement
<1>5. Cardinality(Seen) \in Nat /\ Cardinality(active) \in Nat BY FiniteRecord, FS_CardinalityType
<1>6. completed \in Nat /\ failed \in Nat BY DEF TypeOK
<1>7. CASE p \in Open /\ Start(j)
    <2>1. j \notin active BY DEF RecordExact, Recorded, Serving
    <2>2. Cardinality(active') = Cardinality(active) + 1
        BY <1>7, <2>1, FiniteRecord, FS_AddElement DEF Start
    <2>3. active' = Recorded' BY <1>1, <1>2, <1>7 DEF RecordExact, Recorded, Start, Open
    <2> QED BY <1>4, <1>5, <1>6, <1>7, <2>2, <2>3 DEF RecordExact, Start, Seen
<1>8. CASE p \in {"report", "done"} /\ UNCHANGED record
    <2>1. Recorded' = Recorded BY <1>1, <1>2, <1>8 DEF Recorded, Serving
    <2> QED BY <1>4, <1>5, <1>6, <1>8, <2>1 DEF RecordExact, record, Seen
<1> QED BY <1>7, <1>8

\* A request that finishes leaves the active ones and is counted.
LEMMA RecordFinishes == ASSUME TypeOK, RecordExact, NEW j \in Job, Record(j), j \notin Benchmark
                        PROVE  RecordExact'
<1>1. \A i \in Buyer \cup Playground : i # j => at'[i] = at[i] BY DEF Record, Goto, TypeOK, Job
<1>2. at'[j] \in {"report", "again", "done"} BY DEF Record, Goto, TypeOK
<1>3. at[j] \in {"record", "again"} BY DEF Record
<1>4. Seen' = Seen BY <1>1, <1>2, <1>3 DEF Seen
<1>5. CASE at[j] = "again"
    <2>1. j \notin active BY <1>5 DEF RecordExact, Recorded, Serving
    <2>2. UNCHANGED record BY <2>1 DEF Record, Finish
    <2>3. Recorded' = Recorded BY <1>1, <1>2, <1>5 DEF Recorded, Serving
    <2> QED BY <2>2, <2>3, <1>4 DEF RecordExact, record, Seen
<1>6. CASE at[j] = "record"
    <2>1. j \in active BY <1>6 DEF RecordExact, Recorded, Job
    <2>2. active' = active \ {j} /\ completed' = completed + 1 /\ failed' \in {failed, failed + 1}
        BY <2>1 DEF Record, Finish
    <2>3. Cardinality(active') = Cardinality(active) - 1
        BY <2>1, <2>2, FiniteRecord, FS_RemoveElement
    <2>4. active' = Recorded' BY <1>1, <1>2, <1>6, <2>2 DEF RecordExact, Recorded, Serving
    <2>5. Cardinality(Seen) \in Nat /\ Cardinality(active) \in Nat BY FiniteRecord, FS_CardinalityType
    <2>6. completed \in Nat /\ failed \in Nat BY DEF TypeOK
    <2>7. completed' + Cardinality(active') = completed + Cardinality(active)
        BY <2>2, <2>3, <2>5, <2>6
    <2>8. failed' <= completed' BY <2>2, <2>6 DEF RecordExact
    <2>9. completed + Cardinality(active) <= Cardinality(Seen) BY DEF RecordExact, Seen
    <2>10. completed' + Cardinality(active') <= Cardinality(Seen') BY <2>7, <2>9, <1>4
    <2> QED BY <2>4, <2>8, <2>10 DEF RecordExact, Seen
<1> QED BY <1>3, <1>5, <1>6

\* One step per action, or per group of actions that keep a request on its side.
LEMMA RecordNext == TypeOK /\ RecordExact /\ [Next]_vars => RecordExact'
<1> SUFFICES ASSUME TypeOK, RecordExact, [Next]_vars PROVE RecordExact' OBVIOUS
<1>1. ASSUME UNCHANGED <<at, record>> PROVE RecordExact' BY <1>1 DEF RecordExact, Recorded, record
<1>2. ASSUME NEW j \in Job, Handle(j) \/ Play(j) PROVE RecordExact'
    BY <1>2, RecordStarts DEF Handle, Play, Open
<1>3. ASSUME NEW j \in Job, Bench(j) \/ BenchResult(j) PROVE RecordExact'
    BY <1>3, RecordElsewhere DEF Bench, BenchResult
<1>4. ASSUME NEW j \in Job, Call(j) \/ CallFails(j) \/ Read(j) \/ ReadEnds(j) \/ ReadFails(j)
      PROVE RecordExact'
    BY <1>4, RecordElsewhere DEF Call, CallFails, Read, ReadEnds, ReadFails, Open, Serving
<1>5. ASSUME NEW j \in Job, PlayStream(j) \/ PlayWhole(j) PROVE RecordExact'
    BY <1>5, RecordElsewhere DEF PlayStream, PlayWhole, Open, Serving
<1>6. ASSUME NEW j \in Job, AcquireGate(j) \/ LeaveQueue(j) \/ Send(j) \/ SendHead(j)
      PROVE RecordExact'
    BY <1>6, RecordElsewhere DEF AcquireGate, LeaveQueue, Send, SendHead, Open, Serving
<1>7. ASSUME NEW j \in Job, Close(j) \/ Report(j) \/ Answer(j) PROVE RecordExact'
    BY <1>7, RecordElsewhere DEF Close, Report, Answer, Open, Serving
<1>8. ASSUME NEW j \in Job, Record(j) PROVE RecordExact'
    <2>1. CASE j \in Benchmark
        <3>1. j \notin active BY <2>1, ForwardAssumption DEF TypeOK
        <3> QED BY <1>8, <2>1, <3>1, RecordElsewhere DEF Record, Finish
    <2> QED BY <1>8, <2>1, RecordFinishes
<1>9. ASSUME NEW j \in Job, Expire(j) \/ Cancel(j) PROVE RecordExact'
    BY <1>9, <1>1 DEF Expire, Cancel
<1> QED BY <1>1, <1>2, <1>3, <1>4, <1>5, <1>6, <1>7, <1>8, <1>9 DEF Next, AgentStep, RuntimeStep, vars

\* The record starts empty.
LEMMA RecordInit == Init => RecordExact
<1> SUFFICES ASSUME Init PROVE RecordExact OBVIOUS
<1>1. TypeOK BY ServedInit DEF Served
<1>2. \A j \in Job : at[j] \in {"absent", "new"} BY DEF Init
<1>3. Recorded = {} BY <1>2 DEF Recorded, Serving, Job
<1>4. Cardinality(active) = 0 BY FS_EmptySet DEF Init
<1>5. Cardinality(Seen) \in Nat BY <1>1, FiniteRecord, FS_CardinalityType
<1> QED BY <1>3, <1>4, <1>5 DEF Init, RecordExact, Seen

-----------------------------------------------------------------------------
\* Forwarder.Handle's gate, for any number of requests, routes and sessions: it is held
\* by the requests between acquiring and leaving it, by one at most.
THEOREM GateSafe == Spec => []GateHeldOnce
<1>1. Served => GateHeldOnce
    <2> SUFFICES ASSUME Served PROVE GateHeldOnce OBVIOUS
    <2>1. CASE gpu = 0 /\ Holders = {} BY <2>1, FS_EmptySet DEF Served, GateHeldOnce
    <2>2. CASE gpu = 1 /\ \E h \in Job : Holders = {h}
        BY <2>2, FS_Singleton DEF Served, GateHeldOnce
    <2> QED BY <2>1, <2>2 DEF Served, Gate
<1> QED BY <1>1, ServedAlways, PTL

\* handleRequestBody sends Done only for a response that was handed on whole.
THEOREM NothingPartIsBilled == Spec => []DoneMeansWhole
<1>1. Served => DoneMeansWhole BY DEF Served, Remembered, DoneMeansWhole, TypeOK
<1> QED BY <1>1, ServedAlways, PTL

\* handleRequestBody closes no request that was cancelled before it looked at the context:
\* Muted is what such a request stays.
Muted(j) == ctx[j] = "cancelled" /\ at[j] # "answering" /\ answer[j] = "none"

LEMMA MutedNext == ASSUME TypeOK, [Next]_vars, NEW j \in Buyer, Muted(j) PROVE Muted(j)'
<1>1. j \in Job BY DEF Job
<1>2. ASSUME NEW i \in Job, Report(i) PROVE Muted(j)'
    <2>1. UNCHANGED <<ctx, answer>> /\ at'[j] # "answering" BY <1>1, <1>2 DEF Report, Goto, TypeOK, Muted
    <2> QED BY <2>1 DEF Muted
<1>3. ASSUME NEW i \in Job, Answer(i) PROVE Muted(j)'
    <2>1. i # j BY <1>3 DEF Answer, Muted
    <2>2. ctx' = ctx /\ at'[j] = at[j] /\ answer'[j] = answer[j]
        BY <1>1, <1>3, <2>1 DEF Answer, Goto, TypeOK
    <2> QED BY <2>2 DEF Muted
<1>4. ASSUME NEW i \in Job, NEW p, p # "answering", Goto(i, p), UNCHANGED <<ctx, answer>> PROVE Muted(j)'
    BY <1>1, <1>4 DEF Goto, TypeOK, Muted
<1>5. ASSUME NEW i \in Job, RuntimeStep(i) PROVE Muted(j)'
    BY <1>5, <1>4 DEF RuntimeStep, Call, CallFails, Read, ReadEnds, ReadFails, PlayStream, PlayWhole,
       BenchResult
<1>6. ASSUME NEW i \in Job, AgentStep(i) PROVE Muted(j)'
    BY <1>6, <1>2, <1>3, <1>4, <1>5 DEF AgentStep, RuntimeStep, AcquireGate, LeaveQueue, Send, SendHead,
       Close, Record
<1>7. ASSUME NEW i \in Job, Handle(i) \/ Play(i) \/ Bench(i) PROVE Muted(j)'
    BY <1>7, <1>4 DEF Handle, Play, Bench
<1>8. ASSUME NEW i \in Job, Expire(i) \/ Cancel(i) PROVE Muted(j)'
    <2>1. ctx'[j] = "cancelled" /\ UNCHANGED <<at, answer>>
        BY <1>1, <1>8 DEF Expire, Cancel, TypeOK, Muted
    <2> QED BY <2>1 DEF Muted
<1>9. CASE UNCHANGED vars BY <1>9 DEF vars, Muted
<1> QED BY <1>5, <1>6, <1>7, <1>8, <1>9 DEF Next

\* A request that is cancelled before that look never gets a closing frame, for any
\* requests, routes, sessions and runtimes.
THEOREM SilentOnceCancelled == Spec => CancelledStaysSilent
<1>1. ASSUME NEW j \in Buyer
      PROVE  Spec => [](ctx[j] = "cancelled" /\ at[j] \notin {"answering", "done"}
                          => [](answer[j] = "none"))
    <2>1. Served /\ ctx[j] = "cancelled" /\ at[j] \notin {"answering", "done"} => Muted(j)
        BY DEF Served, Remembered, Muted, Job
    <2>2. Served /\ Muted(j) /\ [Next]_vars => Muted(j)' BY MutedNext DEF Served
    <2>3. Muted(j) => answer[j] = "none" BY DEF Muted
    <2> QED BY <2>1, <2>2, <2>3, ServedAlways, PTL DEF Spec
<1> QED BY <1>1 DEF CancelledStaysSilent

\* Store.Start and Store.Finish count each request once, from any of its returns.
THEOREM RecordKept == Spec => []RecordExact
<1>1. TypeOK /\ RecordExact /\ [Next]_vars => RecordExact' BY RecordNext
<1>2. Served => TypeOK BY DEF Served
<1> QED BY <1>1, <1>2, RecordInit, ServedAlways, PTL DEF Spec

-----------------------------------------------------------------------------
(***************************************************************************)
(* The usage scanner.  Scanned says that what was seen is in the response  *)
(* and that what was cut leaves at least half a buffer.                    *)
(***************************************************************************)

\* The usage blocks seen are in the response; what is cut leaves half a buffer.
Scanned ==
    /\ total \in Nat /\ dropped \in Nat /\ usage \subseteq 1..total
    /\ dropped = 0 \/ dropped <= total - Half
    /\ dropped <= total /\ total - dropped <= MaxBuf + MaxWrite

\* Of the blocks seen, one is the last.
LEMMA LastExists ==
    ASSUME NEW t \in Nat, NEW S \in SUBSET (1..t), S # {}
    PROVE  \E p \in S : \A q \in S : q <= p
<1> DEFINE T == {t - p : p \in S}
<1>1. T \subseteq Nat /\ T # {}
    <2>1. \A p \in S : t - p \in Nat OBVIOUS
    <2> QED BY <2>1
<1>2. PICK x \in T : \A y \in T : ~(<<y, x>> \in OpToRel(<, Nat))
    BY <1>1, NatLessThanWellFounded, WFMin
<1>3. x \in Nat /\ \A y \in T : y \in Nat /\ ~(y < x)
    BY <1>1, <1>2 DEF OpToRel
<1>4. PICK p \in S : x = t - p BY <1>2
<1>5. ASSUME NEW q \in S PROVE q <= p
    <2>1. ~(t - q < t - p) BY <1>3, <1>4
    <2>2. q \in Int /\ p \in Int BY <1>4
    <2> QED BY <2>1, <2>2
<1> QED BY <1>4, <1>5

\* Half a buffer is not more than a buffer.
LEMMA HalfFits == Half \in Nat /\ Half <= MaxBuf
BY ScannerAssumption DEF Half

\* Any write keeps half a buffer behind it.
LEMMA WriteKeeps ==
    ASSUME Scanned, NEW n \in 1..MaxWrite, NEW anchors \in SUBSET (1..n), Write(n, anchors)
    PROVE  Scanned'
<1>1. /\ dropped' = IF total - dropped > MaxBuf THEN total - Half ELSE dropped
      /\ total' = total + n /\ usage' = usage \cup {total + a : a \in anchors}
    BY DEF Write, Kept
<1>2. /\ total \in Nat /\ dropped \in Nat /\ n \in Nat \ {0} /\ n <= MaxWrite
      /\ MaxBuf \in Nat /\ MaxWrite \in Nat /\ Half \in Nat /\ Half <= MaxBuf
      /\ dropped <= total
      /\ dropped = 0 \/ dropped <= total - Half
      /\ total - dropped <= MaxBuf + MaxWrite
    BY HalfFits, ScannerAssumption DEF Scanned
<1>3. usage' \subseteq 1..total'
    <2>1. \A p \in usage : p \in 1..(total + n) BY <1>2 DEF Scanned
    <2>2. \A a \in anchors : total + a \in 1..(total + n) BY <1>2
    <2> QED BY <1>1, <2>1, <2>2
<1>4. CASE total - dropped > MaxBuf
    <2>1. total - Half \in Nat /\ total - Half <= total + n - Half /\ total - Half <= total + n
          /\ total + n - (total - Half) <= MaxBuf + MaxWrite
        BY <1>2, <1>4
    <2> QED BY <1>1, <1>2, <1>3, <1>4, <2>1 DEF Scanned
<1>5. CASE ~(total - dropped > MaxBuf)
    <2>1. total + n - dropped <= MaxBuf + MaxWrite /\ dropped <= total + n BY <1>2, <1>5
    <2>2. dropped = 0 \/ dropped <= total + n - Half BY <1>2
    <2> QED BY <1>1, <1>2, <1>3, <1>5, <2>1, <2>2 DEF Scanned
<1> QED BY <1>4, <1>5

\* A usage block near the end of a response of any length, written in any pieces, is billed,
\* and no other than the last one ever is.
THEOREM LastUsageIsBilled == ScannerSpec => []UsageFound
<1>1. ScannerInit => Scanned
    <2> SUFFICES ASSUME ScannerInit PROVE Scanned OBVIOUS
    <2>1. total = 0 /\ dropped = 0 /\ usage = {} BY DEF ScannerInit
    <2> QED BY <2>1, ScannerAssumption DEF Scanned
<1>2. Scanned /\ [ScannerNext]_scannerVars => Scanned'
    <2>1. CASE UNCHANGED scannerVars BY <2>1 DEF scannerVars, Scanned
    <2> QED BY <2>1, WriteKeeps DEF ScannerNext
<1>3. Scanned => UsageFound
    <2> SUFFICES ASSUME Scanned PROVE UsageFound OBVIOUS
    <2>1. /\ total \in Nat /\ dropped \in Nat /\ usage \subseteq 1..total
          /\ dropped = 0 \/ dropped <= total - Half
          /\ dropped <= total /\ total - dropped <= MaxBuf + MaxWrite
          /\ Half \in Nat
        BY HalfFits DEF Scanned
    <2>2. ScannerTypeOK BY <2>1 DEF ScannerTypeOK
    <2>3. 0 <= Kept /\ Kept <= MaxBuf + MaxWrite BY <2>1, ScannerAssumption DEF Kept
    <2> DEFINE found == {p \in usage : p > dropped}
    <2>4. CASE usage = {}
        <3>1. Billed = 0 /\ Tokens = 0 BY <2>4 DEF Billed, Tokens
        <3> QED BY <2>2, <2>3, <3>1 DEF UsageFound
    <2>5. CASE usage # {}
        <3>1. Billed \in usage /\ \A q \in usage : q <= Billed
            <4>1. \E p \in usage : \A q \in usage : q <= p BY <2>1, <2>5, LastExists
            <4> QED BY <2>5, <4>1 DEF Billed
        <3>2. \A p \in usage : p \in Int /\ p >= 1 BY <2>1
        <3>3. CASE Billed > dropped
            <4>1. Billed \in found BY <3>1, <3>3
            <4>2. \A p \in found : (\A q \in found : q <= p) => p = Billed
                BY <3>1, <3>2, <4>1
            <4>3. Tokens \in found /\ \A q \in found : q <= Tokens
                BY <3>1, <4>1 DEF Tokens
            <4>4. Tokens = Billed BY <4>2, <4>3
            <4> QED BY <2>2, <2>3, <4>4 DEF UsageFound
        <3>4. CASE ~(Billed > dropped)
            <4>1. found = {}
                <5>1. ASSUME NEW q \in usage, q > dropped PROVE FALSE
                    <6>1. q <= Billed /\ q \in Int /\ Billed \in Int BY <3>1, <3>2
                    <6> QED BY <2>1, <3>4, <5>1, <6>1
                <5> QED BY <5>1
            <4>2. Tokens = 0 BY <4>1 DEF Tokens
            <4>3. ~(Billed > total - Half) BY <2>1, <3>1, <3>2, <3>4
            <4> QED BY <2>2, <2>3, <4>2, <4>3 DEF UsageFound
        <3> QED BY <3>3, <3>4
    <2> QED BY <2>4, <2>5
<1> QED BY <1>1, <1>2, <1>3, PTL DEF ScannerSpec
=============================================================================
