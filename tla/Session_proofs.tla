--------------------------- MODULE Session_proofs ---------------------------
(***************************************************************************)
(* Proofs about Session, for any set of jobs and any capacity of the send  *)
(* queue.  Order says how far the goroutines have come at each point of    *)
(* the defers of Run; every claim about the end of a session rests on it.  *)
(***************************************************************************)
EXTENDS Session, TLAPS

Gone == {"off", "exited"}

ReaderGone  == run \in {"idle", "cancel", "monitor", "group", "returned"} => reader \in Gone
MonitorGone == run \in {"idle", "group", "returned"} => monitor \in Gone
JobsGone    == run \in {"idle", "returned"} => \A j \in Job : job[j] = "free"

Order == SessionTypeOK /\ ReaderGone /\ MonitorGone /\ JobsGone

-----------------------------------------------------------------------------
\* A step of the gateway, of the writer or of the environment that leaves Run, the
\* reader, the monitor and the jobs where they are.
LEMMA Elsewhere ==
    ASSUME Order, SessionTypeOK', UNCHANGED <<run, reader, monitor, job>>
    PROVE  Order'
BY DEF Order, ReaderGone, MonitorGone, JobsGone

\* The reader moves only before Run has seen it gone.
LEMMA ReaderMoves ==
    ASSUME Order, SessionTypeOK', reader \notin Gone, UNCHANGED <<run, monitor>>
    PROVE  Order'
BY DEF Order, ReaderGone, MonitorGone, JobsGone

\* A job that runs goes on, or ends, only before Run has seen the wait group empty.
LEMMA JobMoves ==
    ASSUME Order, SessionTypeOK', NEW j \in Job, job[j] # "free", UNCHANGED <<run, reader, monitor>>
    PROVE  Order'
BY DEF Order, ReaderGone, MonitorGone, JobsGone

\* Sending keeps the queue within its capacity.
LEMMA SendTyped == ASSUME SessionTypeOK, Send PROVE sendQ' \in 0..QueueSize
BY SessionAssumption DEF SessionTypeOK, Send

-----------------------------------------------------------------------------
\* A new session's queue is empty.
LEMMA EmptyQueue == 0 \in 0..QueueSize
BY SessionAssumption

\* A session starts with its goroutines at their first program points.
LEMMA TypeInit == SessionInit => SessionTypeOK
<1> SUFFICES ASSUME SessionInit PROVE SessionTypeOK OBVIOUS
<1>1. job \in [Job -> {"free", "work", "send"}] BY DEF SessionInit
<1> QED BY <1>1, EmptyQueue DEF SessionInit, SessionTypeOK

\* One step per action, or per group of actions that move one goroutine.
LEMMA TypeNext == SessionTypeOK /\ [SessionNext]_sessionVars => SessionTypeOK'
<1> SUFFICES ASSUME SessionTypeOK, [SessionNext]_sessionVars PROVE SessionTypeOK' OBVIOUS
<1> USE DEF SessionTypeOK, Error, runVars, endVars, readerVars, writerVars
<1>1. CASE (\E how \in {"closed", "broken"} : LinkEnds(how)) \/ Shutdown \/ Notify
    <2>1. ASSUME NEW how \in {"closed", "broken"}, LinkEnds(how) PROVE SessionTypeOK'
        BY <2>1 DEF LinkEnds
    <2>2. CASE Shutdown BY <2>2 DEF Shutdown
    <2>3. CASE Notify BY <2>3 DEF Notify
    <2> QED BY <1>1, <2>1, <2>2, <2>3
<1>2. CASE DialFails \/ NextSession
    <2>1. CASE DialFails BY <2>1 DEF DialFails
    <2>2. CASE NextSession BY <2>2, EmptyQueue DEF NextSession
    <2> QED BY <1>2, <2>1, <2>2
<1>3. CASE Connected
    BY <1>3 DEF Connected
<1>4. CASE Select
    <2>1. result' \in Error \cup {"none", "nil"} BY <1>4 DEF Select
    <2>2. metadataChanged' \in BOOLEAN BY <1>4 DEF Select
    <2>3. UNCHANGED <<endVars, readerVars, writerVars, monitor, sendQ, job>> /\ run' = "close"
        BY <1>4 DEF Select
    <2> QED BY <2>1, <2>2, <2>3
<1>5. CASE CloseConn \/ WaitReader \/ Cancel \/ WaitMonitor \/ WaitGroup
    <2>1. CASE CloseConn BY <2>1 DEF CloseConn
    <2>2. CASE Cancel BY <2>2 DEF Cancel
    <2>3. CASE WaitReader \/ WaitMonitor \/ WaitGroup
        BY <2>3 DEF WaitReader, WaitMonitor, WaitGroup
    <2> QED BY <1>5, <2>1, <2>2, <2>3
<1>6. CASE ReadFrame
    <2>1. CASE ReadRequest \/ ReadUpdate \/ ReadRefusedUpdate
        BY <2>1 DEF ReadRequest, ReadUpdate, ReadRefusedUpdate, ReaderGoes
    <2>2. CASE ReadRevoked \/ ReadDisconnect
        BY <2>2 DEF ReadRevoked, ReadDisconnect, ReaderExits
    <2>3. CASE ReadOverflow BY <2>3 DEF ReadOverflow
    <2> QED BY <1>6, <2>1, <2>2, <2>3 DEF ReadFrame
<1>7. CASE ReadFails \/ ReadCanceled \/ Dispatch
    BY <1>7 DEF ReadFails, ReadCanceled, Dispatch, ReaderGoes, ReaderExits
<1>8. CASE Add
    BY <1>8 DEF Add
<1>9. CASE ReaderSends
    BY <1>9, SendTyped DEF ReaderSends
<1>10. CASE WriterTakes
    BY <1>10, SessionAssumption DEF WriterTakes
<1>11. CASE WriterStep
    BY <1>11 DEF WriterStep, WriterStops, Write, WriterExits
<1>12. CASE MonitorProbes \/ MonitorStops
    BY <1>12 DEF MonitorProbes, MonitorStops
<1>13. ASSUME NEW j \in Job, JobAnswers(j) \/ JobEnds(j) \/ JobAborts(j)
       PROVE  SessionTypeOK'
    BY <1>13 DEF JobAnswers, JobEnds, JobAborts, JobGoes
<1>14. ASSUME NEW j \in Job, JobSends(j)
       PROVE  SessionTypeOK'
    BY <1>14, SendTyped DEF JobSends, JobGoes
<1>15. CASE UNCHANGED sessionVars
    BY <1>15 DEF sessionVars
<1> QED
    BY <1>1, <1>2, <1>3, <1>4, <1>5, <1>6, <1>7, <1>8, <1>9, <1>10, <1>11, <1>12, <1>13,
       <1>14, <1>15
    DEF SessionNext, RunStep, ReaderStep

\* At the start Run has waited for nobody, so nobody has to be gone.
LEMMA OrderInit == SessionInit => Order
BY TypeInit DEF SessionInit, Order, ReaderGone, MonitorGone, JobsGone, Gone

\* The waits of Run establish its parts one by one, and nobody undoes them.
LEMMA OrderNext == Order /\ [SessionNext]_sessionVars => Order'
<1> SUFFICES ASSUME Order, [SessionNext]_sessionVars PROVE Order' OBVIOUS
<1>0. SessionTypeOK' BY TypeNext DEF Order
<1>1. CASE (\E how \in {"closed", "broken"} : LinkEnds(how)) \/ Shutdown \/ Notify
    BY <1>0, <1>1, Elsewhere DEF LinkEnds, Shutdown, Notify, runVars, readerVars
<1>2. CASE DialFails \/ NextSession
    BY <1>0, <1>2 DEF DialFails, NextSession, readerVars, Order, ReaderGone, MonitorGone,
                      JobsGone, Gone
<1>3. CASE Connected \/ Select \/ CloseConn
    BY <1>0, <1>3 DEF Connected, Select, CloseConn, readerVars, Order, ReaderGone,
                      MonitorGone, JobsGone
<1>4. CASE WaitReader \/ Cancel \/ WaitMonitor \/ WaitGroup
    BY <1>0, <1>4 DEF WaitReader, Cancel, WaitMonitor, WaitGroup, readerVars, Order,
                      ReaderGone, MonitorGone, JobsGone, Gone
<1>5. CASE ReadFrame
    BY <1>0, <1>5, ReaderMoves
    DEF ReadFrame, ReadRequest, ReadUpdate, ReadRefusedUpdate, ReadRevoked, ReadDisconnect,
        ReadOverflow, ReaderGoes, ReaderExits, runVars, Gone
<1>6. CASE ReaderStep
    BY <1>0, <1>6, ReaderMoves
    DEF ReaderStep, ReadFails, ReadCanceled, Dispatch, Add, ReaderSends, ReaderGoes,
        ReaderExits, runVars, Gone
<1>7. CASE WriterTakes \/ WriterStep
    BY <1>0, <1>7, Elsewhere
    DEF WriterTakes, WriterStep, WriterStops, Write, WriterExits, runVars, readerVars
<1>8. CASE MonitorProbes \/ MonitorStops
    BY <1>0, <1>8 DEF MonitorProbes, MonitorStops, runVars, readerVars, Order, ReaderGone,
                      MonitorGone, JobsGone, Gone
<1>9. ASSUME NEW j \in Job, JobAnswers(j) \/ JobEnds(j) \/ JobAborts(j) \/ JobSends(j)
      PROVE  Order'
    BY <1>0, <1>9, JobMoves
    DEF JobAnswers, JobEnds, JobAborts, JobSends, JobGoes, runVars, readerVars
<1>10. CASE UNCHANGED sessionVars
    BY <1>0, <1>10, Elsewhere DEF sessionVars, runVars, readerVars
<1> QED
    BY <1>1, <1>2, <1>3, <1>4, <1>5, <1>6, <1>7, <1>8, <1>9, <1>10 DEF SessionNext, RunStep

\* In every state the goroutines Run has already waited for are gone.
LEMMA OrderKept == SessionSpec => []Order
BY OrderInit, OrderNext, PTL DEF SessionSpec

-----------------------------------------------------------------------------
\* Every goroutine stays at one of its program points, and the send queue within its
\* capacity, for any number of jobs.
THEOREM SessionTyped == SessionSpec => []SessionTypeOK
BY OrderKept, PTL DEF Order

\* Run returns after its reader, its monitor and all the work of its wait group, for any
\* amount of work.
THEOREM WorkEndsFirst == SessionSpec => []ReturnsAfterWork
<1>1. Order => ReturnsAfterWork
    BY DEF Order, ReaderGone, MonitorGone, JobsGone, Gone, ReturnsAfterWork
<1> QED BY <1>1, OrderKept, PTL

\* Nothing is added to the wait group Run waits on: a goroutine of it starts in Connected,
\* before the select, or in the reader, which is gone by then.
THEOREM AddsComeFirst == SessionSpec => NoLateAdd
<1>1. Order /\ [SessionNext]_sessionVars
        => \A j \in Job :
             run \in {"group", "returned"} /\ job[j] = "free" => job'[j] = "free"
    <2> SUFFICES ASSUME Order, [SessionNext]_sessionVars, NEW j \in Job, run \in {"group", "returned"},
                        job[j] = "free"
                 PROVE  job'[j] = "free"
        OBVIOUS
    <2>1. reader \in Gone BY DEF Order, ReaderGone
    <2>2. CASE ReadFrame \/ ReaderStep
        BY <2>1, <2>2
        DEF ReadFrame, ReadRequest, ReadUpdate, ReadRefusedUpdate, ReadRevoked,
            ReadDisconnect, ReadOverflow, ReaderStep, ReadFails, ReadCanceled, Dispatch, Add,
            ReaderSends, Gone
    <2>3. CASE RunStep \/ DialFails \/ Connected \/ NextSession
        BY <2>3 DEF RunStep, Select, CloseConn, WaitReader, Cancel, WaitMonitor, WaitGroup,
                    DialFails, Connected, NextSession
    <2>4. CASE (\E how \in {"closed", "broken"} : LinkEnds(how)) \/ Shutdown \/ Notify
        BY <2>4 DEF LinkEnds, Shutdown, Notify
    <2>5. CASE WriterTakes \/ WriterStep \/ MonitorProbes \/ MonitorStops
        BY <2>5 DEF WriterTakes, WriterStep, WriterStops, Write, WriterExits, MonitorProbes,
                    MonitorStops
    <2>6. ASSUME NEW i \in Job, JobAnswers(i) \/ JobEnds(i) \/ JobAborts(i) \/ JobSends(i)
          PROVE  job'[j] = "free"
        <3>1. job[i] # "free"
            BY <2>6 DEF JobAnswers, JobEnds, JobAborts, JobSends
        <3> QED BY <2>6, <3>1 DEF JobAnswers, JobEnds, JobAborts, JobSends, JobGoes, Order,
                                  SessionTypeOK
    <2>7. CASE UNCHANGED sessionVars
        BY <2>7 DEF sessionVars
    <2> QED BY <2>2, <2>3, <2>4, <2>5, <2>6, <2>7 DEF SessionNext
<1> QED BY <1>1, OrderKept, PTL DEF SessionSpec, NoLateAdd
=============================================================================
