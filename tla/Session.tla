------------------------------ MODULE Session ------------------------------
(***************************************************************************)
(* One gateway session, from Dial to the return of Client.Run              *)
(* (internal/client): the goroutine of Run itself, the reader, the writer, *)
(* the runtime monitor, and the work the session owns, which Run's wait    *)
(* group counts: request handlers, remote updates and model pulls.  They   *)
(* meet in the send queue, the done channel that closeConn closes, the     *)
(* session context, the error channels and the connection.                 *)
(*                                                                         *)
(* Admission and the contents of frames are left to other modules; each    *)
(* session begins from scratch when Run is called again.                   *)
(***************************************************************************)
EXTENDS Integers

CONSTANTS
    Job,        \* goroutines the session may own at a time
    QueueSize   \* capacity of sendQ

ASSUME SessionAssumption == QueueSize \in Nat \ {0}

VARIABLES
    run,                \* where Run is
    result,             \* what Run returns
    ctx, sessionCtx,    \* the process's context and the session's are cancelled
    done,               \* closeConn has run: done is closed and so is the connection
    link,               \* the connection as the gateway and the network leave it
    reader, readErr,    \* the reader and the error it sent to Run, if any
    writer, writeErr,
    monitor,
    sendQ,              \* frames in the send queue
    job,                \* the goroutines counted by the wait group
    metadataChanged     \* the refresh token, which outlives the session

runVars    == <<run, result>>
readerVars == <<reader, readErr>>
writerVars == <<writer, writeErr>>
endVars    == <<ctx, sessionCtx, done, link>>
sessionVars ==
    <<runVars, endVars, readerVars, writerVars, monitor, sendQ, job, metadataChanged>>

Error == {"lost", "terminal", "refresh", "canceled"}

\* Reading and writing fail once the connection is closed on either side.
Broken == done \/ link # "up"

-----------------------------------------------------------------------------
\* The gateway, the network and the process.

LinkEnds(how) ==
    /\ run # "idle" /\ link = "up"
    /\ link' = how
    /\ UNCHANGED <<runVars, ctx, sessionCtx, done, readerVars, writerVars, monitor, sendQ,
                   job, metadataChanged>>

\* The process's context is the parent of the session's.
Shutdown ==
    /\ ~ctx
    /\ ctx' = TRUE
    /\ sessionCtx' = TRUE
    /\ UNCHANGED <<runVars, done, link, readerVars, writerVars, monitor, sendQ, job,
                   metadataChanged>>

Notify ==
    /\ metadataChanged' = TRUE
    /\ UNCHANGED <<runVars, endVars, readerVars, writerVars, monitor, sendQ, job>>

-----------------------------------------------------------------------------
\* Run: connectAndAuth, the goroutines, the select, and the defers in their order.

DialFails ==
    /\ run = "idle"
    /\ run' = "returned"
    /\ result' = "lost"
    /\ UNCHANGED <<endVars, readerVars, writerVars, monitor, sendQ, job, metadataChanged>>

\* Welcome.  The pull of the recommended models, if there are any, is added to the
\* wait group before the select.
Connected ==
    /\ run = "idle"
    /\ run' = "select"
    /\ reader' = "read" /\ writer' = "idle" /\ monitor' = "idle"
    /\ \/ UNCHANGED job
       \/ \E j \in Job : job' = [job EXCEPT ![j] = "work"]
    /\ UNCHANGED <<result, endVars, readErr, writeErr, sendQ, metadataChanged>>

Select ==
    /\ run = "select"
    /\ \/ readErr # "none" /\ result' = readErr /\ UNCHANGED metadataChanged
       \/ writeErr # "none" /\ result' = writeErr /\ UNCHANGED metadataChanged
       \/ metadataChanged /\ result' = "refresh" /\ metadataChanged' = FALSE
       \/ ctx /\ result' = "canceled" /\ UNCHANGED metadataChanged
    /\ run' = "close"
    /\ UNCHANGED <<endVars, readerVars, writerVars, monitor, sendQ, job>>

CloseConn ==
    /\ run = "close"
    /\ done' = TRUE
    /\ run' = "reader"
    /\ UNCHANGED <<result, ctx, sessionCtx, link, readerVars, writerVars, monitor, sendQ, job,
                   metadataChanged>>

\* Deviation: Run goes on without <-readerDone.
SkipReader ==
    /\ run = "reader"
    /\ run' = "cancel"
    /\ UNCHANGED <<result, endVars, readerVars, writerVars, monitor, sendQ, job, metadataChanged>>

WaitReader ==
    /\ run = "reader" /\ reader = "exited"
    /\ run' = "cancel"
    /\ UNCHANGED <<result, endVars, readerVars, writerVars, monitor, sendQ, job, metadataChanged>>

\* Deviation: the session's context is cancelled only after the waits.
CancelLast ==
    /\ run = "cancel"
    /\ run' = "monitor"
    /\ UNCHANGED <<result, endVars, readerVars, writerVars, monitor, sendQ, job, metadataChanged>>

Cancel ==
    /\ run = "cancel"
    /\ sessionCtx' = TRUE
    /\ run' = "monitor"
    /\ UNCHANGED <<result, ctx, done, link, readerVars, writerVars, monitor, sendQ, job,
                   metadataChanged>>

\* Deviation: Run goes on without <-monitorDone.
SkipMonitor ==
    /\ run = "monitor"
    /\ run' = "group"
    /\ UNCHANGED <<result, endVars, readerVars, writerVars, monitor, sendQ, job, metadataChanged>>

WaitMonitor ==
    /\ run = "monitor" /\ monitor = "exited"
    /\ run' = "group"
    /\ UNCHANGED <<result, endVars, readerVars, writerVars, monitor, sendQ, job, metadataChanged>>

WaitGroup ==
    /\ run = "group" /\ \A j \in Job : job[j] = "free"
    /\ run' = "returned"
    /\ UNCHANGED <<result, endVars, readerVars, writerVars, monitor, sendQ, job, metadataChanged>>

\* The reconnect loop calls Run of a new client.
NextSession ==
    /\ run = "returned" /\ ~ctx /\ result \notin {"nil", "terminal"}
    /\ run' = "idle" /\ result' = "none"
    /\ sessionCtx' = FALSE /\ done' = FALSE /\ link' = "up"
    /\ reader' = "off" /\ readErr' = "none"
    /\ writer' = "off" /\ writeErr' = "none"
    /\ monitor' = "off" /\ sendQ' = 0
    /\ UNCHANGED <<ctx, job, metadataChanged>>

-----------------------------------------------------------------------------
\* The reader.

ReaderGoes(s) ==
    /\ reader' = s
    /\ UNCHANGED <<runVars, endVars, readErr, writerVars, monitor, sendQ, job, metadataChanged>>

ReaderExits(err) ==
    /\ reader' = "exited" /\ readErr' = err
    /\ UNCHANGED <<runVars, endVars, writerVars, monitor, sendQ, job, metadataChanged>>

\* A frame: bytes that arrived before the connection ended may still be read after it.
\* A request to admit, or an update command: work for the wait group.
ReadRequest == reader = "read" /\ ReaderGoes("dispatch")
ReadUpdate  == reader = "read" /\ ReaderGoes("add")

\* An update command the agent cannot run is answered by sendFrame on the reader itself.
ReadRefusedUpdate == reader = "read" /\ ReaderGoes("send")

\* A Disconnect frame.
ReadRevoked    == reader = "read" /\ ReaderExits("terminal")
ReadDisconnect == reader = "read" /\ ReaderExits("lost")

\* A cancel that overflows the tombstones closes the connection under the reader's feet.
ReadOverflow ==
    /\ reader = "read"
    /\ done' = TRUE
    /\ UNCHANGED <<runVars, ctx, sessionCtx, link, readerVars, writerVars, monitor, sendQ, job,
                   metadataChanged>>

\* Deviation: an error that is not a close is logged and the loop goes on.
ReadLogsErrors == reader = "read" /\ link = "closed" /\ ReaderExits("nil")

\* A normal close of the gateway is no error; a broken link, a missed deadline or the
\* connection closed on this side is one.
ReadFails ==
    /\ reader = "read"
    /\ \/ link = "closed" /\ ReaderExits("nil")
       \/ (done \/ link = "broken") /\ ReaderExits("lost")

\* The context is looked at before each read.
ReadCanceled == reader = "read" /\ sessionCtx /\ ReaderExits("canceled")

\* startHandler: with the slot taken, one look at done and the context.
Dispatch ==
    /\ reader = "dispatch"
    /\ \/ ~done /\ ~sessionCtx /\ ReaderGoes("add")
       \/ done /\ ReaderExits("nil")
       \/ sessionCtx /\ ReaderExits("canceled")

\* wg.Add and the goroutine; with no goroutine left in Job the frame was turned away.
Add ==
    /\ reader = "add"
    /\ reader' = "read"
    /\ \/ \E j \in Job : job[j] = "free" /\ job' = [job EXCEPT ![j] = "work"]
       \/ (\A j \in Job : job[j] # "free") /\ UNCHANGED job
    /\ UNCHANGED <<runVars, endVars, readErr, writerVars, monitor, sendQ, metadataChanged>>

\* sendFrame: room in the queue, a closed session, or five seconds.
Send ==
    \/ sendQ < QueueSize /\ sendQ' = sendQ + 1
    \/ (done \/ sendQ = QueueSize) /\ UNCHANGED sendQ

ReaderSends ==
    /\ reader = "send"
    /\ Send
    /\ reader' = "read"
    /\ UNCHANGED <<runVars, endVars, readErr, writerVars, monitor, job, metadataChanged>>

-----------------------------------------------------------------------------
\* The writer: its select, and a write.  It exits for good once the session ends.

WriterExits(err) ==
    /\ writer' = "exited" /\ writeErr' = err
    /\ UNCHANGED <<runVars, endVars, readerVars, monitor, sendQ, job, metadataChanged>>

WriterStops ==
    /\ writer = "idle"
    /\ \/ done /\ WriterExits("nil")
       \/ sessionCtx /\ WriterExits("canceled")

\* A frame from the queue, or the ticker's heartbeat with its telemetry.
WriterTakes ==
    /\ writer = "idle"
    /\ \/ sendQ > 0 /\ sendQ' = sendQ - 1
       \/ UNCHANGED sendQ
    /\ writer' = "write"
    /\ UNCHANGED <<runVars, endVars, readerVars, writeErr, monitor, job, metadataChanged>>

Write ==
    /\ writer = "write"
    /\ \/ Broken /\ WriterExits("lost")
       \/ /\ ~done /\ writer' = "idle"
          /\ UNCHANGED <<runVars, endVars, readerVars, writeErr, monitor, sendQ, job,
                         metadataChanged>>

-----------------------------------------------------------------------------
\* The runtime monitor and the session's work.

MonitorProbes ==
    /\ monitor \in {"idle", "probe"}
    /\ \/ monitor = "idle" /\ monitor' = "probe" /\ UNCHANGED metadataChanged
       \/ monitor = "probe" /\ monitor' = "idle" /\ metadataChanged' \in {metadataChanged, TRUE}
    /\ UNCHANGED <<runVars, endVars, readerVars, writerVars, sendQ, job>>

MonitorStops ==
    /\ monitor \in {"idle", "probe"} /\ sessionCtx
    /\ monitor' = "exited"
    /\ UNCHANGED <<runVars, endVars, readerVars, writerVars, sendQ, job, metadataChanged>>

JobGoes(j, s) ==
    /\ job' = [job EXCEPT ![j] = s]
    /\ UNCHANGED <<runVars, endVars, readerVars, writerVars, monitor, metadataChanged>>

\* The upstream call makes progress and has a frame to send, or it ends.
JobAnswers(j) == job[j] = "work" /\ ~sessionCtx /\ JobGoes(j, "send") /\ UNCHANGED sendQ
JobEnds(j)    == job[j] = "work" /\ ~sessionCtx /\ JobGoes(j, "free") /\ UNCHANGED sendQ

\* Its context is cancelled: a request ends silently, an update reports its failure.
JobAborts(j) ==
    /\ job[j] = "work" /\ sessionCtx
    /\ JobGoes(j, "free") \/ JobGoes(j, "send")
    /\ UNCHANGED sendQ

JobSends(j) ==
    /\ job[j] = "send"
    /\ Send
    /\ JobGoes(j, "free") \/ (~sessionCtx /\ JobGoes(j, "work"))

-----------------------------------------------------------------------------
SessionInit ==
    /\ run = "idle" /\ result = "none"
    /\ ctx = FALSE /\ sessionCtx = FALSE /\ done = FALSE /\ link = "up"
    /\ reader = "off" /\ readErr = "none"
    /\ writer = "off" /\ writeErr = "none"
    /\ monitor = "off"
    /\ sendQ = 0
    /\ job = [j \in Job |-> "free"]
    /\ metadataChanged = FALSE

RunStep == Select \/ CloseConn \/ WaitReader \/ Cancel \/ WaitMonitor \/ WaitGroup

\* What the reader does whether or not frames arrive.
ReaderStep == ReadFails \/ ReadCanceled \/ Dispatch \/ Add \/ ReaderSends

ReadFrame ==
    \/ ReadRequest \/ ReadUpdate \/ ReadRefusedUpdate \/ ReadRevoked \/ ReadDisconnect
    \/ ReadOverflow

WriterStep == WriterStops \/ Write

SessionNext ==
    \/ \E how \in {"closed", "broken"} : LinkEnds(how)
    \/ Shutdown \/ Notify
    \/ DialFails \/ Connected \/ RunStep \/ NextSession
    \/ ReadFrame \/ ReaderStep
    \/ WriterTakes \/ WriterStep
    \/ MonitorProbes \/ MonitorStops
    \/ \E j \in Job : JobAnswers(j) \/ JobEnds(j) \/ JobAborts(j) \/ JobSends(j)

SessionSpec == SessionInit /\ [][SessionNext]_sessionVars

\* Go schedules every goroutine that can run; sendFrame has a timer, upstream calls
\* observe their context.  The bytes left behind by a connection that ended are finite:
\* the reader comes to their end.  Nothing forces the gateway, the link or a signal.
SessionFairness ==
    /\ SF_sessionVars(ReadFails)
    /\ WF_sessionVars(RunStep) /\ WF_sessionVars(ReaderStep)
    /\ WF_sessionVars(WriterStep) /\ WF_sessionVars(MonitorStops)
    /\ \A j \in Job : WF_sessionVars(JobAborts(j) \/ JobSends(j))

-----------------------------------------------------------------------------
SessionTypeOK ==
    /\ run \in {"idle", "select", "close", "reader", "cancel", "monitor", "group", "returned"}
    /\ result \in Error \cup {"none", "nil"}
    /\ ctx \in BOOLEAN /\ sessionCtx \in BOOLEAN /\ done \in BOOLEAN
    /\ link \in {"up", "closed", "broken"}
    /\ reader \in {"off", "read", "dispatch", "add", "send", "exited"}
    /\ readErr \in Error \cup {"none", "nil"}
    /\ writer \in {"off", "idle", "write", "exited"}
    /\ writeErr \in Error \cup {"none", "nil"}
    /\ monitor \in {"off", "idle", "probe", "exited"}
    /\ sendQ \in 0..QueueSize
    /\ job \in [Job -> {"free", "work", "send"}]
    /\ metadataChanged \in BOOLEAN

\* Run returns only when the reader, the monitor and every goroutine of the wait group
\* have ended, so that the next session never meets the pulls or updates of this one.
ReturnsAfterWork ==
    run = "returned" =>
        /\ reader \in {"off", "exited"} /\ monitor \in {"off", "exited"}
        /\ \A j \in Job : job[j] = "free"

\* No goroutine is added to the wait group once Run waits on it, whatever the reader was
\* doing when the session ended.
NoLateAdd ==
    [][\A j \in Job :
          run \in {"group", "returned"} /\ job[j] = "free" => job'[j] = "free"]_sessionVars

\* A session whose connection ended, on either side, ends Run, with whatever work was in
\* flight and whatever the send queue holds.
SessionEnds == (run = "select" /\ Broken) ~> (run = "returned")

\* Once Run leaves its select it returns: no goroutine it waits for waits for it.
ShutdownCompletes == (run = "close") ~> (run = "returned")

\* The reader passes a revocation on as a typed error so that the reconnect loop stops
\* instead of treating it like a blip: Run, with that error in its channel, returns it.
TerminalReturned ==
    [][run = "select" /\ run' = "close" /\ readErr = "terminal" /\ ~ctx
        => result' = "terminal"]_sessionVars
=============================================================================
