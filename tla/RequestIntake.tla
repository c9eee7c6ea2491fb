--------------------------- MODULE RequestIntake ---------------------------
(***************************************************************************)
(* How requests enter a session (internal/client): single Request frames,  *)
(* bodies uploaded in Start, Body and End frames, and cancels, which the   *)
(* gateway sends on a queue of their own and which overtake the frames of  *)
(* the request they cancel.                                                *)
(*                                                                         *)
(* The reader handles one frame at a time and is the only goroutine that   *)
(* touches assemblies and tombstones, so a frame is one step; handlers end *)
(* on their own.  Time passes in ticks.  A body is counted in chunks.      *)
(***************************************************************************)
EXTENDS Integers, Sequences, FiniteSets, Functions

CONSTANTS
    Request,        \* request ids; the gateway never uses one twice
    Size,           \* declared chunks of each request, 0 for a single Request frame
    MaxPending,     \* protocol.MaxPendingRequestBodies
    MaxBytes,       \* maxBufferedRequestBodyBytes, in chunks
    MaxTombstones,  \* maxCanceledRequestTombstones
    BodyTimeout,    \* requestBodyAssemblyTimeout, in ticks
    TombstoneTTL,   \* requestCancellationTombstoneTTL, in ticks
    Window,         \* longest time a frame waits in the gateway's queues, in ticks
    MaxQueued       \* bound on the frames waiting in the gateway's data queue

\* requestCancellationReorderWindow is below the tombstones' time to live.
ASSUME RequestIntakeAssumption ==
    /\ Size \in [Request -> Nat]
    /\ MaxPending \in Nat \ {0} /\ MaxBytes \in Nat /\ MaxTombstones \in Nat
    /\ BodyTimeout \in Nat /\ TombstoneTTL \in Nat
    /\ Window \in 0..TombstoneTTL /\ MaxQueued \in Nat

VARIABLES
    data,              \* the gateway's queue of request frames towards this session
    sent, withdrawn,   \* frames sent per request; requests whose cancel was sent
    requestBodies,     \* request id -> assembly, for pending uploads only
    requestBodyBytes,
    canceledRequests,  \* request id -> age of its tombstone
    active, aborted,   \* requests with a handler; those whose context is cancelled
    cancelled,         \* requests whose cancel this session has read
    answered,          \* requests that were started or answered with an error
    closed

gatewayVars == <<data, sent, withdrawn>>
bodyVars    == <<requestBodies, requestBodyBytes>>
handlerVars == <<active, aborted>>
vars == <<gatewayVars, bodyVars, canceledRequests, handlerVars, cancelled, answered, closed>>

\* The frames of a request, in order.
Frames(r) == IF Size[r] = 0 THEN <<"request">>
             ELSE <<"start">> \o [c \in 1..Size[r] |-> "body"] \o <<"end">>

\* The chunks some uploads hold, each under its request and number.
Held(bodies, ids) == UNION {{r} \X (1..bodies[r].chunks) : r \in ids}
ChunksOf(bodies, ids) == Cardinality(Held(bodies, ids))

-----------------------------------------------------------------------------
\* The gateway, and time.  A frame that has waited for the whole window goes out first.

SendFrame(r) ==
    /\ ~closed /\ Len(data) < MaxQueued
    /\ r \notin withdrawn /\ sent[r] < Len(Frames(r))
    /\ sent' = [sent EXCEPT ![r] = @ + 1]
    /\ data' = Append(data, [id |-> r, type |-> Frames(r)[sent'[r]], wait |-> 0])
    /\ UNCHANGED <<withdrawn, bodyVars, canceledRequests, handlerVars, cancelled,
                   answered, closed>>

\* The buyer goes away, possibly after the answer is already under way.  Cancels wait in
\* a queue of their own and are read at any time later.
SendCancel(r) ==
    /\ ~closed /\ r \notin withdrawn /\ sent[r] > 0
    /\ withdrawn' = withdrawn \cup {r}
    /\ UNCHANGED <<data, sent, bodyVars, canceledRequests, handlerVars, cancelled, answered,
                   closed>>

Tick ==
    /\ ~closed
    /\ \A n \in DOMAIN data : data[n].wait < Window
    /\ data' = [n \in DOMAIN data |-> [data[n] EXCEPT !.wait = @ + 1]]
    /\ requestBodies' = [r \in DOMAIN requestBodies |->
          [requestBodies[r] EXCEPT !.age = IF @ > BodyTimeout THEN @ ELSE @ + 1]]
    /\ canceledRequests' = [r \in DOMAIN canceledRequests |->
          IF canceledRequests[r] > TombstoneTTL THEN canceledRequests[r]
          ELSE canceledRequests[r] + 1]
    /\ UNCHANGED <<sent, withdrawn, requestBodyBytes, handlerVars, cancelled, answered, closed>>

-----------------------------------------------------------------------------
\* Every inbound frame first expires assemblies and tombstones: what is left of them.

\* Deviations: uploads never expire; a tombstone expires one tick early.
BodiesStay == requestBodies
ExpiresEarly == RestrictValues(canceledRequests, LAMBDA age : age < TombstoneTTL)

Bodies == RestrictValues(requestBodies, LAMBDA assembly : assembly.age <= BodyTimeout)
Tombstones == RestrictValues(canceledRequests, LAMBDA age : age <= TombstoneTTL)

Clamp(n) == IF n < 0 THEN 0 ELSE n
Bytes == Clamp(requestBodyBytes - ChunksOf(requestBodies, DOMAIN requestBodies \ DOMAIN Bodies))

Keep == requestBodies' = Bodies /\ requestBodyBytes' = Bytes

\* Deviation: the bytes of a dropped upload are not given back.
DropKeepsBytes(r) ==
    requestBodies' = Restrict(Bodies, DOMAIN Bodies \ {r}) /\ requestBodyBytes' = Bytes

\* dropRequestBodyLocked
Drop(r) ==
    /\ requestBodies' = Restrict(Bodies, DOMAIN Bodies \ {r})
    /\ requestBodyBytes' = IF r \in DOMAIN Bodies THEN Clamp(Bytes - Bodies[r].chunks) ELSE Bytes

Put(r, chunks) ==
    /\ requestBodies' = [q \in DOMAIN Bodies \cup {r} |->
          IF q = r THEN [chunks |-> chunks, age |-> 0] ELSE Bodies[q]]
    /\ requestBodyBytes' = Bytes + chunks - (IF r \in DOMAIN Bodies THEN Bodies[r].chunks ELSE 0)

\* A tombstone is refreshed by the frames that announce or carry a body, and consumed
\* by the frame that would start the request.
Marked(r)   == r \in DOMAIN Tombstones
Mark(r)     == [q \in DOMAIN Tombstones \cup {r} |-> IF q = r THEN 0 ELSE Tombstones[q]]
Consumed(r) == Restrict(Tombstones, DOMAIN Tombstones \ {r})

\* The frame at the head of the data queue reaches the reader.
Read(r, type) ==
    /\ ~closed /\ data # <<>> /\ Head(data).id = r /\ Head(data).type = type
    /\ data' = Tail(data)
    /\ UNCHANGED <<sent, withdrawn, aborted, cancelled, closed>>

\* Admission starts a handler or answers with an error.
Dispatch(r) ==
    /\ answered' = answered \cup {r}
    /\ active' = active \cup {r} \/ active' = active

Reject(r) == answered' = answered \cup {r} /\ UNCHANGED active
Ignore    == UNCHANGED <<answered, active>>

-----------------------------------------------------------------------------
\* The reader: dispatch, startRequestBody, appendRequestBody, finishRequestBody.

ReadRequest(r) ==
    /\ Read(r, "request")
    /\ Keep
    /\ canceledRequests' = Consumed(r)
    /\ IF Marked(r) THEN Ignore ELSE Dispatch(r)

\* A start is refused when it is malformed or when too many uploads are pending.  As an
\* id is used once, no start finds an upload of its own id.
ReadStart(r) ==
    /\ Read(r, "start")
    /\ canceledRequests' = IF Marked(r) THEN Mark(r) ELSE Tombstones
    /\ \/ Marked(r) /\ Keep /\ Ignore
       \/ ~Marked(r) /\ Keep /\ Reject(r)
       \/ ~Marked(r) /\ Cardinality(DOMAIN Bodies) < MaxPending /\ Put(r, 0) /\ Ignore

\* A chunk is refused when it is malformed or when the buffers would grow too large.
ReadBody(r) ==
    /\ Read(r, "body")
    /\ canceledRequests' = IF Marked(r) THEN Mark(r) ELSE Tombstones
    /\ \/ Marked(r) /\ Keep /\ Ignore
       \/ ~Marked(r) /\ Drop(r) /\ Reject(r)
       \/ /\ ~Marked(r) /\ r \in DOMAIN Bodies /\ Bytes < MaxBytes
          /\ Bodies[r].chunks < Size[r]
          /\ Put(r, Bodies[r].chunks + 1) /\ Ignore

\* Deviation: the end of an upload that is gone is ignored.
EndIgnored(r) ==
    /\ Read(r, "end")
    /\ canceledRequests' = Consumed(r)
    /\ \/ (Marked(r) \/ r \notin DOMAIN Bodies) /\ Keep /\ Ignore
       \/ /\ ~Marked(r) /\ r \in DOMAIN Bodies
          /\ Drop(r)
          /\ IF Bodies[r].chunks = Size[r] THEN Dispatch(r) ELSE Reject(r)

ReadEnd(r) ==
    /\ Read(r, "end")
    /\ canceledRequests' = Consumed(r)
    /\ \/ Marked(r) /\ Keep /\ Ignore
       \/ ~Marked(r) /\ r \notin DOMAIN Bodies /\ Keep /\ Reject(r)
       \/ /\ ~Marked(r) /\ r \in DOMAIN Bodies
          /\ Drop(r)
          /\ IF Bodies[r].chunks = Size[r] THEN Dispatch(r) ELSE Reject(r)

\* cancelRequest: an upload is dropped, a handler's context is cancelled, anything else
\* gets a tombstone; a full table of tombstones closes the session.
ReadCancel(r) ==
    /\ ~closed /\ r \in withdrawn \ cancelled
    /\ cancelled' = cancelled \cup {r}
    /\ Drop(r)
    /\ \/ /\ r \in DOMAIN Bodies \cup active
          /\ canceledRequests' = Tombstones
          /\ aborted' = aborted \cup ({r} \cap active)
          /\ UNCHANGED closed
       \/ /\ r \notin DOMAIN Bodies \cup active
          /\ ~Marked(r) /\ Cardinality(DOMAIN Tombstones) >= MaxTombstones
          /\ closed' = TRUE
          /\ canceledRequests' = Tombstones
          /\ UNCHANGED aborted
       \/ /\ r \notin DOMAIN Bodies \cup active
          /\ Marked(r) \/ Cardinality(DOMAIN Tombstones) < MaxTombstones
          /\ canceledRequests' = Mark(r)
          /\ UNCHANGED <<aborted, closed>>
    /\ UNCHANGED <<data, sent, withdrawn, active, answered>>

\* Any other frame, such as the gateway's heartbeat.
ReadHeartbeat ==
    /\ ~closed
    /\ Keep
    /\ canceledRequests' = Tombstones
    /\ UNCHANGED <<gatewayVars, handlerVars, cancelled, answered, closed>>

\* A handler returns, and finishActiveRequest forgets it.
HandlerReturns(r) ==
    /\ ~closed /\ r \in active
    /\ active' = active \ {r} /\ aborted' = aborted \ {r}
    /\ UNCHANGED <<gatewayVars, bodyVars, canceledRequests, cancelled, answered, closed>>

-----------------------------------------------------------------------------
Init ==
    /\ data = <<>>
    /\ sent = [r \in Request |-> 0] /\ withdrawn = {}
    /\ requestBodies = <<>> /\ requestBodyBytes = 0
    /\ canceledRequests = <<>>
    /\ active = {} /\ aborted = {} /\ cancelled = {} /\ answered = {}
    /\ closed = FALSE

Next ==
    \/ \E r \in Request :
          \/ SendFrame(r) \/ SendCancel(r)
          \/ ReadRequest(r) \/ ReadStart(r) \/ ReadBody(r) \/ ReadEnd(r) \/ ReadCancel(r)
          \/ HandlerReturns(r)
    \/ ReadHeartbeat \/ Tick

Spec == Init /\ [][Next]_vars

\* Queued frames and heartbeats arrive and time passes; otherwise the read deadline
\* ends the session.
FairSpec ==
    /\ Spec
    /\ WF_vars(ReadHeartbeat) /\ WF_vars(Tick)
    /\ WF_vars(\E r \in Request :
          ReadRequest(r) \/ ReadStart(r) \/ ReadBody(r) \/ ReadEnd(r) \/ ReadCancel(r))

-----------------------------------------------------------------------------
FrameType == {"request", "start", "body", "end"}
Frame     == [id : Request, type : FrameType, wait : 0..Window]

TypeOK ==
    /\ data \in Seq(Frame)
    /\ sent \in [Request -> Nat] /\ \A r \in Request : sent[r] <= Len(Frames(r))
    /\ withdrawn \subseteq Request
    /\ DOMAIN requestBodies \subseteq Request
    /\ \A r \in DOMAIN requestBodies :
          requestBodies[r] \in [chunks : 0..Size[r], age : 0..(BodyTimeout + 1)]
    /\ requestBodyBytes \in Nat
    /\ DOMAIN canceledRequests \subseteq Request
    /\ \A r \in DOMAIN canceledRequests : canceledRequests[r] \in 0..(TombstoneTTL + 1)
    /\ active \subseteq Request /\ aborted \subseteq active
    /\ cancelled \subseteq withdrawn /\ answered \subseteq Request
    /\ closed \in BOOLEAN

\* No request works for a buyer who has gone: whatever the cancel overtook, a request
\* whose cancel the session has read has no handler, or one whose context is cancelled.
CancelHonoured == ~closed => \A r \in cancelled : r \in active => r \in aborted

\* The byte counter is what the pending uploads hold, and both stay within their caps.
BytesExact ==
    /\ TypeOK
    /\ requestBodyBytes = ChunksOf(requestBodies, DOMAIN requestBodies)
    /\ requestBodyBytes <= MaxBytes
    /\ Cardinality(DOMAIN requestBodies) <= MaxPending

\* No request disappears: when its last frame has been read, a request nobody cancelled
\* was started or answered with an error, even if its upload had expired.  (The error is
\* offered to the writer's queue, which drops it when full: trySendError.)
NoSilentLoss ==
    ~closed => \A r \in Request \ withdrawn :
        /\ sent[r] = Len(Frames(r))
        /\ \A n \in DOMAIN data : data[n].id # r
        => r \in answered

\* An upload that stalls is given up, so that it cannot keep its place and its bytes.
UploadsReclaimed ==
    \A r \in Request : (r \in DOMAIN requestBodies) ~> (r \notin DOMAIN requestBodies \/ closed)
=============================================================================
