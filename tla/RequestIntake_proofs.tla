------------------------ MODULE RequestIntake_proofs ------------------------
(***************************************************************************)
(* Proofs about RequestIntake, for any requests, sizes and limits.         *)
(*                                                                         *)
(* Intake adds to the type invariant what relates the gateway's queue to   *)
(* the session's tables: a request's opening frame is its first, so that   *)
(* a request with an upload or a handler has none left in the queue; the   *)
(* tombstone of a cancelled request whose opening frame is still queued is *)
(* no older than that frame; and the counted bytes are those held.         *)
(***************************************************************************)
EXTENDS RequestIntake, FiniteSetTheorems, SequenceTheorems, TLAPS

\* Frames that open a request, and frames that complete one.
Opening == {"request", "start"}
Final   == {"request", "end"}

\* Frames are queued in the order of their request, and nothing of it before it is sent.
InOrder ==
    /\ \A n \in DOMAIN data : sent[data[n].id] > 0
    /\ \A n, k \in DOMAIN data :
          n < k /\ data[n].id = data[k].id => data[k].type \notin Opening

\* What has an upload or a handler was opened.
Opened ==
    \A r \in DOMAIN requestBodies \cup active :
        /\ sent[r] > 0
        /\ \A n \in DOMAIN data : data[n].id = r => data[n].type \notin Opening

\* A cancelled request has no upload; if it can still be opened, its tombstone is younger
\* than the frame that would.
Doomed ==
    \A r \in cancelled :
        /\ r \notin DOMAIN requestBodies
        /\ r \in active => r \in aborted
        /\ \A n \in DOMAIN data :
              data[n].id = r /\ data[n].type \in Opening
                 => r \in DOMAIN canceledRequests /\ canceledRequests[r] <= data[n].wait

\* Only cancels leave tombstones.
Buried == DOMAIN canceledRequests \subseteq cancelled

\* A request that was sent whole is answered, or its final frame is still to be read.
Pending ==
    \A r \in Request \ withdrawn :
        sent[r] = Len(Frames(r))
           => \/ r \in answered
              \/ \E n \in DOMAIN data : data[n].id = r /\ data[n].type \in Final

\* The byte counter and the caps.
Counted ==
    /\ IsFiniteSet(DOMAIN requestBodies) /\ Cardinality(DOMAIN requestBodies) <= MaxPending
    /\ IsFiniteSet(Held(requestBodies, DOMAIN requestBodies))
    /\ requestBodyBytes = ChunksOf(requestBodies, DOMAIN requestBodies)
    /\ requestBodyBytes <= MaxBytes

Intake == TypeOK /\ InOrder /\ Opened /\ (~closed => Doomed) /\ Buried /\ Pending /\ Counted
-----------------------------------------------------------------------------
\* The frames of a request: one opening frame, the first, and one final frame, the last.
LEMMA FramesShape ==
    ASSUME RequestIntakeAssumption, NEW r \in Request
    PROVE  /\ Len(Frames(r)) \in Nat \ {0}
           /\ \A k \in 1..Len(Frames(r)) :
                 /\ Frames(r)[k] \in FrameType
                 /\ Frames(r)[k] \in Opening => k = 1
                 /\ k = Len(Frames(r)) => Frames(r)[k] \in Final
<1>1. Size[r] \in Nat BY DEF RequestIntakeAssumption
<1>2. CASE Size[r] = 0
    <2>1. Frames(r) = <<"request">> BY <1>2 DEF Frames
    <2> QED BY <2>1 DEF FrameType, Opening, Final
<1>3. CASE Size[r] # 0
    <2> DEFINE body == [c \in 1..Size[r] |-> "body"]
    <2>1. Frames(r) = (<<"start">> \o body) \o <<"end">> BY <1>3 DEF Frames
    <2>2. body \in Seq(FrameType) /\ Len(body) = Size[r] /\ \A c \in 1..Size[r] : body[c] = "body"
        BY <1>1 DEF FrameType
    <2> HIDE DEF body
    <2> DEFINE first == <<"start">>
               last  == <<"end">>
               upper == first \o body
    <2>3. /\ first \in Seq(FrameType) /\ Len(first) = 1 /\ first[1] = "start"
          /\ last \in Seq(FrameType) /\ Len(last) = 1 /\ last[1] = "end" BY DEF FrameType
    <2>0. Frames(r) = (first \o body) \o last BY <2>1
    <2> HIDE DEF first, last
    <2>4. /\ upper \in Seq(FrameType) /\ Len(upper) = Size[r] + 1
          /\ \A k \in 1..(Size[r] + 1) : upper[k] = IF k = 1 THEN "start" ELSE "body"
        <3>1. /\ upper \in Seq(FrameType) /\ Len(upper) = Len(first) + Len(body)
              /\ \A k \in 1..(Len(first) + Len(body)) :
                    upper[k] = IF k <= Len(first) THEN first[k] ELSE body[k - Len(first)]
            BY ONLY <2>2, <2>3, ConcatProperties
        <3> HIDE DEF upper
        <3>2. Len(first) + Len(body) = Size[r] + 1 BY <1>1, <2>2, <2>3
        <3>3. ASSUME NEW k \in 1..(Size[r] + 1)
              PROVE  upper[k] = IF k = 1 THEN "start" ELSE "body"
            <4>1. CASE k = 1 BY <1>1, <2>3, <3>1, <3>2, <4>1
            <4>2. CASE k # 1
                <5>1. k - 1 \in 1..Size[r] /\ ~(k <= 1) BY <1>1, <4>2
                <5> QED BY <2>2, <2>3, <3>1, <3>2, <4>2, <5>1
            <4> QED BY <4>1, <4>2
        <3> QED BY <3>1, <3>2, <3>3
    <2> HIDE DEF upper
    <2>6. /\ Len(upper \o last) = Len(upper) + Len(last)
          /\ \A k \in 1..(Len(upper) + Len(last)) :
                (upper \o last)[k] = IF k <= Len(upper) THEN upper[k] ELSE last[k - Len(upper)]
        <3>1. upper \in Seq(FrameType) /\ last \in Seq(FrameType) BY <2>3, <2>4
        <3> QED BY ONLY <3>1, ConcatProperties
    <2>7. Frames(r) = upper \o last BY <2>0 DEF upper
    <2>5. /\ Len(Frames(r)) = Size[r] + 2
          /\ \A k \in 1..(Size[r] + 2) :
                Frames(r)[k] = IF k = 1 THEN "start" ELSE IF k = Size[r] + 2 THEN "end" ELSE "body"
        BY <1>1, <2>3, <2>4, <2>6, <2>7
    <2> QED BY <1>1, <1>3, <2>5 DEF FrameType, Opening, Final
<1> QED BY <1>2, <1>3

\* The bytes of disjoint sets of uploads add up.
LEMMA HeldSplit ==
    ASSUME NEW b, NEW A, NEW B, A \cap B = {}, IsFiniteSet(Held(b, A \cup B))
    PROVE  /\ IsFiniteSet(Held(b, A)) /\ IsFiniteSet(Held(b, B))
           /\ ChunksOf(b, A) \in Nat /\ ChunksOf(b, B) \in Nat
           /\ ChunksOf(b, A \cup B) = ChunksOf(b, A) + ChunksOf(b, B)
<1>1. Held(b, A \cup B) = Held(b, A) \cup Held(b, B) BY DEF Held
<1>2. Held(b, A) \cap Held(b, B) = {} BY DEF Held
<1>3. IsFiniteSet(Held(b, A)) /\ IsFiniteSet(Held(b, B)) BY <1>1, FS_Subset
<1>4. Cardinality(Held(b, A)) \in Nat /\ Cardinality(Held(b, B)) \in Nat
    BY <1>3, FS_CardinalityType
<1>5. /\ Cardinality(Held(b, A) \cup Held(b, B))
            = Cardinality(Held(b, A)) + Cardinality(Held(b, B)) - Cardinality({})
      /\ Cardinality({}) = 0
    BY <1>2, <1>3, FS_Union, FS_EmptySet
<1> QED BY <1>1, <1>3, <1>4, <1>5 DEF ChunksOf

\* One upload holds its chunks.
LEMMA HeldOne ==
    ASSUME NEW b, NEW r, b[r].chunks \in Nat
    PROVE  IsFiniteSet(Held(b, {r})) /\ ChunksOf(b, {r}) = b[r].chunks
<1> DEFINE n == b[r].chunks
<1>1. Held(b, {r}) = {r} \X (1..n) /\ n \in Nat BY DEF Held
<1> HIDE DEF n
<1>2. IsFiniteSet(1..n) /\ Cardinality(1..n) = IF 1 > n THEN 0 ELSE n - 1 + 1
    <2>1. 1 \in Int /\ n \in Int BY <1>1
    <2> QED BY ONLY <2>1, FS_Interval
<1>3. IsFiniteSet({r}) /\ Cardinality({r}) = 1 BY FS_Singleton
<1>4. IsFiniteSet({r} \X (1..n)) /\ Cardinality({r} \X (1..n)) = 1 * Cardinality(1..n)
    BY <1>2, <1>3, FS_Product
<1>5. Cardinality(1..n) = n BY <1>1, <1>2
<1>6. 1 * n = n BY <1>1
<1>7. IsFiniteSet(Held(b, {r})) /\ Cardinality(Held(b, {r})) = n BY <1>1, <1>4, <1>5, <1>6
<1> QED BY <1>7 DEF ChunksOf, n

\* Only the numbers of chunks matter.
LEMMA HeldSame ==
    ASSUME NEW b, NEW c, NEW A, \A r \in A : b[r].chunks = c[r].chunks
    PROVE  Held(b, A) = Held(c, A) /\ ChunksOf(b, A) = ChunksOf(c, A)
<1>1. Held(b, A) = Held(c, A) BY DEF Held
<1> QED BY <1>1 DEF ChunksOf

-----------------------------------------------------------------------------
\* What expiry leaves of the uploads and of the tombstones.
LEMMA Expired ==
    /\ Bodies = [r \in {q \in DOMAIN requestBodies : requestBodies[q].age <= BodyTimeout}
                   |-> requestBodies[r]]
    /\ Tombstones = [r \in {q \in DOMAIN canceledRequests : canceledRequests[q] <= TombstoneTTL}
                       |-> canceledRequests[r]]
<1>1. Bodies = [r \in {q \in DOMAIN requestBodies : requestBodies[q].age <= BodyTimeout}
                   |-> requestBodies[r]]
    BY DEF Bodies, RestrictValues, Restrict
<1>2. Tombstones = [r \in {q \in DOMAIN canceledRequests : canceledRequests[q] <= TombstoneTTL}
                       |-> canceledRequests[r]]
    BY DEF Tombstones, RestrictValues, Restrict
<1> QED BY <1>1, <1>2

\* After expiry the counter is what is left, and the caps still hold.
LEMMA BytesLeft ==
    ASSUME RequestIntakeAssumption, TypeOK, Counted
    PROVE  /\ DOMAIN Bodies \subseteq DOMAIN requestBodies
           /\ \A r \in DOMAIN Bodies : Bodies[r] = requestBodies[r] /\ Bodies[r].chunks \in Nat
           /\ IsFiniteSet(DOMAIN Bodies) /\ Cardinality(DOMAIN Bodies) <= MaxPending
           /\ IsFiniteSet(Held(Bodies, DOMAIN Bodies))
           /\ Bytes = ChunksOf(Bodies, DOMAIN Bodies) /\ Bytes \in Nat /\ Bytes <= MaxBytes
<1> DEFINE D == DOMAIN requestBodies
           L == DOMAIN Bodies
<1>1. /\ L \subseteq D /\ \A r \in L : Bodies[r] = requestBodies[r]
    BY Expired
<1>2. \A r \in D : requestBodies[r].chunks \in Nat
    BY DEF TypeOK, RequestIntakeAssumption
<1>3. IsFiniteSet(L) /\ Cardinality(L) <= Cardinality(D) /\ Cardinality(L) \in Nat
      /\ Cardinality(D) \in Nat
    BY <1>1, FS_Subset, FS_CardinalityType DEF Counted
<1>4. Cardinality(L) <= MaxPending BY <1>3 DEF Counted, RequestIntakeAssumption
<1>5. L \cup (D \ L) = D /\ L \cap (D \ L) = {} BY <1>1
<1>6. /\ IsFiniteSet(Held(requestBodies, L))
      /\ ChunksOf(requestBodies, L) \in Nat /\ ChunksOf(requestBodies, D \ L) \in Nat
      /\ ChunksOf(requestBodies, D) = ChunksOf(requestBodies, L) + ChunksOf(requestBodies, D \ L)
    <2>1. IsFiniteSet(Held(requestBodies, L \cup (D \ L))) BY <1>5 DEF Counted
    <2> HIDE DEF L, D
    <2> QED BY ONLY <1>5, <2>1, HeldSplit
<1>7. /\ Held(Bodies, L) = Held(requestBodies, L)
      /\ ChunksOf(Bodies, L) = ChunksOf(requestBodies, L)
    BY <1>1, HeldSame
<1> HIDE DEF L, D
<1>8. Bytes = ChunksOf(requestBodies, L)
    BY <1>6 DEF Bytes, Clamp, Counted, L, D
<1>9. Bytes <= MaxBytes
    BY <1>6, <1>8 DEF Counted, RequestIntakeAssumption, TypeOK, D
<1> QED BY <1>1, <1>2, <1>3, <1>4, <1>6, <1>7, <1>8, <1>9 DEF L, D

\* The bytes of one upload and those of the others.
LEMMA BytesOfOne ==
    ASSUME RequestIntakeAssumption, TypeOK, Counted, NEW r
    PROVE  /\ IsFiniteSet(Held(Bodies, DOMAIN Bodies \ {r}))
           /\ ChunksOf(Bodies, DOMAIN Bodies \ {r}) \in Nat
           /\ Bytes = ChunksOf(Bodies, DOMAIN Bodies \ {r})
                      + (IF r \in DOMAIN Bodies THEN Bodies[r].chunks ELSE 0)
<1> DEFINE L == DOMAIN Bodies
<1>1. CASE r \in L
    <2>1. (L \ {r}) \cup {r} = L /\ (L \ {r}) \cap {r} = {} BY <1>1
    <2>2. /\ IsFiniteSet(Held(Bodies, L \ {r})) /\ ChunksOf(Bodies, L \ {r}) \in Nat
          /\ ChunksOf(Bodies, L) = ChunksOf(Bodies, L \ {r}) + ChunksOf(Bodies, {r})
        <3> DEFINE A == L \ {r}
        <3>1. IsFiniteSet(Held(Bodies, A \cup {r})) /\ A \cap {r} = {} /\ A \cup {r} = L
            BY <2>1, BytesLeft
        <3> HIDE DEF A, L
        <3>2. /\ IsFiniteSet(Held(Bodies, A)) /\ ChunksOf(Bodies, A) \in Nat
              /\ ChunksOf(Bodies, A \cup {r}) = ChunksOf(Bodies, A) + ChunksOf(Bodies, {r})
            BY <3>1, HeldSplit
        <3> QED BY <3>1, <3>2 DEF A
    <2>3. ChunksOf(Bodies, {r}) = Bodies[r].chunks BY <1>1, BytesLeft, HeldOne
    <2> QED BY <1>1, <2>2, <2>3, BytesLeft
<1>2. CASE r \notin L
    <2>1. L \ {r} = L BY <1>2
    <2> QED BY <1>2, <2>1, BytesLeft
<1> QED BY <1>1, <1>2

\* Expiry alone keeps the count.
LEMMA KeepCounts == ASSUME RequestIntakeAssumption, TypeOK, Counted, Keep PROVE Counted'
<1> QED BY BytesLeft DEF Keep, Counted

\* Dropping an upload gives its bytes back.
LEMMA DropCounts == ASSUME RequestIntakeAssumption, TypeOK, Counted, NEW r, Drop(r) PROVE Counted'
<1> DEFINE rest == DOMAIN Bodies \ {r}
<1>1. /\ DOMAIN requestBodies' = rest /\ \A q \in rest : requestBodies'[q] = Bodies[q]
      /\ requestBodyBytes' = IF r \in DOMAIN Bodies THEN Clamp(Bytes - Bodies[r].chunks) ELSE Bytes
    BY DEF Drop, Restrict
<1>2. requestBodyBytes' = ChunksOf(Bodies, rest)
    <2>1. CASE r \in DOMAIN Bodies
        <3>1. Bytes - Bodies[r].chunks = ChunksOf(Bodies, rest) /\ ChunksOf(Bodies, rest) \in Nat
            BY <2>1, BytesOfOne, BytesLeft
        <3> QED BY <1>1, <2>1, <3>1 DEF Clamp
    <2>2. CASE r \notin DOMAIN Bodies
        <3>0. rest = DOMAIN Bodies BY <2>2
        <3>1. Bytes = ChunksOf(Bodies, rest) BY <3>0, BytesLeft
        <3> QED BY <1>1, <2>2, <3>1
    <2> QED BY <2>1, <2>2
<1>3. /\ Held(requestBodies', rest) = Held(Bodies, rest)
      /\ ChunksOf(requestBodies', rest) = ChunksOf(Bodies, rest)
    BY <1>1, HeldSame
<1>4. ChunksOf(Bodies, rest) <= MaxBytes
    BY BytesOfOne, BytesLeft DEF RequestIntakeAssumption
<1>5. IsFiniteSet(rest) /\ Cardinality(rest) <= MaxPending
    <2>1. /\ IsFiniteSet(rest) /\ Cardinality(rest) \in Nat /\ Cardinality(DOMAIN Bodies) \in Nat
          /\ Cardinality(rest) <= Cardinality(DOMAIN Bodies)
        BY BytesLeft, FS_Subset, FS_CardinalityType
    <2> QED BY <2>1, BytesLeft DEF RequestIntakeAssumption
<1> QED BY <1>1, <1>2, <1>3, <1>4, <1>5, BytesOfOne DEF Counted

\* Adding a chunk, or beginning an upload where there is room, keeps count and caps.
LEMMA PutCounts ==
    ASSUME RequestIntakeAssumption, TypeOK, Counted, NEW r, NEW c \in Nat, Put(r, c),
           \/ r \in DOMAIN Bodies /\ c = Bodies[r].chunks + 1 /\ Bytes < MaxBytes
           \/ c = 0 /\ Cardinality(DOMAIN Bodies) < MaxPending
    PROVE  Counted'
<1> DEFINE rest == DOMAIN Bodies \ {r}
<1>1. /\ DOMAIN requestBodies' = rest \cup {r} /\ requestBodies'[r].chunks = c
      /\ \A q \in rest : requestBodies'[q] = Bodies[q]
    BY DEF Put
<1>2. requestBodyBytes' = ChunksOf(Bodies, rest) + c
    <2>1. requestBodyBytes' = Bytes + c - (IF r \in DOMAIN Bodies THEN Bodies[r].chunks ELSE 0)
        BY DEF Put
    <2> QED BY <2>1, BytesOfOne, BytesLeft
<1>3. /\ Held(requestBodies', rest) = Held(Bodies, rest)
      /\ ChunksOf(requestBodies', rest) = ChunksOf(Bodies, rest)
    BY <1>1, HeldSame
<1>4. IsFiniteSet(Held(requestBodies', {r})) /\ ChunksOf(requestBodies', {r}) = c
    BY <1>1, HeldOne
<1>5. IsFiniteSet(Held(requestBodies', rest \cup {r}))
    <2>1. Held(requestBodies', rest \cup {r})
            = Held(requestBodies', rest) \cup Held(requestBodies', {r}) BY DEF Held
    <2>2. IsFiniteSet(Held(requestBodies', rest)) BY <1>3, BytesOfOne
    <2> QED BY ONLY <1>4, <2>1, <2>2, FS_Union
<1>6. ChunksOf(requestBodies', rest \cup {r}) = ChunksOf(Bodies, rest) + c
    <2>1. rest \cap {r} = {} OBVIOUS
    <2>2. ChunksOf(requestBodies', rest \cup {r})
            = ChunksOf(requestBodies', rest) + ChunksOf(requestBodies', {r})
        BY ONLY <2>1, <1>5, HeldSplit
    <2> QED BY ONLY <1>3, <1>4, <2>2
<1>7. ChunksOf(Bodies, rest) + c <= MaxBytes
    BY BytesOfOne, BytesLeft DEF RequestIntakeAssumption
<1>8. IsFiniteSet(rest \cup {r}) /\ Cardinality(rest \cup {r}) <= MaxPending
    <2>1. CASE r \in DOMAIN Bodies
        <3>1. rest \cup {r} = DOMAIN Bodies BY <2>1
        <3> QED BY <3>1, BytesLeft
    <2>2. CASE r \notin DOMAIN Bodies
        <3>1. rest \cup {r} = DOMAIN Bodies \cup {r} OBVIOUS
        <3>2. /\ IsFiniteSet(DOMAIN Bodies \cup {r})
              /\ Cardinality(DOMAIN Bodies \cup {r}) = Cardinality(DOMAIN Bodies) + 1
            BY <2>2, BytesLeft, FS_AddElement
        <3>3. Cardinality(DOMAIN Bodies) \in Nat BY BytesLeft, FS_CardinalityType
        <3> QED BY <2>2, <3>1, <3>2, <3>3 DEF RequestIntakeAssumption
    <2> QED BY <2>1, <2>2
<1> QED BY <1>1, <1>2, <1>5, <1>6, <1>7, <1>8 DEF Counted

\* Age does not count.
LEMMA TickCounts == ASSUME RequestIntakeAssumption, TypeOK, Counted, Tick PROVE Counted'
<1>1. /\ DOMAIN requestBodies' = DOMAIN requestBodies /\ UNCHANGED requestBodyBytes
      /\ \A r \in DOMAIN requestBodies : requestBodies'[r].chunks = requestBodies[r].chunks
    BY DEF Tick, TypeOK
<1>2. Held(requestBodies', DOMAIN requestBodies) = Held(requestBodies, DOMAIN requestBodies)
    BY <1>1 DEF Held
<1> QED BY <1>1, <1>2 DEF Counted, ChunksOf

-----------------------------------------------------------------------------
\* The types of the table of uploads and of its counter.
TableTypes ==
    /\ DOMAIN requestBodies \subseteq Request
    /\ \A r \in DOMAIN requestBodies :
          requestBodies[r] \in [chunks : 0..Size[r], age : 0..(BodyTimeout + 1)]
    /\ requestBodyBytes \in Nat

\* Expiry keeps them.
LEMMA KeepTyped ==
    ASSUME RequestIntakeAssumption, TypeOK, Counted, Keep PROVE TableTypes'
<1> QED BY BytesLeft DEF Keep, TypeOK, TableTypes

\* So does dropping an upload.
LEMMA DropTyped ==
    ASSUME RequestIntakeAssumption, TypeOK, Counted, NEW r, Drop(r) PROVE TableTypes'
<1>1. /\ DOMAIN requestBodies' = DOMAIN Bodies \ {r}
      /\ \A q \in DOMAIN Bodies \ {r} : requestBodies'[q] = requestBodies[q]
    BY BytesLeft DEF Drop, Restrict
<1>2. requestBodyBytes' \in Nat BY BytesLeft DEF Drop, Clamp
<1> QED BY <1>1, <1>2, BytesLeft DEF TypeOK, TableTypes

\* And so does setting one.
LEMMA PutTyped ==
    ASSUME RequestIntakeAssumption, TypeOK, Counted, NEW r \in Request, NEW c \in 0..Size[r],
           Put(r, c)
    PROVE  TableTypes'
<1>1. /\ DOMAIN requestBodies' = DOMAIN Bodies \cup {r}
      /\ requestBodies'[r] = [chunks |-> c, age |-> 0]
      /\ \A q \in DOMAIN Bodies \ {r} : requestBodies'[q] = requestBodies[q]
    BY BytesLeft DEF Put
<1>2. c \in Nat BY DEF RequestIntakeAssumption
<1>3. requestBodyBytes' \in Nat
    <2>1. requestBodyBytes' = Bytes + c - (IF r \in DOMAIN Bodies THEN Bodies[r].chunks ELSE 0)
        BY DEF Put
    <2>2. CASE r \in DOMAIN Bodies
        <3> DEFINE others == ChunksOf(Bodies, DOMAIN Bodies \ {r})
                   own    == Bodies[r].chunks
        <3>1. others \in Nat /\ Bytes = others + own BY <2>2, BytesOfOne
        <3>2. own \in Nat BY <2>2, BytesLeft
        <3>3. requestBodyBytes' = Bytes + c - own BY <2>1, <2>2
        <3> HIDE DEF others, own
        <3> QED BY <1>2, <3>1, <3>2, <3>3
    <2>3. CASE r \notin DOMAIN Bodies BY <1>2, <2>1, <2>3, BytesLeft
    <2> QED BY <2>2, <2>3
<1>4. \A q \in DOMAIN requestBodies' :
        requestBodies'[q] \in [chunks : 0..Size[q], age : 0..(BodyTimeout + 1)]
    <2>1. [chunks |-> c, age |-> 0] \in [chunks : 0..Size[r], age : 0..(BodyTimeout + 1)]
        BY DEF RequestIntakeAssumption
    <2>2. ASSUME NEW q \in DOMAIN Bodies
          PROVE  Bodies[q] \in [chunks : 0..Size[q], age : 0..(BodyTimeout + 1)]
        <3>1. q \in DOMAIN requestBodies /\ Bodies[q] = requestBodies[q] BY BytesLeft
        <3> QED BY <3>1 DEF TypeOK
    <2>3. \A q \in DOMAIN Bodies \ {r} : requestBodies'[q] = Bodies[q] BY DEF Put
    <2> QED BY ONLY <1>1, <2>1, <2>2, <2>3
<1>5. DOMAIN Bodies \subseteq Request BY BytesLeft DEF TypeOK
<1> QED BY ONLY <1>1, <1>3, <1>4, <1>5, r \in Request DEF TableTypes

\* The types of the table of tombstones.
TombTypes ==
    /\ DOMAIN canceledRequests \subseteq Request
    /\ \A r \in DOMAIN canceledRequests : canceledRequests[r] \in 0..(TombstoneTTL + 1)

\* Tombstones that stay, are set or are consumed are typed.
LEMMA TombsTyped ==
    ASSUME RequestIntakeAssumption, TypeOK, NEW r \in Request,
           \/ canceledRequests' = Tombstones \/ canceledRequests' = Mark(r)
           \/ canceledRequests' = Consumed(r)
    PROVE  TombTypes'
<1>1. /\ DOMAIN Tombstones \subseteq DOMAIN canceledRequests
      /\ \A q \in DOMAIN Tombstones : Tombstones[q] = canceledRequests[q]
    BY Expired
<1>2. CASE canceledRequests' = Tombstones BY <1>1, <1>2 DEF TypeOK, TombTypes
<1>3. CASE canceledRequests' = Mark(r)
    <2>1. /\ DOMAIN canceledRequests' = DOMAIN Tombstones \cup {r}
          /\ \A q \in DOMAIN Tombstones \cup {r} :
                canceledRequests'[q] = IF q = r THEN 0 ELSE Tombstones[q]
        BY <1>3 DEF Mark
    <2>2. 0 \in 0..(TombstoneTTL + 1) BY DEF RequestIntakeAssumption
    <2> QED BY <1>1, <2>1, <2>2 DEF TypeOK, TombTypes
<1>4. CASE canceledRequests' = Consumed(r)
    BY <1>1, <1>4 DEF TypeOK, TombTypes, Consumed, Restrict
<1> QED BY <1>2, <1>3, <1>4

-----------------------------------------------------------------------------
\* A tombstone that can still be needed has not expired.
LEMMA TombstonesLast ==
    ASSUME RequestIntakeAssumption, TypeOK, Doomed, NEW q \in cancelled, NEW n \in DOMAIN data,
           data[n].id = q, data[n].type \in Opening
    PROVE  q \in DOMAIN Tombstones /\ Tombstones[q] <= data[n].wait
<1>1. q \in DOMAIN canceledRequests /\ canceledRequests[q] <= data[n].wait BY DEF Doomed
<1>2. data[n] \in Frame BY DEF TypeOK
<1>3. canceledRequests[q] \in Nat BY <1>1 DEF TypeOK
<1>4. canceledRequests[q] <= TombstoneTTL BY <1>1, <1>2, <1>3 DEF Frame, RequestIntakeAssumption
<1> QED BY <1>1, <1>4, Expired

\* Reading the head of the queue: what is left of the queue has its order, and no frame
\* that opens the request of the head.
LEMMA HeadRead ==
    ASSUME TypeOK, InOrder, NEW r \in Request, NEW type, Read(r, type)
    PROVE  /\ 1 \in DOMAIN data /\ data[1].id = r /\ data[1].type = type /\ data' \in Seq(Frame)
           /\ \A n \in DOMAIN data' : n + 1 \in DOMAIN data /\ data'[n] = data[n + 1]
           /\ \A n \in DOMAIN data : n # 1 => n - 1 \in DOMAIN data' /\ data'[n - 1] = data[n]
           /\ \A n \in DOMAIN data' : data'[n].id = r => data'[n].type \notin Opening
           /\ InOrder' /\ sent[r] > 0
<1>1. data \in Seq(Frame) /\ data # <<>> /\ data' = Tail(data)
      /\ Head(data).id = r /\ Head(data).type = type /\ sent' = sent
    BY DEF TypeOK, Read
<1>2. /\ Tail(data) \in Seq(Frame) /\ Len(Tail(data)) = Len(data) - 1
      /\ \A n \in 1..Len(Tail(data)) : Tail(data)[n] = data[n + 1]
    BY <1>1, HeadTailProperties
<1>3. /\ Len(data) \in Nat \ {0} /\ DOMAIN data = 1..Len(data) /\ Head(data) = data[1]
    BY <1>1, EmptySeq, LenProperties
<1>4. DOMAIN data' = 1..(Len(data) - 1) BY <1>1, <1>2, LenProperties
<1>5. \A n \in DOMAIN data' : n + 1 \in DOMAIN data /\ data'[n] = data[n + 1]
    BY <1>1, <1>2, <1>3, <1>4
<1>6. \A n \in DOMAIN data : n # 1 => n - 1 \in DOMAIN data' /\ data'[n - 1] = data[n]
    BY <1>1, <1>2, <1>3, <1>4
<1>7. 1 \in DOMAIN data /\ data[1].id = r /\ data[1].type = type BY <1>1, <1>3
<1>8. \A n \in DOMAIN data' : n \in Nat /\ 1 <= n BY <1>3, <1>4
<1>9. \A n \in DOMAIN data' : data'[n].id = r => data'[n].type \notin Opening
    BY <1>5, <1>7, <1>8 DEF InOrder
<1>10. InOrder'
    <2>1. \A n \in DOMAIN data' : sent'[data'[n].id] > 0 BY <1>1, <1>5 DEF InOrder
    <2>2. ASSUME NEW n \in DOMAIN data', NEW k \in DOMAIN data', n < k, data'[n].id = data'[k].id
          PROVE  data'[k].type \notin Opening
        BY <1>5, <1>8, <2>2 DEF InOrder
    <2> QED BY <2>1, <2>2 DEF InOrder
<1> QED BY <1>1, <1>2, <1>5, <1>6, <1>7, <1>9, <1>10 DEF InOrder

\* What a frame of a request may do to the session's tables without breaking the invariant.
LEMMA ReadStep ==
    ASSUME RequestIntakeAssumption, Intake, NEW r \in Request, NEW type, Read(r, type),
           TableTypes', Counted',
           \/ canceledRequests' = Tombstones \/ canceledRequests' = Consumed(r)
           \/ Marked(r) /\ canceledRequests' = Mark(r),
           DOMAIN requestBodies' \subseteq DOMAIN requestBodies \cup {r},
           active \subseteq active', active' \subseteq active \cup {r},
           answered \subseteq answered', answered' \subseteq answered \cup {r},
           r \in cancelled => r \notin DOMAIN requestBodies' /\ (r \in active' => r \in active),
           type \in Final /\ r \notin withdrawn => r \in answered'
    PROVE  Intake'
<1>1. TypeOK /\ InOrder /\ Opened /\ Doomed /\ Buried /\ Pending /\ ~closed
    BY DEF Intake, Read
<1>2. UNCHANGED <<sent, withdrawn, aborted, cancelled, closed>> BY DEF Read
<1>3. /\ 1 \in DOMAIN data /\ data[1].id = r /\ data[1].type = type /\ data' \in Seq(Frame)
      /\ \A n \in DOMAIN data' : n + 1 \in DOMAIN data /\ data'[n] = data[n + 1]
      /\ \A n \in DOMAIN data : n # 1 => n - 1 \in DOMAIN data' /\ data'[n - 1] = data[n]
      /\ \A n \in DOMAIN data' : data'[n].id = r => data'[n].type \notin Opening
      /\ InOrder' /\ sent[r] > 0
    BY <1>1, HeadRead
<1>4. TypeOK'
    <2>1. TombTypes' BY <1>1, TombsTyped
    <2> QED BY <1>1, <1>2, <1>3, <2>1 DEF TypeOK, TableTypes, TombTypes
<1>5. Opened'
    <2> SUFFICES ASSUME NEW q \in DOMAIN requestBodies' \cup active'
                 PROVE  /\ sent'[q] > 0
                        /\ \A n \in DOMAIN data' : data'[n].id = q => data'[n].type \notin Opening
        BY DEF Opened
    <2>1. CASE q = r BY <1>2, <1>3, <2>1
    <2>2. CASE q # r
        <3>1. q \in DOMAIN requestBodies \cup active BY <2>2
        <3> QED BY <1>1, <1>2, <1>3, <3>1 DEF Opened
    <2> QED BY <2>1, <2>2
<1>6. /\ DOMAIN Tombstones \subseteq DOMAIN canceledRequests
      /\ DOMAIN canceledRequests' \subseteq DOMAIN Tombstones
      /\ \A q \in DOMAIN Tombstones :
            q # r => q \in DOMAIN canceledRequests' /\ canceledRequests'[q] = Tombstones[q]
    <2>1. DOMAIN Tombstones \subseteq DOMAIN canceledRequests BY Expired
    <2>2. CASE canceledRequests' = Tombstones BY <2>1, <2>2
    <2>3. CASE canceledRequests' = Consumed(r) BY <2>1, <2>3 DEF Consumed, Restrict
    <2>4. CASE Marked(r) /\ canceledRequests' = Mark(r) BY <2>1, <2>4 DEF Mark, Marked
    <2> QED BY <2>2, <2>3, <2>4
<1>7. Doomed'
    <2> SUFFICES ASSUME NEW q \in cancelled
                 PROVE  /\ q \notin DOMAIN requestBodies'
                        /\ q \in active' => q \in aborted
                        /\ \A n \in DOMAIN data' :
                              data'[n].id = q /\ data'[n].type \in Opening
                                 => /\ q \in DOMAIN canceledRequests'
                                    /\ canceledRequests'[q] <= data'[n].wait
        BY <1>2 DEF Doomed
    <2>1. q \notin DOMAIN requestBodies' BY <1>1 DEF Doomed
    <2>2. q \in active' => q \in aborted BY <1>1 DEF Doomed
    <2>3. ASSUME NEW n \in DOMAIN data', data'[n].id = q, data'[n].type \in Opening
          PROVE  q \in DOMAIN canceledRequests' /\ canceledRequests'[q] <= data'[n].wait
        <3>1. q # r BY <1>3, <2>3
        <3>2. n + 1 \in DOMAIN data /\ data'[n] = data[n + 1] BY <1>3
        <3>3. q \in DOMAIN Tombstones /\ Tombstones[q] <= data[n + 1].wait
            BY <1>1, <2>3, <3>2, TombstonesLast
        <3> QED BY <1>6, <3>1, <3>2, <3>3
    <2> QED BY <2>1, <2>2, <2>3
<1>8. Buried' BY <1>1, <1>2, <1>6 DEF Buried
<1>9. Pending'
    <2> SUFFICES ASSUME NEW q \in Request \ withdrawn, sent[q] = Len(Frames(q)), q \notin answered'
                 PROVE  \E n \in DOMAIN data' : data'[n].id = q /\ data'[n].type \in Final
        BY <1>2 DEF Pending
    <2>1. PICK n \in DOMAIN data : data[n].id = q /\ data[n].type \in Final BY <1>1 DEF Pending
    <2>2. n # 1 BY <1>3, <2>1
    <2>3. n - 1 \in DOMAIN data' /\ data'[n - 1] = data[n] BY <1>3, <2>2
    <2> QED BY <2>1, <2>3
<1> QED BY <1>3, <1>4, <1>5, <1>7, <1>8, <1>9 DEF Intake

\* A tombstone belongs to a request that was withdrawn.
LEMMA MarkedWithdrawn ==
    ASSUME TypeOK, Buried, NEW r, Marked(r) PROVE r \in cancelled /\ r \in withdrawn
<1>1. r \in DOMAIN canceledRequests BY Expired DEF Marked
<1> QED BY <1>1 DEF Buried, TypeOK

\* The frame that would open a cancelled request finds its tombstone.
LEMMA DoomedMarked ==
    ASSUME RequestIntakeAssumption, Intake, NEW r \in Request, NEW type \in Opening,
           Read(r, type), r \in cancelled
    PROVE  Marked(r)
<1>1. TypeOK /\ InOrder /\ Doomed BY DEF Intake, Read
<1>2. 1 \in DOMAIN data /\ data[1].id = r /\ data[1].type = type BY <1>1, HeadRead
<1> QED BY <1>1, <1>2, TombstonesLast DEF Marked

-----------------------------------------------------------------------------
\* A single Request frame starts a handler or is answered, unless its tombstone stops it.
LEMMA RequestRead ==
    ASSUME RequestIntakeAssumption, Intake, NEW r \in Request, ReadRequest(r) PROVE Intake'
<1> USE DEF Ignore
<1>1. /\ Read(r, "request") /\ Keep /\ canceledRequests' = Consumed(r)
      /\ IF Marked(r) THEN Ignore ELSE Dispatch(r)
    BY DEF ReadRequest
<1>2. TypeOK /\ Counted /\ Buried /\ Doomed BY <1>1 DEF Intake, Read
<1>3. TableTypes' /\ Counted' BY <1>1, <1>2, KeepTyped, KeepCounts
<1>4. DOMAIN requestBodies' \subseteq DOMAIN requestBodies BY <1>1, <1>2, BytesLeft DEF Keep
<1>5. Marked(r) => r \in withdrawn BY <1>2, MarkedWithdrawn
<1>6. r \in cancelled => Marked(r) BY <1>1, DoomedMarked DEF Opening
<1>7. /\ active \subseteq active' /\ active' \subseteq active \cup {r}
      /\ answered \subseteq answered' /\ answered' \subseteq answered \cup {r}
      /\ r \in cancelled => (r \in active' => r \in active)
      /\ r \notin withdrawn => r \in answered'
    BY <1>1, <1>5, <1>6 DEF Dispatch
<1>8. r \in cancelled => r \notin DOMAIN requestBodies' BY <1>2, <1>4 DEF Doomed
<1> QED BY <1>1, <1>3, <1>4, <1>7, <1>8, ReadStep

\* The announcement of a body opens an upload where there is room.
LEMMA StartRead ==
    ASSUME RequestIntakeAssumption, Intake, NEW r \in Request, ReadStart(r) PROVE Intake'
<1>1. Read(r, "start") BY DEF ReadStart
<1>2. TypeOK /\ Counted /\ Buried /\ Doomed BY <1>1 DEF Intake, Read
<1>3. r \in cancelled => Marked(r) BY <1>1, DoomedMarked DEF Opening
<1>4. /\ TableTypes' /\ Counted' /\ DOMAIN requestBodies' \subseteq DOMAIN requestBodies \cup {r}
      /\ r \in cancelled => r \notin DOMAIN requestBodies'
    <2>1. CASE Keep
        <3>1. DOMAIN requestBodies' \subseteq DOMAIN requestBodies
            BY <1>2, <2>1, BytesLeft DEF Keep
        <3>2. TableTypes' /\ Counted' BY <1>2, <2>1, KeepTyped, KeepCounts
        <3> QED BY <1>2, <3>1, <3>2 DEF Doomed
    <2>2. CASE ~Marked(r) /\ Cardinality(DOMAIN Bodies) < MaxPending /\ Put(r, 0)
        <3>1. 0 \in Nat /\ 0 \in 0..Size[r] BY DEF RequestIntakeAssumption
        <3>2. TableTypes' BY <1>2, <2>2, <3>1, PutTyped
        <3>3. Counted' BY <1>2, <2>2, <3>1, PutCounts
        <3>4. DOMAIN requestBodies' \subseteq DOMAIN requestBodies \cup {r}
            BY <1>2, <2>2, BytesLeft DEF Put
        <3> QED BY <1>3, <2>2, <3>2, <3>3, <3>4
    <2> QED BY <2>1, <2>2 DEF ReadStart
<1>5. active' = active /\ answered \subseteq answered' /\ answered' \subseteq answered \cup {r}
    BY DEF ReadStart, Ignore, Reject
<1>6. canceledRequests' = Tombstones \/ (Marked(r) /\ canceledRequests' = Mark(r))
    BY DEF ReadStart
<1>7. "start" \notin Final BY DEF Final
<1> QED BY <1>1, <1>4, <1>5, <1>6, <1>7, ReadStep

\* A chunk joins an upload that is under way, or drops it.
LEMMA BodyRead ==
    ASSUME RequestIntakeAssumption, Intake, NEW r \in Request, ReadBody(r) PROVE Intake'
<1>1. Read(r, "body") BY DEF ReadBody
<1>2. TypeOK /\ Counted /\ Buried /\ Doomed BY <1>1 DEF Intake, Read
<1>4. /\ TableTypes' /\ Counted' /\ DOMAIN requestBodies' \subseteq DOMAIN requestBodies
    <2>1. CASE Keep BY <1>2, <2>1, KeepTyped, KeepCounts, BytesLeft DEF Keep
    <2>2. CASE Drop(r)
        <3>1. DOMAIN requestBodies' \subseteq DOMAIN requestBodies
            BY <1>2, <2>2, BytesLeft DEF Drop, Restrict
        <3> QED BY <1>2, <2>2, <3>1, DropTyped, DropCounts
    <2>3. CASE /\ r \in DOMAIN Bodies /\ Bytes < MaxBytes /\ Bodies[r].chunks < Size[r]
               /\ Put(r, Bodies[r].chunks + 1)
        <3> DEFINE c == Bodies[r].chunks + 1
        <3>1. c \in Nat /\ c \in 0..Size[r] BY <1>2, <2>3, BytesLeft DEF RequestIntakeAssumption
        <3>2. TableTypes' BY <1>2, <2>3, <3>1, PutTyped
        <3>3. Counted' BY <1>2, <2>3, <3>1, PutCounts
        <3>4. DOMAIN requestBodies' \subseteq DOMAIN requestBodies
            BY <1>2, <2>3, BytesLeft DEF Put
        <3> QED BY <3>2, <3>3, <3>4
    <2> QED BY <2>1, <2>2, <2>3 DEF ReadBody
<1>5. active' = active /\ answered \subseteq answered' /\ answered' \subseteq answered \cup {r}
    BY DEF ReadBody, Ignore, Reject
<1>6. canceledRequests' = Tombstones \/ (Marked(r) /\ canceledRequests' = Mark(r))
    BY DEF ReadBody
<1>7. "body" \notin Final BY DEF Final
<1>8. r \in cancelled => r \notin DOMAIN requestBodies' BY <1>2, <1>4 DEF Doomed
<1> QED BY <1>1, <1>4, <1>5, <1>6, <1>7, <1>8, ReadStep

\* The end of an upload starts its request or answers it, unless its tombstone stops it.
LEMMA EndRead ==
    ASSUME RequestIntakeAssumption, Intake, NEW r \in Request, ReadEnd(r) PROVE Intake'
<1>1. Read(r, "end") /\ canceledRequests' = Consumed(r) BY DEF ReadEnd
<1>2. TypeOK /\ Counted /\ Buried /\ Doomed BY <1>1 DEF Intake, Read
<1>3. Marked(r) => r \in withdrawn BY <1>2, MarkedWithdrawn
<1>4. /\ TableTypes' /\ Counted' /\ DOMAIN requestBodies' \subseteq DOMAIN requestBodies
    <2>1. CASE Keep BY <1>2, <2>1, KeepTyped, KeepCounts, BytesLeft DEF Keep
    <2>2. CASE Drop(r)
        <3>1. DOMAIN requestBodies' \subseteq DOMAIN requestBodies
            BY <1>2, <2>2, BytesLeft DEF Drop, Restrict
        <3> QED BY <1>2, <2>2, <3>1, DropTyped, DropCounts
    <2> QED BY <2>1, <2>2 DEF ReadEnd
<1>5. r \in cancelled => r \notin DOMAIN Bodies /\ r \notin DOMAIN requestBodies'
    BY <1>2, <1>4, BytesLeft DEF Doomed
<1>6. /\ active \subseteq active' /\ active' \subseteq active \cup {r}
      /\ answered \subseteq answered' /\ answered' \subseteq answered \cup {r}
      /\ r \in cancelled => (r \in active' => r \in active)
      /\ r \notin withdrawn => r \in answered'
    <2>1. CASE Ignore /\ Marked(r) BY <1>3, <2>1 DEF Ignore
    <2>2. CASE Reject(r) BY <2>2 DEF Reject
    <2>3. CASE Dispatch(r) /\ r \in DOMAIN Bodies BY <1>5, <2>3 DEF Dispatch
    <2> QED BY <2>1, <2>2, <2>3 DEF ReadEnd
<1> QED BY <1>1, <1>4, <1>5, <1>6, ReadStep

-----------------------------------------------------------------------------
\* The gateway sends the next frame of a request it has not withdrawn.
LEMMA FrameSent ==
    ASSUME RequestIntakeAssumption, Intake, NEW r \in Request, SendFrame(r) PROVE Intake'
<1> DEFINE last  == Len(data) + 1
           frame == [id |-> r, type |-> Frames(r)[sent'[r]], wait |-> 0]
<1>1. TypeOK /\ InOrder /\ Opened /\ Doomed /\ Buried /\ Pending /\ Counted
    BY DEF Intake, SendFrame
<1>2. /\ r \notin withdrawn /\ sent[r] < Len(Frames(r)) /\ sent[r] \in Nat
      /\ sent' = [sent EXCEPT ![r] = @ + 1] /\ data' = Append(data, frame)
      /\ UNCHANGED <<withdrawn, bodyVars, canceledRequests, handlerVars, cancelled, answered,
                     closed>>
    BY <1>1 DEF SendFrame, TypeOK
<1>3. /\ sent' \in [Request -> Nat] /\ sent'[r] = sent[r] + 1 /\ sent'[r] <= Len(Frames(r))
      /\ \A q \in Request : q # r => sent'[q] = sent[q]
      /\ sent'[r] \in 1..Len(Frames(r))
    BY <1>1, <1>2, FramesShape DEF TypeOK
<1>4. /\ frame \in Frame /\ frame.id = r
      /\ frame.type \in Opening => sent[r] = 0
      /\ sent'[r] = Len(Frames(r)) => frame.type \in Final
    BY <1>2, <1>3, FramesShape DEF Frame, RequestIntakeAssumption
<1> HIDE DEF frame
<1>5. /\ data' \in Seq(Frame) /\ Len(data) \in Nat /\ DOMAIN data = 1..Len(data)
      /\ DOMAIN data' = 1..last /\ data'[last] = frame
      /\ \A n \in DOMAIN data : data'[n] = data[n]
    BY <1>1, <1>2, <1>4, AppendProperties, LenProperties DEF TypeOK
<1>6. \A n \in DOMAIN data' : n = last \/ n \in DOMAIN data BY <1>5
<1>7. \A n \in DOMAIN data : data[n].id \in Request /\ n < last
    <2>1. \A n \in DOMAIN data : n < last BY <1>5
    <2>2. \A n \in DOMAIN data : data[n] \in Frame BY <1>1 DEF TypeOK
    <2> QED BY <2>1, <2>2 DEF Frame
<1>8. TypeOK'
    <2>1. \A q \in Request : sent'[q] <= Len(Frames(q)) BY <1>1, <1>3 DEF TypeOK
    <2> QED BY <1>1, <1>2, <1>3, <1>5, <2>1 DEF TypeOK, bodyVars, handlerVars
<1>9. InOrder'
    <2>1. \A n \in DOMAIN data' : sent'[data'[n].id] > 0
        BY <1>1, <1>2, <1>3, <1>4, <1>5, <1>6, <1>7 DEF InOrder
    <2>2. ASSUME NEW n \in DOMAIN data', NEW k \in DOMAIN data', n < k, data'[n].id = data'[k].id
          PROVE  data'[k].type \notin Opening
        <3>1. n \in DOMAIN data BY <1>5, <1>6, <2>2
        <3>2. CASE k \in DOMAIN data BY <1>1, <1>5, <2>2, <3>1, <3>2 DEF InOrder
        <3>3. CASE k = last
            <4>1. data[n].id = r BY <1>4, <1>5, <2>2, <3>1, <3>3
            <4>2. sent[r] > 0 BY <1>1, <3>1, <4>1 DEF InOrder
            <4> QED BY <1>2, <1>4, <1>5, <3>3, <4>2
        <3> QED BY <1>6, <3>2, <3>3
    <2> QED BY <2>1, <2>2 DEF InOrder
<1>10. Opened'
    <2> SUFFICES ASSUME NEW q \in DOMAIN requestBodies \cup active
                 PROVE  /\ sent'[q] > 0
                        /\ \A n \in DOMAIN data' : data'[n].id = q => data'[n].type \notin Opening
        BY <1>2 DEF Opened, bodyVars, handlerVars
    <2>1. q \in Request /\ sent[q] > 0
          /\ \A n \in DOMAIN data : data[n].id = q => data[n].type \notin Opening
        BY <1>1 DEF Opened, TypeOK
    <2>2. sent'[q] > 0 BY <1>2, <1>3, <2>1
    <2>3. r = q => frame.type \notin Opening BY <1>2, <1>4, <2>1
    <2> QED BY <1>4, <1>5, <1>6, <2>1, <2>2, <2>3
<1>11. Doomed'
    <2>1. r \notin cancelled BY <1>1, <1>2 DEF TypeOK
    <2>2. ASSUME NEW q \in cancelled, NEW n \in DOMAIN data', data'[n].id = q,
                 data'[n].type \in Opening
          PROVE  q \in DOMAIN canceledRequests /\ canceledRequests[q] <= data'[n].wait
        <3>1. n \in DOMAIN data BY <1>4, <1>5, <1>6, <2>1, <2>2
        <3> QED BY <1>1, <1>5, <2>2, <3>1 DEF Doomed
    <2> QED BY <1>1, <1>2, <2>2 DEF Doomed, bodyVars, handlerVars
<1>12. Buried' BY <1>1, <1>2 DEF Buried
<1>13. Pending'
    <2> SUFFICES ASSUME NEW q \in Request \ withdrawn, sent'[q] = Len(Frames(q)), q \notin answered
                 PROVE  \E n \in DOMAIN data' : data'[n].id = q /\ data'[n].type \in Final
        BY <1>2 DEF Pending
    <2>1. CASE q = r
        <3>1. last \in DOMAIN data' BY <1>5
        <3> QED BY <1>4, <1>5, <2>1, <3>1
    <2>2. CASE q # r
        <3>1. PICK n \in DOMAIN data : data[n].id = q /\ data[n].type \in Final
            BY <1>1, <1>3, <2>2 DEF Pending
        <3>2. n \in DOMAIN data' /\ data'[n] = data[n] BY <1>5
        <3> QED BY <3>1, <3>2
    <2> QED BY <2>1, <2>2
<1>14. Counted' BY <1>1, <1>2 DEF Counted, bodyVars, ChunksOf, Held
<1> QED BY <1>8, <1>9, <1>10, <1>11, <1>12, <1>13, <1>14 DEF Intake

\* Time passes: a tombstone ages no faster than the frames that wait.
LEMMA Ticked == ASSUME RequestIntakeAssumption, Intake, Tick PROVE Intake'
<1>1. TypeOK /\ InOrder /\ Opened /\ Doomed /\ Buried /\ Pending /\ Counted
    BY DEF Intake, Tick
<1>2. /\ data \in Seq(Frame) /\ Len(data) \in Nat /\ DOMAIN data = 1..Len(data)
      /\ \A n \in DOMAIN data : data[n] \in Frame /\ data[n].wait < Window
    BY <1>1, LenProperties DEF TypeOK, Tick
<1>3. /\ DOMAIN data' = DOMAIN data
      /\ \A n \in DOMAIN data : /\ data'[n] \in Frame
                                /\ data'[n].id = data[n].id /\ data'[n].type = data[n].type
                                /\ data'[n].wait = data[n].wait + 1
    <2>1. data' = [n \in DOMAIN data |-> [data[n] EXCEPT !.wait = @ + 1]] BY DEF Tick
    <2>2. ASSUME NEW n \in DOMAIN data
          PROVE  /\ [data[n] EXCEPT !.wait = @ + 1] \in Frame
                 /\ [data[n] EXCEPT !.wait = @ + 1].id = data[n].id
                 /\ [data[n] EXCEPT !.wait = @ + 1].type = data[n].type
                 /\ [data[n] EXCEPT !.wait = @ + 1].wait = data[n].wait + 1
        <3> DEFINE f == data[n]
                   g == [f EXCEPT !.wait = @ + 1]
        <3>1. f \in [id : Request, type : FrameType, wait : 0..Window] /\ f.wait < Window
            BY <1>2 DEF Frame
        <3> HIDE DEF f
        <3>2. f.wait + 1 \in 0..Window BY <3>1 DEF RequestIntakeAssumption
        <3>3. /\ g \in [id : Request, type : FrameType, wait : 0..Window]
              /\ g.id = f.id /\ g.type = f.type /\ g.wait = f.wait + 1
            BY <3>1, <3>2
        <3> QED BY <3>3 DEF Frame, f
    <2> QED BY <2>1, <2>2
<1>4. data' \in Seq(Frame)
    <2>1. data' = [n \in 1..Len(data) |-> data'[n]] BY <1>2 DEF Tick
    <2>2. data' \in [1..Len(data) -> Frame] BY <1>2, <1>3, <2>1
    <2> QED BY <1>2, <2>2, SeqDef
<1>5. /\ UNCHANGED <<sent, withdrawn, active, aborted, cancelled, answered, closed>>
      /\ DOMAIN requestBodies' = DOMAIN requestBodies
      /\ DOMAIN canceledRequests' = DOMAIN canceledRequests
    BY DEF Tick, handlerVars
<1>6. /\ \A r \in DOMAIN canceledRequests : canceledRequests'[r] \in 0..(TombstoneTTL + 1)
      /\ \A r \in DOMAIN canceledRequests : canceledRequests'[r] <= canceledRequests[r] + 1
    <2>1. \A r \in DOMAIN canceledRequests : canceledRequests[r] \in 0..(TombstoneTTL + 1)
        BY <1>1 DEF TypeOK
    <2>2. \A r \in DOMAIN canceledRequests :
            canceledRequests'[r] = IF canceledRequests[r] > TombstoneTTL
                                      THEN canceledRequests[r] ELSE canceledRequests[r] + 1
        BY DEF Tick
    <2>3. TombstoneTTL \in Nat BY DEF RequestIntakeAssumption
    <2> QED BY ONLY <2>1, <2>2, <2>3
<1>7. TypeOK'
    <2>1. /\ requestBodyBytes' \in Nat
          /\ \A r \in DOMAIN requestBodies :
                requestBodies'[r] \in [chunks : 0..Size[r], age : 0..(BodyTimeout + 1)]
        <3>1. requestBodyBytes' = requestBodyBytes BY DEF Tick
        <3>2. ASSUME NEW r \in DOMAIN requestBodies
              PROVE  requestBodies'[r] \in [chunks : 0..Size[r], age : 0..(BodyTimeout + 1)]
            <4> DEFINE b == requestBodies[r]
                       older == IF b.age > BodyTimeout THEN b.age ELSE b.age + 1
            <4>1. b \in [chunks : 0..Size[r], age : 0..(BodyTimeout + 1)] BY <1>1 DEF TypeOK
            <4>2. requestBodies'[r] = [b EXCEPT !.age = older] BY DEF Tick
            <4> HIDE DEF b
            <4>3. older \in 0..(BodyTimeout + 1) BY <4>1 DEF RequestIntakeAssumption
            <4> HIDE DEF older
            <4> QED BY <4>1, <4>2, <4>3
        <3> QED BY <1>1, <3>1, <3>2 DEF TypeOK
    <2> QED BY <1>1, <1>4, <1>5, <1>6, <2>1 DEF TypeOK
<1>8. InOrder' BY <1>1, <1>3, <1>5 DEF InOrder
<1>9. Opened' BY <1>1, <1>3, <1>5 DEF Opened
<1>10. Doomed'
    <2>1. ASSUME NEW q \in cancelled, NEW n \in DOMAIN data', data'[n].id = q,
                 data'[n].type \in Opening
          PROVE  q \in DOMAIN canceledRequests' /\ canceledRequests'[q] <= data'[n].wait
        <3>1. /\ n \in DOMAIN data /\ data[n].id = q /\ data[n].type \in Opening
              /\ data'[n].wait = data[n].wait + 1 BY <1>3, <2>1
        <3>2. q \in DOMAIN canceledRequests /\ canceledRequests[q] <= data[n].wait
            BY <1>1, <3>1 DEF Doomed
        <3>3. data[n].wait \in Nat /\ canceledRequests[q] \in Nat
              /\ canceledRequests'[q] \in Nat /\ canceledRequests'[q] <= canceledRequests[q] + 1
            BY <1>1, <1>2, <1>6, <3>1, <3>2
               DEF Frame, TypeOK, RequestIntakeAssumption
        <3> QED BY <1>5, <3>1, <3>2, <3>3
    <2> QED BY <1>1, <1>5, <2>1 DEF Doomed
<1>11. Buried' BY <1>1, <1>5 DEF Buried
<1>12. Pending' BY <1>1, <1>3, <1>5 DEF Pending
<1>13. Counted' BY <1>1, TickCounts
<1> QED BY <1>7, <1>8, <1>9, <1>10, <1>11, <1>12, <1>13 DEF Intake

\* The buyer goes away.
LEMMA CancelSent ==
    ASSUME RequestIntakeAssumption, Intake, NEW r \in Request, SendCancel(r) PROVE Intake'
<1>1. /\ withdrawn' = withdrawn \cup {r}
      /\ UNCHANGED <<data, sent, requestBodies, requestBodyBytes, canceledRequests, active,
                     aborted, cancelled, answered, closed>>
    BY DEF SendCancel, bodyVars, handlerVars
<1>2. TypeOK' BY <1>1 DEF Intake, TypeOK
<1>3. InOrder' /\ Opened' /\ (~closed => Doomed)' /\ Buried' /\ Counted'
    BY <1>1 DEF Intake, InOrder, Opened, Doomed, Buried, Counted, ChunksOf, Held
<1>4. Pending' BY <1>1 DEF Intake, Pending
<1> QED BY <1>2, <1>3, <1>4 DEF Intake

\* A cancel drops the upload, cancels the handler or leaves a tombstone younger than any
\* frame; or the session closes.
LEMMA CancelRead ==
    ASSUME RequestIntakeAssumption, Intake, NEW r \in Request, ReadCancel(r) PROVE Intake'
<1>1. TypeOK /\ InOrder /\ Opened /\ Doomed /\ Buried /\ Pending /\ Counted
    BY DEF Intake, ReadCancel
<1>2. /\ r \in withdrawn /\ cancelled' = cancelled \cup {r} /\ Drop(r)
      /\ UNCHANGED <<data, sent, withdrawn, active, answered>>
    BY DEF ReadCancel
<1>3. /\ DOMAIN requestBodies' \subseteq DOMAIN requestBodies /\ r \notin DOMAIN requestBodies'
      /\ DOMAIN Bodies \subseteq DOMAIN requestBodies
    BY <1>1, <1>2, BytesLeft DEF Drop, Restrict
<1>4. /\ DOMAIN Tombstones \subseteq DOMAIN canceledRequests
      /\ canceledRequests' = Tombstones \/ canceledRequests' = Mark(r)
      /\ DOMAIN canceledRequests' \subseteq DOMAIN Tombstones \cup {r}
      /\ \A q \in DOMAIN Tombstones :
            q # r => q \in DOMAIN canceledRequests' /\ canceledRequests'[q] = Tombstones[q]
    <2>1. DOMAIN Tombstones \subseteq DOMAIN canceledRequests BY Expired
    <2>2. CASE canceledRequests' = Tombstones BY <2>1, <2>2
    <2>3. CASE canceledRequests' = Mark(r) BY <2>1, <2>3 DEF Mark
    <2> QED BY <2>2, <2>3 DEF ReadCancel
<1>5. aborted \subseteq aborted' /\ aborted' \subseteq active /\ closed' \in BOOLEAN
    BY <1>1 DEF ReadCancel, TypeOK
<1>6. TypeOK'
    <2>1. TombTypes' BY <1>1, <1>4, TombsTyped
    <2>2. TableTypes' BY <1>1, <1>2, DropTyped
    <2> QED BY <1>1, <1>2, <1>5, <2>1, <2>2 DEF TypeOK, TableTypes, TombTypes
<1>7. InOrder' BY <1>1, <1>2 DEF InOrder
<1>8. Opened' BY <1>1, <1>2, <1>3 DEF Opened
<1>9. ASSUME ~closed' PROVE Doomed'
    <2> SUFFICES ASSUME NEW q \in cancelled \cup {r}
                 PROVE  /\ q \notin DOMAIN requestBodies'
                        /\ q \in active => q \in aborted'
                        /\ \A n \in DOMAIN data :
                              data[n].id = q /\ data[n].type \in Opening
                                 => /\ q \in DOMAIN canceledRequests'
                                    /\ canceledRequests'[q] <= data[n].wait
        BY <1>2 DEF Doomed
    <2>1. CASE q # r
        <3>1. q \in cancelled BY <2>1
        <3>2. q \notin DOMAIN requestBodies' /\ (q \in active => q \in aborted')
            BY <1>1, <1>3, <1>5, <3>1 DEF Doomed
        <3>3. ASSUME NEW n \in DOMAIN data, data[n].id = q, data[n].type \in Opening
              PROVE  q \in DOMAIN canceledRequests' /\ canceledRequests'[q] <= data[n].wait
            <4>1. q \in DOMAIN Tombstones /\ Tombstones[q] <= data[n].wait
                BY <1>1, <3>1, <3>3, TombstonesLast
            <4> QED BY <1>4, <2>1, <4>1
        <3> QED BY <3>2, <3>3
    <2>2. CASE q = r /\ r \in DOMAIN Bodies \cup active
        <3>1. q \in active => q \in aborted' BY <2>2 DEF ReadCancel
        <3>2. \A n \in DOMAIN data : data[n].id = q => data[n].type \notin Opening
            BY <1>1, <1>3, <2>2 DEF Opened
        <3> QED BY <1>3, <2>2, <3>1, <3>2
    <2>3. CASE q = r /\ r \notin DOMAIN Bodies \cup active
        <3>1. canceledRequests' = Mark(r) BY <1>9, <2>3 DEF ReadCancel
        <3>2. r \in DOMAIN canceledRequests' /\ canceledRequests'[r] = 0 BY <3>1 DEF Mark
        <3>3. \A n \in DOMAIN data : data[n] \in Frame BY <1>1 DEF TypeOK
        <3>4. \A n \in DOMAIN data : 0 <= data[n].wait
            BY <3>3 DEF Frame, RequestIntakeAssumption
        <3> QED BY <1>3, <2>3, <3>2, <3>4
    <2> QED BY <2>1, <2>2, <2>3
<1>10. Buried' BY <1>1, <1>2, <1>4 DEF Buried
<1>11. Pending' BY <1>1, <1>2 DEF Pending
<1>12. Counted' BY <1>1, <1>2, DropCounts
<1> QED BY <1>6, <1>7, <1>8, <1>9, <1>10, <1>11, <1>12 DEF Intake

\* Any other frame only expires what is old.
LEMMA HeartbeatRead ==
    ASSUME RequestIntakeAssumption, Intake, ReadHeartbeat PROVE Intake'
<1>1. TypeOK /\ InOrder /\ Opened /\ Doomed /\ Buried /\ Pending /\ Counted
    BY DEF Intake, ReadHeartbeat
<1>2. /\ Keep /\ canceledRequests' = Tombstones
      /\ UNCHANGED <<data, sent, withdrawn, active, aborted, cancelled, answered, closed>>
    BY DEF ReadHeartbeat, gatewayVars, handlerVars
<1>3. DOMAIN requestBodies' \subseteq DOMAIN requestBodies BY <1>1, <1>2, BytesLeft DEF Keep
<1>4. /\ DOMAIN Tombstones \subseteq DOMAIN canceledRequests
      /\ \A q \in DOMAIN Tombstones : Tombstones[q] = canceledRequests[q]
    BY Expired
<1>5. TypeOK'
    <2>1. TableTypes' BY <1>1, <1>2, KeepTyped
    <2>2. TombTypes' BY <1>1, <1>2, <1>4 DEF TypeOK, TombTypes
    <2> QED BY <1>1, <1>2, <2>1, <2>2 DEF TypeOK, TableTypes, TombTypes
<1>6. InOrder' /\ Buried' /\ Pending' BY <1>1, <1>2, <1>4 DEF InOrder, Buried, Pending
<1>7. Opened' BY <1>1, <1>2, <1>3 DEF Opened
<1>8. Doomed'
    <2>1. ASSUME NEW q \in cancelled, NEW n \in DOMAIN data, data[n].id = q,
                 data[n].type \in Opening
          PROVE  q \in DOMAIN canceledRequests' /\ canceledRequests'[q] <= data[n].wait
        BY <1>1, <1>2, <2>1, TombstonesLast
    <2> QED BY <1>1, <1>2, <1>3, <2>1 DEF Doomed
<1>9. Counted' BY <1>1, <1>2, KeepCounts
<1> QED BY <1>5, <1>6, <1>7, <1>8, <1>9 DEF Intake

\* A handler ends.
LEMMA HandlerReturned ==
    ASSUME RequestIntakeAssumption, Intake, NEW r \in Request, HandlerReturns(r) PROVE Intake'
<1>1. /\ active' = active \ {r} /\ aborted' = aborted \ {r}
      /\ UNCHANGED <<data, sent, withdrawn, requestBodies, requestBodyBytes, canceledRequests,
                     cancelled, answered, closed>>
    BY DEF HandlerReturns, gatewayVars, bodyVars
<1>2. TypeOK' BY <1>1 DEF Intake, TypeOK
<1>3. InOrder' /\ Buried' /\ Pending' /\ Counted'
    BY <1>1 DEF Intake, InOrder, Buried, Pending, Counted, ChunksOf, Held
<1>4. Opened' BY <1>1 DEF Intake, Opened
<1>5. (~closed => Doomed)' BY <1>1 DEF Intake, Doomed
<1> QED BY <1>2, <1>3, <1>4, <1>5 DEF Intake

-----------------------------------------------------------------------------
\* The invariant holds at first.
LEMMA IntakeInit == ASSUME RequestIntakeAssumption, Init PROVE Intake
<1>1. data \in Seq(Frame) /\ DOMAIN data = {} BY EmptySeq DEF Init
<1>2. DOMAIN requestBodies = {} /\ DOMAIN canceledRequests = {} BY DEF Init
<1>3. \A r \in Request : Len(Frames(r)) \in Nat \ {0} BY FramesShape
<1>4. TypeOK
    <2>1. sent \in [Request -> Nat] /\ \A r \in Request : sent[r] <= Len(Frames(r))
        BY <1>3 DEF Init
    <2>2. /\ DOMAIN requestBodies \subseteq Request /\ DOMAIN canceledRequests \subseteq Request
          /\ \A r \in DOMAIN requestBodies :
                requestBodies[r] \in [chunks : 0..Size[r], age : 0..(BodyTimeout + 1)]
          /\ \A r \in DOMAIN canceledRequests : canceledRequests[r] \in 0..(TombstoneTTL + 1)
        BY <1>2
    <2>3. /\ withdrawn = {} /\ cancelled = {} /\ answered = {} /\ active = {} /\ aborted = {}
          /\ requestBodyBytes = 0 /\ closed = FALSE
        BY DEF Init
    <2> QED BY <1>1, <2>1, <2>2, <2>3 DEF TypeOK
<1>5. InOrder /\ Opened /\ Doomed /\ Buried BY <1>1, <1>2 DEF Init, InOrder, Opened, Doomed, Buried
<1>6. Pending BY <1>3 DEF Init, Pending
<1>7. Counted
    <2>1. Held(requestBodies, DOMAIN requestBodies) = {} BY <1>2 DEF Held
    <2>2. IsFiniteSet({}) /\ Cardinality({}) = 0 BY FS_EmptySet
    <2>3. requestBodyBytes = 0 BY DEF Init
    <2>4. 0 <= MaxPending /\ 0 <= MaxBytes BY DEF RequestIntakeAssumption
    <2> QED BY <1>2, <2>1, <2>2, <2>3, <2>4 DEF Counted, ChunksOf
<1> QED BY <1>4, <1>5, <1>6, <1>7 DEF Intake

\* Every step keeps it.
LEMMA IntakeNext == ASSUME RequestIntakeAssumption, Intake, [Next]_vars PROVE Intake'
<1>1. CASE UNCHANGED vars
    <2>1. UNCHANGED <<data, sent, withdrawn, requestBodies, requestBodyBytes, canceledRequests,
                      active, aborted, cancelled, answered, closed>>
        BY <1>1 DEF vars, gatewayVars, bodyVars, handlerVars
    <2> QED BY <2>1 DEF Intake, TypeOK, InOrder, Opened, Doomed, Buried, Pending, Counted,
                        ChunksOf, Held
<1>2. ASSUME NEW r \in Request,
             \/ SendFrame(r) \/ SendCancel(r)
             \/ ReadRequest(r) \/ ReadStart(r) \/ ReadBody(r) \/ ReadEnd(r) \/ ReadCancel(r)
             \/ HandlerReturns(r)
      PROVE  Intake'
    BY <1>2, FrameSent, CancelSent, RequestRead, StartRead, BodyRead, EndRead, CancelRead,
       HandlerReturned
<1>3. CASE ReadHeartbeat \/ Tick BY <1>3, HeartbeatRead, Ticked
<1> QED BY <1>1, <1>2, <1>3 DEF Next

\* In every reachable state the invariant holds.
LEMMA IntakeHolds == Spec => []Intake
<1>1. Init => Intake BY RequestIntakeAssumption, IntakeInit
<1>2. Intake /\ [Next]_vars => Intake' BY RequestIntakeAssumption, IntakeNext
<1> QED BY <1>1, <1>2, PTL DEF Spec

\* Types, for any requests and limits.
THEOREM IntakeTyped == Spec => []TypeOK
<1>1. Intake => TypeOK BY DEF Intake
<1> QED BY <1>1, IntakeHolds, PTL

\* Whatever a cancel overtook, its request has no handler that still works: the frame that
\* would have opened it found the tombstone.
THEOREM CancelsHonoured == Spec => []CancelHonoured
<1>1. Intake => CancelHonoured BY DEF Intake, Doomed, CancelHonoured
<1> QED BY <1>1, IntakeHolds, PTL

\* However uploads begin, grow, end, expire and are cancelled, requestBodyBytes is what
\* they hold, and the caps on bytes and uploads hold.
THEOREM BytesAreExact == Spec => []BytesExact
<1>1. Intake => BytesExact BY DEF Intake, Counted, BytesExact
<1> QED BY <1>1, IntakeHolds, PTL

\* A request that was sent whole and never withdrawn was started or answered once its last
\* frame was read.
THEOREM NothingIsLost == Spec => []NoSilentLoss
<1>1. Intake => NoSilentLoss BY DEF Intake, Pending, NoSilentLoss
<1> QED BY <1>1, IntakeHolds, PTL
=============================================================================
