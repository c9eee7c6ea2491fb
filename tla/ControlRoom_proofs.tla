------------------------- MODULE ControlRoom_proofs -------------------------
(***************************************************************************)
(* Proofs about the Control Room: ModelPull, for any downloads, models and *)
(* migrations, Pairing, for any number of browsers, rotations and agents,  *)
(* and Ledger, for any number of receipts and of lost sessions.  Each part *)
(* says at its start what its invariants are.                              *)
(***************************************************************************)
EXTENDS ModelPull, Pairing, Ledger, SequenceTheorems, FiniteSetTheorems, TLAPS

(***************************************************************************)
(* Model pulls.  QueueSound is inductive: it is what the handler's lock    *)
(* protects.  With it, Untold (a job that has not ended was told nothing)  *)
(* gives CancelSticks, and the lock shared by Enqueue and StartMove gives  *)
(* CopyUndisturbed.                                                        *)
(***************************************************************************)

\* Only jobs that have ended have an outcome; only the active job and ended ones are
\* cancelled.
Untold ==
    /\ \A a \in Ask : asked[a] # "ended" => outcome[a] = "none"
    /\ \A a \in cancelled : asked[a] \in Working \cup {"ended"}

-----------------------------------------------------------------------------
\* What leaving the queue in the middle does to it.
LEMMA Removed ==
    ASSUME NEW S, NEW s \in Seq(S), NEW i \in 1..Len(s)
    PROVE  /\ RemoveAt(s, i) \in Seq(S)
           /\ Len(RemoveAt(s, i)) = Len(s) - 1
           /\ \A k \in 1..(Len(s) - 1) : RemoveAt(s, i)[k] = s[IF k < i THEN k ELSE k + 1]
<1> DEFINE before == SubSeq(s, 1, i - 1)
           after  == SubSeq(s, i + 1, Len(s))
<1>1. before \in Seq(S) /\ Len(before) = i - 1 /\ \A k \in 1..(i - 1) : before[k] = s[k]
    OBVIOUS
<1>2. after \in Seq(S) /\ Len(after) = Len(s) - i /\ \A k \in 1..(Len(s) - i) : after[k] = s[i + k]
    BY SubSeqProperties
<1>3. RemoveAt(s, i) = before \o after BY DEF RemoveAt
<1> HIDE DEF before, after
<1>4. /\ before \o after \in Seq(S) /\ Len(before \o after) = Len(before) + Len(after)
      /\ \A k \in 1..(Len(before) + Len(after)) :
            (before \o after)[k] = IF k <= Len(before) THEN before[k] ELSE after[k - Len(before)]
    <2>1. before \in Seq(S) /\ after \in Seq(S) BY <1>1, <1>2
    <2> QED BY ONLY <2>1, ConcatProperties
<1>5. ASSUME NEW k \in 1..(Len(s) - 1)
      PROVE  (before \o after)[k] = s[IF k < i THEN k ELSE k + 1]
    <2>1. CASE k < i
        <3>1. k \in 1..(Len(before) + Len(after)) /\ k \in 1..(i - 1) /\ k <= Len(before)
            BY <1>1, <1>2, <2>1
        <3>2. (before \o after)[k] = before[k] BY ONLY <1>4, <3>1
        <3>3. before[k] = s[k] BY ONLY <1>1, <3>1
        <3> QED BY ONLY <2>1, <3>2, <3>3
    <2>2. CASE k >= i
        <3>1. k - (i - 1) \in 1..(Len(s) - i) BY <2>2
        <3>2. (before \o after)[k] = after[k - (i - 1)]
            <4>1. /\ k \in 1..(Len(before) + Len(after)) /\ ~(k <= Len(before))
                  /\ Len(before) = i - 1
                BY <1>1, <1>2, <2>2
            <4> QED BY ONLY <1>4, <4>1
        <3>3. after[k - (i - 1)] = s[i + (k - (i - 1))] BY <1>2, <3>1
        <3>4. i + (k - (i - 1)) = k + 1 OBVIOUS
        <3> QED BY <2>2, <3>2, <3>3, <3>4
    <2>3. k < i \/ k >= i OBVIOUS
    <2> QED BY <2>1, <2>2, <2>3
<1> QED BY <1>1, <1>2, <1>3, <1>4, <1>5

-----------------------------------------------------------------------------
\* Nothing has been asked for.
LEMMA QueueInit == PullInit => QueueSound
<1> SUFFICES ASSUME PullInit PROVE QueueSound OBVIOUS
<1>1. PullTypeOK
    <2>1. asked \in [Ask -> {"absent", "new"}] /\ moved \in [Move -> {"absent", "new"}]
        BY DEF PullInit
    <2>2. pullQueue \in Seq(Ask) /\ auto \in [left : SUBSET Model, got : SUBSET Model, live : BOOLEAN]
        BY PullAssumption DEF PullInit
    <2> QED BY <2>1, <2>2 DEF PullInit, PullTypeOK
<1>2. \A a \in Ask : asked[a] \notin Working \cup {"queued"} BY DEF PullInit, Working
<1>3. pull = NoJob /\ pullQueue = <<>> BY DEF PullInit
<1> QED BY <1>1, <1>2, <1>3 DEF QueueSound, ToSet

-----------------------------------------------------------------------------
\* One step per action, or per group of actions that change the same variables.
LEMMA PullTypeNext == PullTypeOK /\ [PullNext]_pullVars => PullTypeOK'
<1> SUFFICES ASSUME PullTypeOK, [PullNext]_pullVars PROVE PullTypeOK' OBVIOUS
<1>1. CASE UNCHANGED pullVars BY <1>1 DEF PullTypeOK, pullVars, jobs, moves
<1>2. ASSUME NEW a \in Ask, LookForMigration(a) \/ LookInstalled(a) \/ ReadSuccess(a) \/ PullBreaks(a)
      PROVE PullTypeOK'
    <2>1. asked' \in [Ask -> Working \cup {"absent", "new", "listing", "listed", "refused", "queued", "ended"}]
        BY <1>2 DEF LookForMigration, LookInstalled, ReadSuccess, PullBreaks, Step, PullTypeOK, Working
    <2>2. UNCHANGED <<pull, pullQueue, cancelled, cut, outcome, moves, installed, auto, announced>>
        BY <1>2 DEF LookForMigration, LookInstalled, ReadSuccess, PullBreaks
    <2> QED BY <2>1, <2>2 DEF PullTypeOK, moves
<1>3. ASSUME NEW a \in Ask, Enqueue(a) PROVE PullTypeOK'
    <2>1. asked' \in [Ask -> Working \cup {"absent", "new", "listing", "listed", "refused", "queued", "ended"}]
        BY <1>3 DEF Enqueue, Step, PullTypeOK, Working
    <2>2. pullQueue' \in {pullQueue, Append(pullQueue, a)} /\ pull' \in {pull, a} BY <1>3 DEF Enqueue
    <2>3. pullQueue \in Seq(Ask) /\ Append(pullQueue, a) \in Seq(Ask)
        BY AppendProperties DEF PullTypeOK
    <2>4. UNCHANGED <<cancelled, cut, outcome, moves, installed, auto, announced>> BY <1>3 DEF Enqueue
    <2> QED BY <2>1, <2>2, <2>3, <2>4 DEF PullTypeOK, moves
<1>4. ASSUME NEW m \in Model, CancelPull(m) PROVE PullTypeOK'
    <2>1. UNCHANGED <<pull, moves, installed, auto, announced>> BY <1>4 DEF CancelPull
    <2>2. CASE pull # NoJob /\ Wanted[pull] = m
        BY <1>4, <2>1, <2>2 DEF CancelPull, PullTypeOK, moves
    <2>3. CASE ~(pull # NoJob /\ Wanted[pull] = m)
        <3>1. PICK i \in 1..Len(pullQueue) :
                 /\ pullQueue' = RemoveAt(pullQueue, i)
                 /\ Step(pullQueue[i], "ended")
                 /\ outcome' = [outcome EXCEPT ![pullQueue[i]] = "cancelled"]
                 /\ cancelled' = cancelled \cup {pullQueue[i]}
                 /\ UNCHANGED cut
            BY <1>4, <2>3 DEF CancelPull
        <3>2. pullQueue[i] \in Ask BY DEF PullTypeOK
        <3>3. pullQueue' \in Seq(Ask) BY <3>1, Removed DEF PullTypeOK
        <3>4. asked' \in [Ask -> Working \cup {"absent", "new", "listing", "listed", "refused", "queued", "ended"}]
            BY <3>1, <3>2 DEF Step, PullTypeOK
        <3> QED BY <2>1, <3>1, <3>2, <3>3, <3>4 DEF PullTypeOK, moves
    <2> QED BY <2>2, <2>3
<1>5. ASSUME NEW a \in Ask, RunPull(a) PROVE PullTypeOK'
    <2>1. asked' \in [Ask -> Working \cup {"absent", "new", "listing", "listed", "refused", "queued", "ended"}]
        BY <1>5 DEF RunPull, Step, PullTypeOK, Working
    <2> QED BY <1>5, <2>1 DEF RunPull, PullTypeOK, moves
<1>6. ASSUME NEW a \in Ask, EndPull(a) PROVE PullTypeOK'
    <2>1. outcome' \in [Ask -> {"none", "success", "failed", "cancelled"}]
        BY <1>6 DEF EndPull, PullTypeOK
    <2>2. announced' \subseteq Model
        <3>1. Wanted[a] \in Model BY PullAssumption
        <3>2. announced' \in {announced, announced \cup {Wanted[a]}} BY <1>6 DEF EndPull
        <3> QED BY <3>1, <3>2 DEF PullTypeOK
    <2>3. UNCHANGED <<cancelled, cut, moves, installed, auto>> BY <1>6 DEF EndPull
    <2>4. CASE pullQueue = <<>>
        <3>1. asked' \in [Ask -> Working \cup {"absent", "new", "listing", "listed", "refused", "queued", "ended"}]
            BY <1>6, <2>4 DEF EndPull, Step, PullTypeOK
        <3> QED BY <1>6, <2>1, <2>2, <2>3, <2>4, <3>1 DEF EndPull, PullTypeOK, moves
    <2>5. CASE pullQueue # <<>>
        <3>1. Head(pullQueue) \in Ask /\ Tail(pullQueue) \in Seq(Ask)
            BY <2>5, HeadTailProperties DEF PullTypeOK
        <3>2. asked' \in [Ask -> Working \cup {"absent", "new", "listing", "listed", "refused", "queued", "ended"}]
            BY <1>6, <2>5, <3>1 DEF EndPull, PullTypeOK, Working
        <3> QED BY <1>6, <2>1, <2>2, <2>3, <2>5, <3>1, <3>2 DEF EndPull, PullTypeOK, moves
    <2> QED BY <2>4, <2>5
<1>7. ASSUME NEW a \in Ask, Download(a) PROVE PullTypeOK'
    BY <1>7, PullAssumption DEF Download, PullTypeOK, jobs, moves
<1>8. ASSUME NEW v \in Move, PlanMove(v) \/ StartMove(v) \/ EndMove(v) PROVE PullTypeOK'
    <2>1. moved' \in [Move -> {"absent", "new", "refused", "planned", "copying", "complete", "failed"}]
        BY <1>8 DEF PlanMove, StartMove, EndMove, PullTypeOK
    <2>2. migration' \in Move \cup {NoJob} /\ stayed' \in [Move -> SUBSET Model]
        BY <1>8 DEF PlanMove, StartMove, EndMove, PullTypeOK
    <2>3. UNCHANGED <<jobs, copied, installed, auto, announced>>
        BY <1>8 DEF PlanMove, StartMove, EndMove
    <2> QED BY <2>1, <2>2, <2>3 DEF PullTypeOK, jobs
<1>9. ASSUME NEW v \in Move, NEW m \in Model, CopyFile(v, m) PROVE PullTypeOK'
    <2>1. UNCHANGED <<jobs, migration, stayed, installed, auto, announced>> BY <1>9 DEF CopyFile
    <2>2. \/ copied' = copied /\ moved' = [moved EXCEPT ![v] = "failed"]
          \/ copied' = copied \cup {<<m, v>>} /\ moved' = moved
        BY <1>9 DEF CopyFile
    <2>3. CASE copied' = copied /\ moved' = [moved EXCEPT ![v] = "failed"]
        BY <2>1, <2>3 DEF PullTypeOK, jobs
    <2>4. CASE copied' = copied \cup {<<m, v>>} /\ moved' = moved
        <3>1. copied' \subseteq Model \X Move BY <2>4 DEF PullTypeOK
        <3> QED BY <2>1, <2>4, <3>1 DEF PullTypeOK, jobs
    <2> QED BY <2>2, <2>3, <2>4
<1>10. CASE (\E m \in Model : AutoPull(m)) \/ AutoPullEnds
    <2>1. auto' \in [left : SUBSET Model, got : SUBSET Model, live : BOOLEAN]
        <3>1. auto \in [left : SUBSET Model, got : SUBSET Model, live : BOOLEAN] BY DEF PullTypeOK
        <3> DEFINE Autos == [left : SUBSET Model, got : SUBSET Model, live : BOOLEAN]
        <3>2. ASSUME NEW m \in Model, AutoPull(m) PROVE auto' \in Autos
            <4>1. /\ auto.left \ {m} \in SUBSET Model /\ auto.got \cup {m} \in SUBSET Model
                  /\ auto.got \in SUBSET Model /\ auto.live \in BOOLEAN
                BY ONLY <3>1, m \in Model
            <4>2. \/ auto' = [left |-> auto.left \ {m}, got |-> auto.got \cup {m}, live |-> auto.live]
                  \/ auto' = [left |-> auto.left \ {m}, got |-> auto.got, live |-> auto.live]
                BY <3>1, <3>2 DEF AutoPull
            <4> QED BY ONLY <4>1, <4>2
        <3>3. ASSUME AutoPullEnds PROVE auto' \in Autos
            <4>1. auto' = [auto EXCEPT !.live = FALSE] BY <3>3 DEF AutoPullEnds
            <4> QED BY ONLY <3>1, <4>1
        <3> QED BY <1>10, <3>2, <3>3
    <2>2. installed' \subseteq Model /\ announced' \subseteq Model
        BY <1>10 DEF AutoPull, AutoPullEnds, PullTypeOK
    <2>3. UNCHANGED <<jobs, moves>> BY <1>10 DEF AutoPull, AutoPullEnds
    <2> QED BY <2>1, <2>2, <2>3 DEF PullTypeOK, jobs, moves
<1>11. ASSUME NEW m \in Model, DeleteModel(m) PROVE PullTypeOK'
    <2>1. stayed' \in [Move -> SUBSET Model] BY <1>11 DEF DeleteModel, PullTypeOK
    <2>2. installed' \subseteq Model /\ announced' \subseteq Model BY <1>11 DEF DeleteModel, PullTypeOK
    <2>3. UNCHANGED <<jobs, moved, migration, copied, auto>> BY <1>11 DEF DeleteModel
    <2> QED BY <2>1, <2>2, <2>3 DEF PullTypeOK, jobs
<1> QED BY <1>1, <1>2, <1>3, <1>4, <1>5, <1>6, <1>7, <1>8, <1>9, <1>10, <1>11 DEF PullNext, Worker

-----------------------------------------------------------------------------
\* QueueSound, said of each job and each place in the queue.
Sound ==
    /\ \A a \in Ask : asked[a] \in Working <=> a = pull
    /\ \A a \in Ask : asked[a] = "queued" <=> \E i \in 1..Len(pullQueue) : pullQueue[i] = a
    /\ pull = NoJob => pullQueue = <<>>
    /\ \A i, j \in 1..Len(pullQueue) : Wanted[pullQueue[i]] = Wanted[pullQueue[j]] => i = j
    /\ \A i \in 1..Len(pullQueue) : Wanted[pullQueue[i]] # Wanted[pull]

\* The two ways to say it are one.
LEMMA SoundInParts == ASSUME PullTypeOK PROVE Sound <=> QueueSound
<1>1. DOMAIN pullQueue = 1..Len(pullQueue) /\ \A i \in 1..Len(pullQueue) : pullQueue[i] \in Ask
    BY DEF PullTypeOK
<1>2. (\A a \in Ask : asked[a] \in Working <=> a = pull)
      <=> {a \in Ask : asked[a] \in Working} = {pull} \ {NoJob}
    BY PullAssumption DEF PullTypeOK
<1>3. (\A a \in Ask : asked[a] = "queued" <=> \E i \in 1..Len(pullQueue) : pullQueue[i] = a)
      <=> {a \in Ask : asked[a] = "queued"} = ToSet(pullQueue)
    BY <1>1 DEF ToSet
<1> QED BY <1>1, <1>2, <1>3 DEF Sound, QueueSound

\* A job that stays at work, or in the queue, or outside both, leaves the queue sound.
LEMMA SoundElsewhere ==
    ASSUME PullTypeOK, Sound, NEW a \in Ask, NEW p, Step(a, p), UNCHANGED <<pull, pullQueue>>,
           asked[a] \in Working <=> p \in Working, asked[a] = "queued" <=> p = "queued"
    PROVE  Sound'
<1>1. \A b \in Ask : asked'[b] = IF b = a THEN p ELSE asked[b] BY DEF Step, PullTypeOK
<1> QED BY <1>1 DEF Sound, Working

\* A model that is neither active nor queued starts, or goes to the end of the queue.
LEMMA SoundEnqueue == ASSUME PullTypeOK, Sound, NEW a \in Ask, Enqueue(a) PROVE Sound'
<1>1. asked[a] = "listed" BY DEF Enqueue
<1>2. \A p : Step(a, p) => \A b \in Ask : asked'[b] = IF b = a THEN p ELSE asked[b]
    BY DEF Step, PullTypeOK
<1>3. CASE Step(a, "refused") /\ UNCHANGED <<pull, pullQueue>>
    BY <1>1, <1>3, SoundElsewhere DEF Working
<1>4. CASE /\ pull = NoJob
           /\ Step(a, "starting") /\ pull' = a /\ UNCHANGED pullQueue
    <2>1. pullQueue = <<>> /\ pullQueue' = <<>> BY <1>4 DEF Sound
    <2>2. \A b \in Ask : b # pull BY <1>4, PullAssumption
    <2>3. \A b \in Ask : asked'[b] \in Working <=> b = a BY <1>2, <1>4, <2>2 DEF Sound, Working
    <2>4. \A b \in Ask : asked'[b] # "queued" BY <1>2, <1>4, <2>1 DEF Sound
    <2> QED BY <1>4, <2>1, <2>3, <2>4 DEF Sound
<1>5. CASE /\ pull # NoJob /\ Wanted[pull] # Wanted[a] /\ Wanted[a] \notin Names(pullQueue)
           /\ Step(a, "queued") /\ pullQueue' = Append(pullQueue, a) /\ UNCHANGED pull
    <2>1. /\ pullQueue \in Seq(Ask) /\ Len(pullQueue') = Len(pullQueue) + 1
          /\ \A i \in 1..Len(pullQueue) : pullQueue'[i] = pullQueue[i] /\ pullQueue[i] \in Ask
          /\ pullQueue'[Len(pullQueue) + 1] = a
        BY <1>5, AppendProperties DEF PullTypeOK
    <2>2. \A i \in 1..Len(pullQueue') : i \in 1..Len(pullQueue) \/ i = Len(pullQueue) + 1
        BY <2>1
    <2>3. \A i \in 1..Len(pullQueue) : Wanted[pullQueue[i]] # Wanted[a] BY <1>5 DEF Names
    <2>4. \A b \in Ask : asked'[b] \in Working <=> b = pull'
        BY <1>1, <1>2, <1>5 DEF Sound, Working
    <2>5. \A b \in Ask : asked'[b] = "queued" <=> \E i \in 1..Len(pullQueue') : pullQueue'[i] = b
        <3>1. 1..Len(pullQueue) \subseteq 1..Len(pullQueue') /\ Len(pullQueue) + 1 \in 1..Len(pullQueue')
            BY <2>1
        <3>2. \A b \in Ask : b # a => (asked'[b] = "queued" <=> asked[b] = "queued") BY <1>2, <1>5
        <3>3. asked'[a] = "queued" BY <1>2, <1>5
        <3> QED BY <2>1, <2>2, <3>1, <3>2, <3>3 DEF Sound
    <2>6. \A i, j \in 1..Len(pullQueue') : Wanted[pullQueue'[i]] = Wanted[pullQueue'[j]] => i = j
        BY <2>1, <2>2, <2>3 DEF Sound
    <2>7. \A i \in 1..Len(pullQueue') : Wanted[pullQueue'[i]] # Wanted[pull'] BY <1>5, <2>1, <2>2 DEF Sound
    <2> QED BY <1>5, <2>4, <2>5, <2>6, <2>7 DEF Sound
<1> QED BY <1>3, <1>4, <1>5 DEF Enqueue

\* A job that is taken out of the queue leaves the others in their order.
LEMMA SoundRemove ==
    ASSUME PullTypeOK, Sound, NEW i \in 1..Len(pullQueue), Step(pullQueue[i], "ended"),
           pullQueue' = RemoveAt(pullQueue, i), pull' = pull
    PROVE  Sound'
<1> DEFINE n == Len(pullQueue)
<1>1. pullQueue \in Seq(Ask) /\ n \in Nat /\ pullQueue[i] \in Ask BY DEF PullTypeOK
<1>2. Len(pullQueue') = n - 1 /\ \A k \in 1..(n - 1) : pullQueue'[k] = pullQueue[IF k < i THEN k ELSE k + 1]
    BY <1>1, Removed
<1> HIDE DEF n
<1>3. \A b \in Ask : asked'[b] = IF b = pullQueue[i] THEN "ended" ELSE asked[b]
    BY <1>1 DEF Step, PullTypeOK
<1>4. i \in 1..n BY DEF n
<1>5. \A k \in 1..(n - 1) : (IF k < i THEN k ELSE k + 1) \in 1..n /\ (IF k < i THEN k ELSE k + 1) # i
    BY <1>1, <1>4
<1>6. \A j, k \in 1..n : Wanted[pullQueue[j]] = Wanted[pullQueue[k]] => j = k BY DEF n, Sound
<1>7. \A b \in Ask : asked'[b] \in Working <=> b = pull'
    <2>1. asked[pullQueue[i]] = "queued" BY <1>1 DEF Sound
    <2>2. pullQueue[i] # pull BY <2>1, <1>1 DEF Sound, Working
    <2> QED BY <1>3, <2>2 DEF Sound, Working
<1>8. \A b \in Ask : asked'[b] = "queued" <=> \E k \in 1..(n - 1) : pullQueue'[k] = b
    <2>1. ASSUME NEW b \in Ask, NEW k \in 1..(n - 1), pullQueue'[k] = b PROVE asked'[b] = "queued"
        <3>1. PICK j \in 1..n : j # i /\ pullQueue[j] = b BY <2>1, <1>2, <1>5
        <3>2. b # pullQueue[i] BY <3>1, <1>4, <1>6
        <3>3. asked[b] = "queued" BY <3>1 DEF Sound, n
        <3> QED BY <3>2, <3>3, <1>3
    <2>2. ASSUME NEW b \in Ask, asked'[b] = "queued" PROVE \E k \in 1..(n - 1) : pullQueue'[k] = b
        <3>1. b # pullQueue[i] /\ asked[b] = "queued" BY <2>2, <1>3
        <3>2. PICK j \in 1..n : pullQueue[j] = b BY <3>1 DEF Sound, n
        <3>3. j # i BY <3>1, <3>2
        <3>4. CASE j < i
            <4>1. j \in 1..(n - 1) BY <3>4, <1>1, <1>4
            <4> QED BY <4>1, <3>4, <3>2, <1>2
        <3>5. CASE j > i
            <4>1. j - 1 \in 1..(n - 1) /\ ~(j - 1 < i) /\ (j - 1) + 1 = j BY <3>5, <1>1, <1>4
            <4>2. pullQueue'[j - 1] = pullQueue[(j - 1) + 1] BY <4>1, <1>2
            <4> QED BY <4>1, <4>2, <3>2
        <3> QED BY <3>3, <3>4, <3>5, <1>1, <1>4
    <2> QED BY <2>1, <2>2
<1>9. \A j, k \in 1..(n - 1) : Wanted[pullQueue'[j]] = Wanted[pullQueue'[k]] => j = k
    <2> DEFINE At(k) == IF k < i THEN k ELSE k + 1
    <2>1. \A j, k \in 1..(n - 1) : At(j) = At(k) => j = k BY <1>1, <1>4
    <2>2. \A k \in 1..(n - 1) : pullQueue'[k] = pullQueue[At(k)] /\ At(k) \in 1..n BY <1>2, <1>5
    <2> HIDE DEF At
    <2> QED BY ONLY <1>6, <2>1, <2>2
<1>10. \A k \in 1..(n - 1) : Wanted[pullQueue'[k]] # Wanted[pull'] BY <1>2, <1>5 DEF Sound, n
<1>11. pull' # NoJob
    <2>1. pull # NoJob BY <1>1, <1>4 DEF Sound, n
    <2> QED BY <2>1
<1> QED BY <1>2, <1>7, <1>8, <1>9, <1>10, <1>11 DEF Sound

\* When the active job ends, the head of the queue takes its place.
LEMMA SoundEnd == ASSUME PullTypeOK, Sound, NEW a \in Ask, EndPull(a) PROVE Sound'
<1>1. a = pull BY DEF EndPull, Sound, Working
<1>2. CASE pullQueue = <<>>
    <2>1. \A b \in Ask : asked'[b] = IF b = a THEN "ended" ELSE asked[b]
        BY <1>2 DEF EndPull, Step, PullTypeOK
    <2>2. pull' = NoJob /\ pullQueue' = <<>> BY <1>2 DEF EndPull
    <2>3. \A b \in Ask : asked'[b] \notin Working BY <1>1, <2>1 DEF Sound, Working
    <2>4. \A b \in Ask : asked'[b] # "queued" BY <1>2, <2>1 DEF Sound
    <2> QED BY <2>2, <2>3, <2>4, PullAssumption DEF Sound
<1>3. CASE pullQueue # <<>>
    <2> DEFINE h == Head(pullQueue)
               n == Len(pullQueue)
    <2>1. /\ pullQueue \in Seq(Ask) /\ n \in Nat /\ n >= 1 /\ h = pullQueue[1] /\ h \in Ask
          /\ Len(Tail(pullQueue)) = n - 1
          /\ \A k \in 1..(n - 1) : Tail(pullQueue)[k] = pullQueue[k + 1]
        BY <1>3, HeadTailProperties DEF PullTypeOK
    <2> HIDE DEF h, n
    <2>2. pull' = h /\ pullQueue' = Tail(pullQueue) BY <1>3 DEF EndPull, h
    <2>3. asked' = [asked EXCEPT ![a] = "ended", ![h] = "starting"] BY <1>3 DEF EndPull, h
    <2>4. asked[h] = "queued" BY <2>1 DEF Sound, n
    <2>5. h # a BY <2>4 DEF EndPull
    <2>6. \A b \in Ask : asked'[b] = IF b = h THEN "starting" ELSE IF b = a THEN "ended" ELSE asked[b]
        BY <2>1, <2>3 DEF PullTypeOK
    <2>7. \A j, k \in 1..n : Wanted[pullQueue[j]] = Wanted[pullQueue[k]] => j = k BY DEF n, Sound
    <2>8. \A b \in Ask : asked'[b] \in Working <=> b = pull'
        BY <1>1, <2>2, <2>6 DEF Sound, Working
    <2>9. \A b \in Ask : asked'[b] = "queued" <=> \E k \in 1..(n - 1) : pullQueue'[k] = b
        <3>1. ASSUME NEW b \in Ask, NEW k \in 1..(n - 1), pullQueue'[k] = b PROVE asked'[b] = "queued"
            <4>1. k + 1 \in 1..n /\ 1 \in 1..n /\ k + 1 # 1 BY <2>1
            <4>2. pullQueue[k + 1] = b BY <3>1, <2>1, <2>2
            <4>3. b # h BY <4>1, <4>2, <2>1, <2>7
            <4>4. asked[b] = "queued" BY <4>1, <4>2 DEF Sound, n
            <4> QED BY <4>3, <4>4, <2>6 DEF EndPull
        <3>2. ASSUME NEW b \in Ask, asked'[b] = "queued" PROVE \E k \in 1..(n - 1) : pullQueue'[k] = b
            <4>1. b # h /\ asked[b] = "queued" BY <3>2, <2>6
            <4>2. PICK j \in 1..n : pullQueue[j] = b BY <4>1 DEF Sound, n
            <4>3. j # 1 BY <4>1, <4>2, <2>1
            <4>4. j - 1 \in 1..(n - 1) /\ (j - 1) + 1 = j BY <4>3, <2>1
            <4>5. pullQueue'[j - 1] = pullQueue[(j - 1) + 1] BY <4>4, <2>1, <2>2
            <4> QED BY <4>2, <4>4, <4>5
        <3> QED BY <3>1, <3>2
    <2>10. \A k \in 1..(n - 1) : k + 1 \in 1..n /\ k + 1 # 1 BY <2>1
    <2>11. \A j, k \in 1..(n - 1) : Wanted[pullQueue'[j]] = Wanted[pullQueue'[k]] => j = k
        BY <2>1, <2>2, <2>7, <2>10
    <2>12. \A k \in 1..(n - 1) : Wanted[pullQueue'[k]] # Wanted[pull']
        BY <2>1, <2>2, <2>7, <2>10
    <2>13. pull' # NoJob BY <2>1, <2>2, PullAssumption
    <2> QED BY <2>1, <2>2, <2>8, <2>9, <2>11, <2>12, <2>13 DEF Sound
<1> QED BY <1>2, <1>3

\* One step per action, or per group of actions that keep a job in its class.
LEMMA SoundNext == PullTypeOK /\ Sound /\ [PullNext]_pullVars => Sound'
<1> SUFFICES ASSUME PullTypeOK, Sound, [PullNext]_pullVars PROVE Sound' OBVIOUS
<1>1. ASSUME UNCHANGED <<asked, pull, pullQueue>> PROVE Sound' BY <1>1 DEF Sound
<1>2. ASSUME NEW a \in Ask, LookForMigration(a) \/ LookInstalled(a) \/ ReadSuccess(a) \/ PullBreaks(a)
                            \/ RunPull(a)
      PROVE Sound'
    BY <1>2, SoundElsewhere DEF LookForMigration, LookInstalled, ReadSuccess, PullBreaks, RunPull, Working
<1>3. ASSUME NEW m \in Model, CancelPull(m) PROVE Sound'
    BY <1>3, <1>1, SoundRemove DEF CancelPull
<1>4. ASSUME NEW a \in Ask, Download(a) PROVE Sound' BY <1>4, <1>1 DEF Download, jobs
<1>5. ASSUME NEW v \in Move, PlanMove(v) \/ StartMove(v) \/ EndMove(v) \/ \E m \in Model : CopyFile(v, m)
      PROVE Sound'
    BY <1>5, <1>1 DEF PlanMove, StartMove, EndMove, CopyFile, jobs
<1>6. ASSUME (\E m \in Model : AutoPull(m) \/ DeleteModel(m)) \/ AutoPullEnds PROVE Sound'
    BY <1>6, <1>1 DEF AutoPull, DeleteModel, AutoPullEnds, jobs
<1> QED BY <1>1, <1>2, <1>3, <1>4, <1>5, <1>6, SoundEnqueue, SoundEnd DEF PullNext, Worker, pullVars, jobs

\* Types and the queue, always.
LEMMA SoundAlways == PullSpec => [](PullTypeOK /\ Sound)
<1>1. PullInit => PullTypeOK /\ Sound
    <2>1. QueueSound => PullTypeOK /\ Sound BY SoundInParts DEF QueueSound
    <2> QED BY <2>1, QueueInit
<1> QED BY <1>1, PullTypeNext, SoundNext, PTL DEF PullSpec

\* Posts of one model or of many, cancels of what is queued or active, ends of the active
\* download: one worker at a time, each model once, nobody left behind.
THEOREM QueueStaysSound == PullSpec => []QueueSound
<1>1. PullTypeOK /\ Sound => QueueSound BY SoundInParts
<1> QED BY <1>1, SoundAlways, PTL

-----------------------------------------------------------------------------
\* Nobody was told anything.
LEMMA UntoldInit == PullInit => Untold
BY DEF PullInit, Untold

\* One step per action that tells or cancels, and the others.
LEMMA UntoldNext ==
    PullTypeOK /\ Sound /\ Untold /\ CancelSticks /\ [PullNext]_pullVars => Untold' /\ CancelSticks'
<1> SUFFICES ASSUME PullTypeOK, Sound, Untold, CancelSticks, [PullNext]_pullVars
             PROVE  Untold' /\ CancelSticks'
    OBVIOUS
<1>1. ASSUME UNCHANGED <<asked, cancelled, outcome>> PROVE Untold' /\ CancelSticks'
    BY <1>1 DEF Untold, CancelSticks, Working
<1>2. ASSUME NEW a \in Ask, NEW p, Step(a, p), asked[a] # "ended", UNCHANGED <<cancelled, outcome>>,
             a \in cancelled => p \in Working
      PROVE  Untold' /\ CancelSticks'
    <2>1. \A b \in Ask : asked'[b] = IF b = a THEN p ELSE asked[b] BY <1>2 DEF Step, PullTypeOK
    <2>2. Untold' BY <1>2, <2>1 DEF Untold, Working, PullTypeOK
    <2> QED BY <1>2, <2>2 DEF CancelSticks
<1>3. ASSUME NEW a \in Ask, LookForMigration(a) \/ LookInstalled(a) \/ Enqueue(a)
      PROVE Untold' /\ CancelSticks'
    <2>1. asked[a] \in {"new", "listing", "listed"} /\ UNCHANGED <<cancelled, outcome>>
        BY <1>3 DEF LookForMigration, LookInstalled, Enqueue
    <2>2. a \notin cancelled BY <2>1 DEF Untold, Working
    <2>3. \E p : Step(a, p) BY <1>3 DEF LookForMigration, LookInstalled, Enqueue
    <2> QED BY <1>2, <2>1, <2>2, <2>3
<1>4. ASSUME NEW a \in Ask, RunPull(a) \/ ReadSuccess(a) \/ PullBreaks(a) PROVE Untold' /\ CancelSticks'
    BY <1>4, <1>2 DEF RunPull, ReadSuccess, PullBreaks, Working
<1>5. ASSUME NEW m \in Model, CancelPull(m) PROVE Untold' /\ CancelSticks'
    <2>1. CASE pull # NoJob /\ Wanted[pull] = m
        <3>1. pull \in Ask /\ asked[pull] \in Working BY <2>1 DEF PullTypeOK, Sound
        <3>2. outcome[pull] = "none" BY <3>1 DEF Untold, Working
        <3>3. cancelled' = cancelled \cup {pull} /\ UNCHANGED <<asked, outcome>>
            BY <1>5, <2>1 DEF CancelPull
        <3> QED BY <3>1, <3>2, <3>3 DEF Untold, CancelSticks
    <2>2. CASE ~(pull # NoJob /\ Wanted[pull] = m)
        <3>1. PICK i \in 1..Len(pullQueue) :
                 /\ Step(pullQueue[i], "ended")
                 /\ outcome' = [outcome EXCEPT ![pullQueue[i]] = "cancelled"]
                 /\ cancelled' = cancelled \cup {pullQueue[i]}
            BY <1>5, <2>2 DEF CancelPull
        <3>2. pullQueue[i] \in Ask BY DEF PullTypeOK
        <3>3. \A b \in Ask : /\ asked'[b] = IF b = pullQueue[i] THEN "ended" ELSE asked[b]
                             /\ outcome'[b] = IF b = pullQueue[i] THEN "cancelled" ELSE outcome[b]
            BY <3>1, <3>2 DEF Step, PullTypeOK
        <3>4. Untold' BY <3>1, <3>2, <3>3 DEF Untold, PullTypeOK
        <3>5. CancelSticks' BY <3>1, <3>2, <3>3 DEF CancelSticks
        <3> QED BY <3>4, <3>5
    <2> QED BY <2>1, <2>2
<1>6. ASSUME NEW a \in Ask, EndPull(a) PROVE Untold' /\ CancelSticks'
    <2>1. asked[a] \in Working /\ outcome[a] = "none" /\ cancelled' = cancelled
        BY <1>6 DEF EndPull, Untold, Working
    <2>2. \A b \in Ask : b # a => outcome'[b] = outcome[b] BY <1>6 DEF EndPull, PullTypeOK
    <2>3. outcome'[a] # "none" /\ (outcome'[a] = "cancelled" <=> a \in cancelled)
        BY <1>6 DEF EndPull, PullTypeOK
    <2>4. asked'[a] = "ended"
          /\ \A b \in Ask : b # a => asked'[b] = asked[b] \/ (asked'[b] = "starting" /\ asked[b] = "queued")
        <3>1. CASE pullQueue = <<>> BY <1>6, <3>1 DEF EndPull, Step, PullTypeOK
        <3>2. CASE pullQueue # <<>>
            <4>1. pullQueue \in Seq(Ask) /\ Head(pullQueue) = pullQueue[1] /\ pullQueue[1] \in Ask
                  /\ 1 \in 1..Len(pullQueue)
                BY <3>2, HeadTailProperties DEF PullTypeOK
            <4>2. asked[Head(pullQueue)] = "queued" BY <4>1 DEF Sound
            <4>3. Head(pullQueue) # a BY <4>2, <2>1 DEF Working
            <4>4. asked' = [asked EXCEPT ![a] = "ended", ![Head(pullQueue)] = "starting"]
                BY <1>6, <3>2 DEF EndPull
            <4> QED BY <4>1, <4>2, <4>3, <4>4 DEF PullTypeOK
        <3> QED BY <3>1, <3>2
    <2>5. Untold' BY <2>1, <2>2, <2>4 DEF Untold, Working, PullTypeOK
    <2>6. CancelSticks' BY <2>1, <2>2, <2>3 DEF CancelSticks
    <2> QED BY <2>5, <2>6
<1>7. ASSUME NEW a \in Ask, Download(a) PROVE Untold' /\ CancelSticks' BY <1>7, <1>1 DEF Download, jobs
<1>8. ASSUME NEW v \in Move, PlanMove(v) \/ StartMove(v) \/ EndMove(v) \/ \E m \in Model : CopyFile(v, m)
      PROVE Untold' /\ CancelSticks'
    BY <1>8, <1>1 DEF PlanMove, StartMove, EndMove, CopyFile, jobs
<1>9. ASSUME (\E m \in Model : AutoPull(m) \/ DeleteModel(m)) \/ AutoPullEnds
      PROVE Untold' /\ CancelSticks'
    BY <1>9, <1>1 DEF AutoPull, DeleteModel, AutoPullEnds, jobs
<1> QED BY <1>1, <1>3, <1>4, <1>5, <1>6, <1>7, <1>8, <1>9 DEF PullNext, Worker, pullVars, jobs

\* cancelPull's answer binds runPull: whatever the runtime said last, and wherever the job
\* was, it ends as cancelled, and only what was cancelled does.
THEOREM CancelsAreKept == PullSpec => []CancelSticks
<1>1. PullInit => CancelSticks BY DEF PullInit, CancelSticks
<1> QED BY <1>1, UntoldInit, UntoldNext, SoundAlways, PTL DEF PullSpec

-----------------------------------------------------------------------------
\* A step that neither downloads nor moves.
LEMMA CopyElsewhere ==
    ASSUME CopyUndisturbed, UNCHANGED <<moves, pull>>
    PROVE  CopyUndisturbed'
BY DEF CopyUndisturbed, Migrating, moves

\* One step per action that takes a job or moves a migration, and the others.
LEMMA CopyNext == PullTypeOK /\ Sound /\ CopyUndisturbed /\ [PullNext]_pullVars => CopyUndisturbed'
<1> SUFFICES ASSUME PullTypeOK, Sound, CopyUndisturbed, [PullNext]_pullVars PROVE CopyUndisturbed'
    OBVIOUS
<1>1. CASE UNCHANGED pullVars BY <1>1, CopyElsewhere DEF pullVars, jobs
<1>2. ASSUME NEW a \in Ask, LookForMigration(a) \/ LookInstalled(a) \/ ReadSuccess(a) \/ PullBreaks(a)
                            \/ RunPull(a) \/ Download(a)
      PROVE CopyUndisturbed'
    BY <1>2, CopyElsewhere DEF LookForMigration, LookInstalled, ReadSuccess, PullBreaks, RunPull,
       Download, jobs
<1>3. ASSUME NEW m \in Model, CancelPull(m) \/ AutoPull(m) PROVE CopyUndisturbed'
    BY <1>3, CopyElsewhere DEF CancelPull, AutoPull, jobs
<1>4. CASE AutoPullEnds BY <1>4, CopyElsewhere DEF AutoPullEnds, jobs
<1>5. ASSUME NEW a \in Ask, Enqueue(a) PROVE CopyUndisturbed'
    <2>1. CASE pull' = pull BY <1>5, <2>1, CopyElsewhere DEF Enqueue
    <2>2. CASE pull' # pull
        <3>1. ~Migrating /\ UNCHANGED moves BY <1>5, <2>2 DEF Enqueue
        <3> QED BY <3>1 DEF CopyUndisturbed, Migrating, moves
    <2> QED BY <2>1, <2>2
<1>6. ASSUME NEW a \in Ask, EndPull(a) PROVE CopyUndisturbed'
    <2>1. pull # NoJob BY <1>6, PullAssumption DEF EndPull, Sound, Working
    <2>2. ~Migrating /\ UNCHANGED moves BY <1>6, <2>1 DEF EndPull, CopyUndisturbed
    <2> QED BY <2>2 DEF CopyUndisturbed, Migrating, moves
<1>7. ASSUME NEW v \in Move, PlanMove(v) PROVE CopyUndisturbed'
    <2>1. UNCHANGED <<pull, migration, stayed, copied>> BY <1>7 DEF PlanMove, jobs
    <2>2. \A u \in Move : moved'[u] \in {"copying", "complete"} => moved[u] = moved'[u]
        BY <1>7 DEF PlanMove, PullTypeOK
    <2> QED BY <2>1, <2>2 DEF CopyUndisturbed, Migrating, PullTypeOK
<1>8. ASSUME NEW v \in Move, StartMove(v) PROVE CopyUndisturbed'
    <2>1. UNCHANGED <<pull, copied>> BY <1>8 DEF StartMove, jobs
    <2>2. CASE pull # NoJob \/ Migrating
        <3>1. UNCHANGED <<migration, stayed>> BY <1>8, <2>2 DEF StartMove
        <3>2. \A u \in Move : moved'[u] \in {"copying", "complete"} => moved[u] = moved'[u]
            BY <1>8, <2>2 DEF StartMove, PullTypeOK
        <3> QED BY <2>1, <3>1, <3>2 DEF CopyUndisturbed, Migrating, PullTypeOK
    <2>3. CASE ~(pull # NoJob \/ Migrating)
        <3>1. \A u \in Move : moved'[u] = "complete" => u # v /\ moved[u] = "complete"
                                                        /\ stayed'[u] = stayed[u]
            BY <1>8, <2>3 DEF StartMove, PullTypeOK
        <3> QED BY <2>1, <2>3, <3>1 DEF CopyUndisturbed
    <2> QED BY <2>2, <2>3
<1>9. ASSUME NEW v \in Move, EndMove(v) PROVE CopyUndisturbed'
    <2>1. UNCHANGED <<pull, migration, stayed, copied>> BY <1>9 DEF EndMove, jobs
    <2>2. \A u \in Move : moved'[u] = "copying" => moved[u] = "copying" BY <1>9 DEF EndMove, PullTypeOK
    <2>3. \A u \in Move : moved'[u] = "complete" => moved[u] = "complete" \/ stayed[u] \X {u} \subseteq copied
        BY <1>9 DEF EndMove, PullTypeOK
    <2> QED BY <2>1, <2>2, <2>3 DEF CopyUndisturbed, Migrating, PullTypeOK
<1>10. ASSUME NEW v \in Move, NEW m \in Model, CopyFile(v, m) PROVE CopyUndisturbed'
    <2>1. UNCHANGED <<pull, migration, stayed>> /\ copied \subseteq copied' BY <1>10 DEF CopyFile, jobs
    <2>2. \A u \in Move : moved'[u] \in {"copying", "complete"} => moved[u] = moved'[u]
        BY <1>10 DEF CopyFile, PullTypeOK
    <2> QED BY <2>1, <2>2 DEF CopyUndisturbed, Migrating, PullTypeOK
<1>11. ASSUME NEW m \in Model, DeleteModel(m) PROVE CopyUndisturbed'
    <2>1. UNCHANGED <<pull, moved, migration, copied>> BY <1>11 DEF DeleteModel, jobs
    <2>2. \A u \in Move : moved[u] = "complete" => stayed'[u] = stayed[u]
        BY <1>11 DEF DeleteModel, PullTypeOK
    <2> QED BY <2>1, <2>2 DEF CopyUndisturbed, Migrating
<1> QED BY <1>1, <1>2, <1>3, <1>4, <1>5, <1>6, <1>7, <1>8, <1>9, <1>10, <1>11 DEF PullNext, Worker

\* startPull and startMigration look at each other under one lock, and copyStorage creates
\* every file itself: for any number of downloads, migrations and deletions.
THEOREM CopiesAreWhole == PullSpec => []CopyUndisturbed
<1>1. PullInit => CopyUndisturbed BY DEF PullInit, CopyUndisturbed, Migrating
<1> QED BY <1>1, CopyNext, SoundAlways, PTL DEF PullSpec

-----------------------------------------------------------------------------
(***************************************************************************)
(* Pairing.  Fresh says that a token on its way is unknown to everybody:   *)
(* that is what makes a rotation sign the others out.  Kept says where the *)
(* token of a rotation is, as long as no two have overlapped.  OneKey      *)
(* follows the race of the agents to the one key in the file.              *)
(***************************************************************************)

Fresh ==
    /\ running <= drawn /\ stored <= drawn
    /\ \A b \in Browser : cookie[b] = NoCookie \/ cookie[b] <= drawn
    /\ \A r \in rotation : r.token <= drawn /\ r.token # running
    /\ \A r \in rotation, b \in Browser : cookie[b] # r.token
    /\ \A r, q \in rotation : r.token = q.token => r = q

Kept ==
    ~overlapped =>
        /\ \A r, q \in rotation : r = q
        /\ rotation = {} => stored = running
        /\ \A r \in rotation : stored = IF r.kept THEN r.token ELSE running

OneKey ==
    /\ \A a \in Agent : agent[a].at = "running" => keyFile = agent[a].key /\ keyFile \in Agent
    /\ \A a \in Agent : agent[a].at = "writing" => keyFile = "created" /\ agent[a].key = a
    /\ \A a, b \in Agent : agent[a].at = "writing" /\ agent[b].at = "writing" => a = b

-----------------------------------------------------------------------------
\* A rotation and its two halves keep the requests in progress well-typed.
LEMMA TypeRotation ==
    ASSUME PairingTypeOK, NEW r \in rotation
    PROVE  /\ r.by \in Browser /\ r.token \in Token /\ r.kept \in BOOLEAN
           /\ [r EXCEPT !.kept = TRUE] \in [by : Browser, token : Token, kept : BOOLEAN]
BY DEF PairingTypeOK

\* Each agent stays at one of its program points, with a key or none.
LEMMA TypeAgent ==
    ASSUME PairingTypeOK, NEW a \in Agent, NEW k \in Agent \cup {NoKey},
           NEW p \in {"off", "generating", "writing", "running", "failed"}, AgentAt(a, p, k)
    PROVE  agent' \in [Agent -> [at : {"off", "generating", "writing", "running", "failed"},
                                 key : Agent \cup {NoKey}]]
BY DEF PairingTypeOK, AgentAt

\* Nobody is recognised at first.
LEMMA PairingTypeInit == PairingInit => PairingTypeOK
<1> SUFFICES ASSUME PairingInit PROVE PairingTypeOK OBVIOUS
<1>1. overlapped \in BOOLEAN BY Zenon DEF PairingInit
<1>2. stored \in Token /\ running \in Token /\ drawn \in Token
    BY PairingAssumption DEF PairingInit, Token
<1>3. cookie \in [Browser -> Token \cup {NoCookie}] BY DEF PairingInit
<1>4. agent \in [Agent -> [at : {"off", "generating", "writing", "running", "failed"},
                           key : Agent \cup {NoKey}]]
    BY DEF PairingInit
<1> QED BY <1>1, <1>2, <1>3, <1>4 DEF PairingInit, PairingTypeOK

\* One step per action, or per half of the module.
LEMMA PairingTypeNext == PairingTypeOK /\ OneKey /\ [PairingNext]_pairingVars => PairingTypeOK'
<1> SUFFICES ASSUME PairingTypeOK, OneKey, [PairingNext]_pairingVars PROVE PairingTypeOK' OBVIOUS
<1>1. CASE UNCHANGED pairingVars BY <1>1 DEF PairingTypeOK, pairingVars, pairing, identity
<1>2. ASSUME NEW b \in Browser, Logout(b) \/ Age(b) \/ \E t \in Token : Login(b, t) PROVE PairingTypeOK'
    <2>1. cookie' \in [Browser -> Token \cup {NoCookie}] /\ expired' \subseteq Browser
        BY <1>2 DEF Logout, Age, Login, PairingTypeOK
    <2>2. UNCHANGED <<stored, running, rotation, drawn, overlapped, identity>>
        BY <1>2 DEF Logout, Age, Login
    <2> QED BY <2>1, <2>2 DEF PairingTypeOK, identity
<1>3. ASSUME NEW b \in Browser, BeginRotate(b) PROVE PairingTypeOK'
    <2>1. drawn' \in Token BY <1>3, PairingAssumption DEF BeginRotate, PairingTypeOK, Token
    <2>2. rotation' \subseteq [by : Browser, token : Token, kept : BOOLEAN]
        <3>1. drawn + 1 \in Token BY <1>3, <2>1 DEF BeginRotate
        <3>2. rotation' = rotation \cup {[by |-> b, token |-> drawn + 1, kept |-> FALSE]}
            BY <1>3 DEF BeginRotate
        <3>3. [by |-> b, token |-> drawn + 1, kept |-> FALSE]
                  \in [by : Browser, token : Token, kept : BOOLEAN] BY <3>1
        <3> QED BY <3>2, <3>3 DEF PairingTypeOK
    <2> QED BY <1>3, <2>1, <2>2 DEF BeginRotate, PairingTypeOK, identity
<1>4. ASSUME NEW r \in rotation, Persist(r) PROVE PairingTypeOK'
    <2>1. rotation' \subseteq [by : Browser, token : Token, kept : BOOLEAN]
        BY <1>4, TypeRotation DEF Persist, PairingTypeOK
    <2>2. stored' \in Token BY <1>4, TypeRotation DEF Persist, PairingTypeOK
    <2> QED BY <1>4, <2>1, <2>2 DEF Persist, PairingTypeOK, identity
<1>5. ASSUME NEW r \in rotation, Swap(r) PROVE PairingTypeOK'
    <2>1. cookie' \in [Browser -> Token \cup {NoCookie}] /\ running' \in Token
        BY <1>5, TypeRotation DEF Swap, PairingTypeOK
    <2> QED BY <1>5, <2>1 DEF Swap, PairingTypeOK, identity
<1>6. CASE RestartConsole BY <1>6 DEF RestartConsole, PairingTypeOK, identity
<1>7. ASSUME NEW a \in Agent, StartsIdentity(a) \/ RestartAgent(a) PROVE PairingTypeOK'
    <2>1. UNCHANGED pairing
        BY <1>7 DEF StartsIdentity, LoadIdentity, CreateIdentity, WriteIdentity, RestartAgent
    <2>2. keyFile' \in {"absent", "created"} \cup Agent
        BY <1>7 DEF StartsIdentity, LoadIdentity, CreateIdentity, WriteIdentity, RestartAgent,
           PairingTypeOK, OneKey
    <2>3. agent' \in [Agent -> [at : {"off", "generating", "writing", "running", "failed"},
                                key : Agent \cup {NoKey}]]
        <3>1. CASE LoadIdentity(a) BY <3>1, TypeAgent DEF LoadIdentity, PairingTypeOK
        <3>2. CASE CreateIdentity(a) BY <3>2, TypeAgent DEF CreateIdentity, PairingTypeOK
        <3>3. CASE WriteIdentity(a) BY <3>3, TypeAgent DEF WriteIdentity, OneKey
        <3>4. CASE RestartAgent(a) BY <3>4, TypeAgent DEF RestartAgent
        <3> QED BY <1>7, <3>1, <3>2, <3>3, <3>4 DEF StartsIdentity
    <2> QED BY <2>1, <2>2, <2>3 DEF PairingTypeOK, pairing
<1> QED BY <1>1, <1>2, <1>3, <1>4, <1>5, <1>6, <1>7 DEF PairingNext

-----------------------------------------------------------------------------
\* What an agent's step does to it, and not to the others.
LEMMA OneAgent ==
    ASSUME PairingTypeOK, NEW a \in Agent, NEW p, NEW k, AgentAt(a, p, k)
    PROVE  /\ agent'[a].at = p /\ agent'[a].key = k
           /\ \A b \in Agent : b # a => agent'[b] = agent[b]
BY DEF PairingTypeOK, AgentAt

\* No agent has begun.
LEMMA OneKeyInit == PairingInit => OneKey
BY DEF PairingInit, OneKey

\* An agent creates the file only if there is none, and only the one that did writes it.
LEMMA OneKeyNext == PairingTypeOK /\ OneKey /\ [PairingNext]_pairingVars => OneKey'
<1> SUFFICES ASSUME PairingTypeOK, OneKey, [PairingNext]_pairingVars PROVE OneKey' OBVIOUS
<1>1. ASSUME UNCHANGED identity PROVE OneKey' BY <1>1 DEF OneKey, identity
<1>2. ASSUME NEW b \in Browser, Logout(b) \/ Age(b) \/ BeginRotate(b) \/ \E t \in Token : Login(b, t)
      PROVE OneKey'
    BY <1>2, <1>1 DEF Logout, Age, BeginRotate, Login
<1>3. ASSUME NEW r \in rotation, Persist(r) \/ Swap(r) PROVE OneKey' BY <1>3, <1>1 DEF Persist, Swap
<1>4. CASE RestartConsole BY <1>4, <1>1 DEF RestartConsole
<1>5. ASSUME NEW a \in Agent, LoadIdentity(a) \/ RestartAgent(a) PROVE OneKey'
    <2>1. keyFile' = keyFile BY <1>5 DEF LoadIdentity, RestartAgent
    <2>2. \A b \in Agent : b # a => agent'[b] = agent[b]
        BY <1>5, OneAgent DEF LoadIdentity, RestartAgent
    <2>3. agent'[a].at # "writing" BY <1>5, OneAgent DEF LoadIdentity, RestartAgent
    <2>4. agent'[a].at = "running" => agent'[a].key = keyFile /\ keyFile \in Agent
        BY <1>5, OneAgent DEF LoadIdentity, RestartAgent, PairingTypeOK
    <2> QED BY <2>1, <2>2, <2>3, <2>4 DEF OneKey
<1>6. ASSUME NEW a \in Agent, CreateIdentity(a) PROVE OneKey'
    <2>1. \A b \in Agent : b # a => agent'[b] = agent[b] BY <1>6, OneAgent DEF CreateIdentity
    <2>2. CASE keyFile = "absent"
        <3>1. keyFile' = "created" /\ agent'[a].at = "writing" /\ agent'[a].key = a
            BY <1>6, <2>2, OneAgent DEF CreateIdentity
        <3>2. \A b \in Agent : agent[b].at \notin {"running", "writing"}
            BY <2>2, PairingAssumption DEF OneKey
        <3> QED BY <2>1, <3>1, <3>2 DEF OneKey
    <2>3. CASE keyFile # "absent"
        <3>1. keyFile' = keyFile /\ agent'[a].at # "writing" BY <1>6, <2>3, OneAgent DEF CreateIdentity
        <3>2. agent'[a].at = "running" => agent'[a].key = keyFile /\ keyFile \in Agent
            BY <1>6, <2>3, OneAgent DEF CreateIdentity, PairingTypeOK
        <3> QED BY <2>1, <3>1, <3>2 DEF OneKey
    <2> QED BY <2>2, <2>3
<1>7. ASSUME NEW a \in Agent, WriteIdentity(a) PROVE OneKey'
    <2>1. \A b \in Agent : b # a => agent'[b] = agent[b] /\ agent[b].at \notin {"running", "writing"}
        BY <1>7, OneAgent, PairingAssumption DEF WriteIdentity, OneKey
    <2>2. agent'[a].at = "failed" \/ (agent'[a].at = "running" /\ agent'[a].key = a /\ keyFile' = a)
        BY <1>7, OneAgent DEF WriteIdentity, OneKey
    <2> QED BY <2>1, <2>2 DEF OneKey
<1> QED BY <1>1, <1>2, <1>3, <1>4, <1>5, <1>6, <1>7 DEF PairingNext, StartsIdentity, pairingVars

\* Types and the one key hold always.
LEMMA TypedAlways == PairingSpec => [](PairingTypeOK /\ OneKey)
BY PairingTypeInit, PairingTypeNext, OneKeyInit, OneKeyNext, PTL DEF PairingSpec

-----------------------------------------------------------------------------
\* Tokens are numbers, and no token is taken for no cookie.
Numbers ==
    /\ stored \in Nat /\ running \in Nat /\ drawn \in Nat /\ MaxTokens \in Nat /\ drawn <= MaxTokens
    /\ \A r \in rotation : r.token \in Nat /\ r.by \in Browser
    /\ \A b \in Browser : cookie[b] \in Nat

LEMMA TokensCompare == PairingTypeOK => Numbers
<1> SUFFICES ASSUME PairingTypeOK PROVE Numbers OBVIOUS
<1>1. stored \in Nat /\ running \in Nat /\ drawn \in Nat /\ drawn <= MaxTokens
    BY PairingAssumption DEF PairingTypeOK, Token
<1>2. \A r \in rotation : r.token \in Token /\ r.by \in Browser BY TypeRotation
<1>3. \A b \in Browser : cookie[b] \in Token \cup {NoCookie} BY DEF PairingTypeOK
<1> QED BY <1>1, <1>2, <1>3, PairingAssumption DEF Numbers, Token, NoCookie

\* Token 0 is the only one known.
LEMMA FreshInit == PairingInit => Fresh
BY DEF PairingInit, Fresh

\* One step per action that touches a token.
LEMMA FreshNext == PairingTypeOK /\ Fresh /\ [PairingNext]_pairingVars => Fresh'
<1> SUFFICES ASSUME PairingTypeOK, Fresh, [PairingNext]_pairingVars PROVE Fresh' OBVIOUS
<1>0. Numbers BY TokensCompare
<1>1. ASSUME UNCHANGED <<stored, running, cookie, rotation, drawn>> PROVE Fresh'
    BY <1>1 DEF Fresh, NoCookie
<1>2. ASSUME NEW b \in Browser, Logout(b) \/ \E t \in Token : Login(b, t) PROVE Fresh'
    <2>1. UNCHANGED <<stored, running, rotation, drawn>> BY <1>2 DEF Logout, Login
    <2>2. \A c \in Browser : cookie'[c] \in {cookie[c], running, NoCookie}
        BY <1>2 DEF Logout, Login, PairingTypeOK
    <2> QED BY <2>1, <2>2, <1>0 DEF Fresh, NoCookie, Numbers
<1>3. ASSUME NEW b \in Browser, BeginRotate(b) PROVE Fresh'
    <2>1. drawn' = drawn + 1 /\ UNCHANGED <<stored, running, cookie>> BY <1>3 DEF BeginRotate
    <2>2. \A r \in rotation' : r \in rotation \/ r = [by |-> b, token |-> drawn + 1, kept |-> FALSE]
        BY <1>3 DEF BeginRotate
    <2>3. \A c \in Browser : cookie[c] # drawn + 1
        BY <1>3, <1>0 DEF Fresh, BeginRotate, NoCookie, Numbers
    <2>4. \A r \in rotation' : r \in rotation \/ r.token = drawn + 1 BY <2>2
    <2>5. \A r \in rotation : r.token # drawn + 1 BY <1>0 DEF Fresh, Numbers
    <2>6. \A r \in rotation' : r.token <= drawn' /\ r.token # running'
        BY <2>1, <2>4, <1>0 DEF Fresh, Numbers
    <2>7. \A r \in rotation', c \in Browser : cookie'[c] # r.token
        BY <2>1, <2>3, <2>4 DEF Fresh
    <2>8. \A r, q \in rotation' : r.token = q.token => r = q
        <3>1. SUFFICES ASSUME NEW r \in rotation', NEW q \in rotation', r.token = q.token PROVE r = q
            OBVIOUS
        <3>2. CASE r.token = drawn + 1 BY <3>1, <3>2, <2>2, <2>5
        <3>3. CASE r.token # drawn + 1 BY <3>1, <3>3, <2>4 DEF Fresh
        <3> QED BY <3>2, <3>3
    <2>9. running' <= drawn' /\ stored' <= drawn' BY <2>1, <1>0 DEF Fresh, Numbers
    <2>10. \A c \in Browser : cookie'[c] = NoCookie \/ cookie'[c] <= drawn'
        BY <2>1, <1>0 DEF Fresh, Numbers
    <2> QED BY <2>6, <2>7, <2>8, <2>9, <2>10 DEF Fresh, NoCookie
<1>4. ASSUME NEW r \in rotation, Persist(r) PROVE Fresh'
    <2>1. UNCHANGED <<running, cookie, drawn>> /\ stored' \in {stored, r.token} BY <1>4 DEF Persist
    <2>2. \A q \in rotation' : \/ q \in rotation /\ q # r
                               \/ q = [r EXCEPT !.kept = TRUE] /\ q.token = r.token
        BY <1>4, TypeRotation DEF Persist, PairingTypeOK
    <2> QED BY <2>1, <2>2, <1>0 DEF Fresh, NoCookie, Numbers
<1>5. ASSUME NEW r \in rotation, Swap(r) PROVE Fresh'
    <2>1. UNCHANGED <<stored, drawn>> /\ running' = r.token /\ rotation' = rotation \ {r}
        BY <1>5 DEF Swap
    <2>2. \A c \in Browser : cookie'[c] \in {cookie[c], r.token} BY <1>5 DEF Swap, PairingTypeOK
    <2> QED BY <2>1, <2>2, <1>0 DEF Fresh, NoCookie, Numbers
<1>6. CASE RestartConsole BY <1>6 DEF RestartConsole, Fresh, NoCookie
<1>7. ASSUME NEW b \in Browser, Age(b) PROVE Fresh' BY <1>7, <1>1 DEF Age
<1>8. ASSUME NEW a \in Agent, StartsIdentity(a) \/ RestartAgent(a) PROVE Fresh'
    BY <1>8, <1>1 DEF StartsIdentity, LoadIdentity, CreateIdentity, WriteIdentity, RestartAgent, pairing
<1> QED BY <1>1, <1>2, <1>3, <1>4, <1>5, <1>6, <1>7, <1>8 DEF PairingNext, pairingVars, pairing

-----------------------------------------------------------------------------
\* Nothing is rotated at first.
LEMMA KeptInit == PairingInit => Kept
BY DEF PairingInit, Kept

\* One step per action of a rotation, as long as there is one at a time.
LEMMA KeptNext == PairingTypeOK /\ Kept /\ [PairingNext]_pairingVars => Kept'
<1> SUFFICES ASSUME PairingTypeOK, Kept, [PairingNext]_pairingVars, ~overlapped' PROVE Kept'
    BY DEF Kept
<1>1. ASSUME UNCHANGED <<stored, running, rotation, overlapped>> PROVE Kept'
    BY <1>1 DEF Kept
<1>2. ASSUME NEW b \in Browser, Logout(b) \/ Age(b) \/ \E t \in Token : Login(b, t) PROVE Kept'
    BY <1>2, <1>1 DEF Logout, Age, Login
<1>3. ASSUME NEW b \in Browser, BeginRotate(b) PROVE Kept'
    <2>1. /\ ~overlapped /\ rotation = {}
          /\ rotation' = {[by |-> b, token |-> drawn + 1, kept |-> FALSE]}
        BY <1>3 DEF BeginRotate, PairingTypeOK
    <2>2. stored' = running' BY <1>3, <2>1 DEF BeginRotate, Kept
    <2> QED BY <2>1, <2>2 DEF Kept
<1>4. ASSUME NEW r \in rotation, Persist(r) PROVE Kept'
    <2>0. ~overlapped BY <1>4 DEF Persist
    <2>1. rotation = {r} /\ running' = running BY <1>4, <2>0 DEF Kept, Persist
    <2>2. CASE stored' = r.token /\ rotation' = (rotation \ {r}) \cup {[r EXCEPT !.kept = TRUE]}
        <3>1. rotation' = {[r EXCEPT !.kept = TRUE]} BY <2>1, <2>2
        <3>2. [r EXCEPT !.kept = TRUE].kept /\ [r EXCEPT !.kept = TRUE].token = r.token
            BY DEF PairingTypeOK
        <3> QED BY <2>2, <3>1, <3>2 DEF Kept
    <2>3. CASE rotation' = rotation \ {r} /\ UNCHANGED stored
        <3>1. rotation' = {} BY <2>1, <2>3
        <3>2. stored' = running' BY <1>4, <2>0, <2>1, <2>3 DEF Kept, Persist
        <3> QED BY <3>1, <3>2 DEF Kept
    <2> QED BY <1>4, <2>2, <2>3 DEF Persist
<1>5. ASSUME NEW r \in rotation, Swap(r) PROVE Kept'
    <2>0. ~overlapped BY <1>5 DEF Swap
    <2>1. rotation' = {} BY <1>5, <2>0 DEF Kept, Swap
    <2>2. stored' = running' BY <1>5, <2>0 DEF Kept, Swap
    <2> QED BY <2>1, <2>2 DEF Kept
<1>6. CASE RestartConsole BY <1>6 DEF RestartConsole, Kept
<1>7. ASSUME NEW a \in Agent, StartsIdentity(a) \/ RestartAgent(a) PROVE Kept'
    BY <1>7, <1>1 DEF StartsIdentity, LoadIdentity, CreateIdentity, WriteIdentity, RestartAgent, pairing
<1> QED BY <1>1, <1>2, <1>3, <1>4, <1>5, <1>6, <1>7 DEF PairingNext, pairingVars, pairing

-----------------------------------------------------------------------------
\* LoadOrGenerate and the rotation, over restarts and failures of each half: the node uses
\* what it stored, until two rotations overlap; the next start makes that good again.
THEOREM NodeUsesWhatItStored == PairingSpec => []StoredIsUsed
<1>1. PairingTypeOK /\ OneKey /\ Kept => StoredIsUsed BY DEF StoredIsUsed, OneKey, Kept
<1> QED BY <1>1, TypedAlways, KeptInit, KeptNext, PTL DEF PairingSpec

\* The identity's race needs no assumption: no two agents of one directory run under
\* different keys.
THEOREM AgentsAgree ==
    PairingSpec => [](\A a, b \in Agent :
        agent[a].at = "running" /\ agent[b].at = "running" => agent[a].key = agent[b].key)
<1>1. OneKey => \A a, b \in Agent :
        agent[a].at = "running" /\ agent[b].at = "running" => agent[a].key = agent[b].key
    BY DEF OneKey
<1> QED BY <1>1, TypedAlways, PTL

\* The answer of /api/session/rotate leaves only its own browser signed in, whatever
\* rotations, logins and restarts it overlaps.
THEOREM RotationSignsOut == PairingSpec => RotationRevokes
<1> DEFINE Revoked == \A r \in rotation : cookie'[r.by] = r.token =>
                 /\ running' = r.token
                 /\ {b \in Browser : cookie'[b] = running' /\ b \notin expired'} = {r.by}
<1>1. PairingTypeOK /\ Fresh /\ [PairingNext]_pairingVars => Revoked
    <2> SUFFICES ASSUME PairingTypeOK, Fresh, [PairingNext]_pairingVars,
                        NEW r \in rotation, cookie'[r.by] = r.token
                 PROVE  /\ running' = r.token
                        /\ {b \in Browser : cookie'[b] = running' /\ b \notin expired'} = {r.by}
        OBVIOUS
    <2>0. Numbers BY TokensCompare
    <2>1. cookie[r.by] # r.token /\ r.token # running /\ r.token # NoCookie /\ r.by \in Browser
        BY <2>0 DEF Fresh, NoCookie, Numbers
    <2>2. \A b \in Browser : ~(Logout(b) \/ \E t \in Token : Login(b, t))
        BY <2>1 DEF Logout, Login, PairingTypeOK
    <2>3. cookie' # cookie BY <2>1
    <2>4. PICK q \in rotation : Swap(q)
        BY <2>2, <2>3 DEF PairingNext, pairingVars, pairing, Age, BeginRotate, Persist, RestartConsole,
           StartsIdentity, LoadIdentity, CreateIdentity, WriteIdentity, RestartAgent
    <2>5. q.by \in Browser /\ cookie' = [cookie EXCEPT ![q.by] = q.token]
        BY <2>4, <2>0 DEF Swap, Numbers
    <2>6. cookie'[r.by] = q.token BY <2>1, <2>5 DEF PairingTypeOK
    <2>7. q = r BY <2>6 DEF Fresh
    <2>8. running' = r.token /\ expired' = expired \ {r.by} BY <2>4, <2>7 DEF Swap
    <2>9. \A b \in Browser : b # r.by => cookie'[b] # r.token
        BY <2>5, <2>7 DEF PairingTypeOK, Fresh
    <2> QED BY <2>1, <2>8, <2>9
<1>2. Revoked => [Revoked]_pairingVars OBVIOUS
<1> QED BY <1>1, TypedAlways, FreshInit, FreshNext, PTL DEF PairingSpec, RotationRevokes

-----------------------------------------------------------------------------
(***************************************************************************)
(* The ledger.  Books says that the list is in the order of settlement,    *)
(* that the map and the total follow the list, that no receipt is counted  *)
(* twice, and what of the gateway's window has been shown (Replayed).      *)
(***************************************************************************)

\* No receipt as new as this was ever taken; the oldest receipt still to be read.
Unseen(r) == \A n \in DOMAIN settlementHistory : settlementHistory[n] < r
Unread == issued - Len(wire) + 1

\* The list is in the order of settlement and as long as it shows.
Listed ==
    /\ settlements = ToSet(settlementHistory)
    /\ \A n \in DOMAIN settlementHistory : settlementHistory[n] <= issued
    /\ \A i, j \in DOMAIN settlementHistory :
          i <= j => settlementHistory[j] - settlementHistory[i] >= j - i
    /\ Len(settlementHistory) <= Capacity

\* The map and the total follow the list.
Summed ==
    /\ IsFiniteSet(settlements) /\ Cardinality(settlements) = Len(settlementHistory)
    /\ IsFiniteSet(Paid(settlements)) /\ earnings = Income(settlements)

\* Every receipt is counted at most once, and none newer than all that were taken.
Once ==
    /\ counted \in [1..MaxReceipts -> 0..1]
    /\ \A r \in 1..MaxReceipts : Unseen(r) => counted[r] = 0

\* A session carries every receipt from the one it reads next to the last.
Carried ==
    /\ ~linked => wire = <<>>
    /\ Len(wire) <= issued /\ \A n \in DOMAIN wire : wire[n] = issued - Len(wire) + n

\* Of the gateway's window, what the session has read is shown, and so is what is not newer
\* than every receipt taken before.
Replayed ==
    /\ linked => \A r \in 1..issued : r > issued - Window /\ r < Unread => r \in settlements
    /\ \A r \in 1..issued :
          ~Unseen(r) /\ (IF linked THEN r >= Unread ELSE r > issued - Window)
             => r \in settlements

Books == LedgerTypeOK /\ Listed /\ Summed /\ Once /\ Carried /\ Replayed
-----------------------------------------------------------------------------
\* Adding a receipt adds what it pays, and removing one takes it away.
LEMMA PaidMore ==
    ASSUME LedgerAssumption, NEW S \in SUBSET (1..MaxReceipts), IsFiniteSet(Paid(S)),
           NEW r \in (1..MaxReceipts) \ S
    PROVE  /\ IsFiniteSet(Paid(S \cup {r}))
           /\ Income(S) \in Nat /\ Income(S \cup {r}) = Income(S) + Amount[r]
<1> DEFINE n == Amount[r]
<1>1. n \in Nat BY DEF LedgerAssumption
<1>10. Paid({r}) = {r} \X (1..n)
    <2>1. {{q} \X (1..Amount[q]) : q \in {r}} = {{r} \X (1..Amount[r])} OBVIOUS
    <2>2. UNION {{r} \X (1..Amount[r])} = {r} \X (1..Amount[r]) OBVIOUS
    <2> QED BY <2>1, <2>2 DEF Paid
<1> HIDE DEF n
<1>3. IsFiniteSet(1..n) /\ Cardinality(1..n) = n
    <2>1. 0 \in Int /\ 1 \in Int /\ n \in Int BY <1>1
    <2>2. IsFiniteSet(1..n) /\ Cardinality(1..n) = IF 1 > n THEN 0 ELSE n - 1 + 1
        BY ONLY <2>1, FS_Interval
    <2> QED BY <1>1, <2>2
<1>4. IsFiniteSet({r}) /\ Cardinality({r}) = 1 BY FS_Singleton
<1>5. IsFiniteSet({r} \X (1..n)) /\ Cardinality({r} \X (1..n)) = 1 * Cardinality(1..n)
    BY <1>3, <1>4, FS_Product
<1>11. 1 * n = n BY <1>1
<1>6. IsFiniteSet(Paid({r})) /\ Cardinality(Paid({r})) = n BY <1>3, <1>5, <1>10, <1>11
<1>7. Paid(S \cup {r}) = Paid(S) \cup Paid({r}) /\ Paid(S) \cap Paid({r}) = {} BY DEF Paid
<1>8. /\ IsFiniteSet(Paid(S) \cup Paid({r}))
      /\ Cardinality(Paid(S) \cup Paid({r}))
            = Cardinality(Paid(S)) + Cardinality(Paid({r})) - Cardinality({})
      /\ Cardinality({}) = 0
    <2>1. IsFiniteSet(Paid(S)) /\ IsFiniteSet(Paid({r})) BY <1>6
    <2>2. /\ IsFiniteSet(Paid(S) \cup Paid({r}))
          /\ Cardinality(Paid(S) \cup Paid({r}))
                = Cardinality(Paid(S)) + Cardinality(Paid({r}))
                    - Cardinality(Paid(S) \cap Paid({r}))
        BY ONLY <2>1, FS_Union
    <2>3. Paid(S) \cap Paid({r}) = {} BY <1>7
    <2>4. Cardinality({}) = 0 BY ONLY FS_EmptySet
    <2> QED BY ONLY <2>2, <2>3, <2>4
<1>9. Cardinality(Paid(S)) \in Nat BY FS_CardinalityType
<1>12. Cardinality(Paid(S \cup {r})) = Cardinality(Paid(S)) + n
    <2>1. Cardinality(Paid(S \cup {r})) = Cardinality(Paid(S)) + n - 0
        BY <1>6, <1>7, <1>8
    <2>2. \A c \in Nat : c + n - 0 = c + n BY <1>1
    <2> QED BY <1>9, <2>1, <2>2
<1>13. IsFiniteSet(Paid(S \cup {r})) BY <1>7, <1>8
<1> QED BY <1>9, <1>12, <1>13 DEF Income, n

\* A receipt that leaves the list takes what it pays with it.
LEMMA PaidLess ==
    ASSUME LedgerAssumption, NEW S \in SUBSET (1..MaxReceipts), IsFiniteSet(Paid(S)), NEW r \in S
    PROVE  /\ IsFiniteSet(Paid(S \ {r}))
           /\ Income(S \ {r}) \in Nat /\ Income(S \ {r}) = Income(S) - Amount[r]
<1>1. Paid(S \ {r}) \subseteq Paid(S) BY DEF Paid
<1>2. IsFiniteSet(Paid(S \ {r})) BY <1>1, FS_Subset
<1>3. (S \ {r}) \cup {r} = S /\ r \in (1..MaxReceipts) \ (S \ {r}) OBVIOUS
<1>7. Amount[r] \in Nat BY <1>3 DEF LedgerAssumption
<1> DEFINE T == S \ {r}
<1>4. T \in SUBSET (1..MaxReceipts) /\ IsFiniteSet(Paid(T)) /\ r \in (1..MaxReceipts) \ T
    BY <1>2, <1>3
<1>5. T \cup {r} = S BY <1>3
<1> HIDE DEF T
<1>6. Income(T) \in Nat /\ Income(T \cup {r}) = Income(T) + Amount[r] BY <1>4, PaidMore
<1>8. Income(S) = Income(T) + Amount[r] BY <1>5, <1>6
<1>9. Income(T) = Income(S) - Amount[r] BY <1>6, <1>7, <1>8
<1> QED BY <1>2, <1>6, <1>9 DEF T

-----------------------------------------------------------------------------
\* A receipt that is new goes to the end of the list; one that is not on it any more does
\* not come.
LEMMA NewIsNewest ==
    ASSUME LedgerAssumption, Books, wire # <<>>, Head(wire) \notin settlements
    PROVE  Unseen(Head(wire)) /\ counted[Head(wire)] = 0
<1>1. /\ linked /\ Len(wire) \in Nat \ {0} /\ Head(wire) = wire[1] /\ 1 \in DOMAIN wire
    BY EmptySeq, LenProperties DEF Books, LedgerTypeOK, Carried
<1>2. Head(wire) = Unread /\ Head(wire) \in 1..issued /\ Head(wire) \in 1..MaxReceipts
    BY <1>1 DEF Books, Carried, Unread, LedgerTypeOK, LedgerAssumption
<1>3. Unseen(Head(wire))
    <2>1. Head(wire) >= Unread BY <1>2
    <2> QED BY <1>1, <1>2, <2>1 DEF Books, Replayed
<1> QED BY <1>2, <1>3 DEF Books, Once

\* What Settle does with a new receipt, room or not.
LEMMA SettleNew ==
    ASSUME LedgerAssumption, Books, NEW h \in 1..issued, h \notin settlements, Unseen(h), counted[h] = 0,
           Settle(h), UNCHANGED issued
    PROVE  /\ Listed' /\ Summed' /\ Once'
           /\ h \in settlements'
           /\ \A r \in settlements : r > issued - Window => r \in settlements'
           /\ \A r \in 1..issued : r > h => Unseen(r)'
           /\ settlementHistory' \in Seq(1..MaxReceipts) /\ settlements' \subseteq 1..MaxReceipts
           /\ earnings' \in Nat
<1> DEFINE full == Append(settlementHistory, h)
           len  == Len(settlementHistory)
           old  == Head(full)
           more == settlements \cup {h}
<1>0. LedgerTypeOK /\ Listed /\ Summed /\ Once /\ h \in 1..MaxReceipts /\ issued \in Nat
    BY DEF Books, LedgerTypeOK, LedgerAssumption
<1>1. /\ settlementHistory' = IF len + 1 > Capacity THEN Tail(full) ELSE full
      /\ settlements' = more \ (IF len + 1 > Capacity THEN {old} ELSE {})
      /\ earnings' = earnings + Amount[h] - (IF len + 1 > Capacity THEN Amount[old] ELSE 0)
      /\ counted' = [counted EXCEPT ![h] = @ + 1]
    <2>1. Len(full) = len + 1 BY <1>0, AppendProperties DEF LedgerTypeOK
    <2> QED BY <2>1 DEF Settle
<1>2. /\ full \in Seq(1..MaxReceipts) /\ full # <<>> /\ Len(full) = len + 1
      /\ len \in Nat /\ DOMAIN settlementHistory = 1..len /\ DOMAIN full = 1..(len + 1)
      /\ \A i \in 1..len : full[i] = settlementHistory[i]
      /\ full[len + 1] = h /\ old = full[1]
    <2>1. settlementHistory \in Seq(1..MaxReceipts) /\ h \in 1..MaxReceipts
        BY <1>0 DEF LedgerTypeOK
    <2>2. len \in Nat /\ DOMAIN settlementHistory = 1..len BY <2>1, LenProperties
    <2>3. /\ full \in Seq(1..MaxReceipts) /\ full # <<>> /\ Len(full) = len + 1
          /\ \A i \in 1..len : full[i] = settlementHistory[i]
          /\ full[len + 1] = h
        <3> DEFINE R == 1..MaxReceipts
        <3>1. settlementHistory \in Seq(R) /\ h \in R BY <2>1
        <3> HIDE DEF R
        <3>2. /\ full \in Seq(R) /\ full # <<>> /\ Len(full) = len + 1
              /\ full[len + 1] = h
            BY <3>1, AppendProperties
        <3>3. \A i \in 1..len : full[i] = settlementHistory[i] BY <3>1, AppendProperties
        <3> QED BY <3>2, <3>3 DEF R
    <2>4. DOMAIN full = 1..(len + 1) BY <2>3, LenProperties
    <2>5. old = full[1] BY <2>3
    <2> QED BY <2>2, <2>3, <2>4, <2>5
<1>3. \A i \in 1..(len + 1) : full[i] \in 1..MaxReceipts BY <1>2, ElementOfSeq
<1>12. len = Len(settlementHistory) /\ len \in Nat BY <1>2
<1> HIDE DEF full, len
<1>4. \A i, j \in 1..(len + 1) : i <= j => full[j] - full[i] >= j - i
    <2> SUFFICES ASSUME NEW i \in 1..(len + 1), NEW j \in 1..(len + 1), i <= j
                 PROVE  full[j] - full[i] >= j - i
        OBVIOUS
    <2>1. CASE j <= len
        <3>1. i \in 1..len /\ j \in 1..len BY <1>2, <2>1
        <3> QED BY <1>0, <1>2, <3>1 DEF Listed
    <2>2. CASE j = len + 1 /\ i = len + 1 BY <1>2, <1>3, <2>2
    <2>3. CASE j = len + 1 /\ i <= len
        <3>1. i \in 1..len /\ len \in 1..len BY <1>2, <2>3
        <3>2. settlementHistory[len] - settlementHistory[i] >= len - i
            BY <1>0, <1>2, <2>3, <3>1 DEF Listed
        <3>3. settlementHistory[len] < h BY <1>2, <3>1 DEF Unseen
        <3>4. full[len] \in Int /\ full[i] \in Int /\ h \in Int
            <4>1. len \in 1..(len + 1) BY <1>2, <3>1
            <4> QED BY <1>0, <1>3, <4>1
        <3>5. full[len] - full[i] >= len - i /\ full[len] < h BY <1>2, <3>1, <3>2, <3>3
        <3>6. h - full[i] >= len + 1 - i
            <4>1. i \in Int /\ len \in Int BY <1>12
            <4>2. \A a, b, c, k, m \in Int : a - b >= k - m /\ a < c => c - b >= k + 1 - m
                OBVIOUS
            <4> QED BY ONLY <3>4, <3>5, <4>1, <4>2
        <3> QED BY <1>2, <2>3, <3>6
    <2> QED BY <1>2, <2>1, <2>2, <2>3
<1>5. ToSet(full) = more
    <2>1. ToSet(full) = {full[i] : i \in 1..(len + 1)} BY <1>2 DEF ToSet
    <2>2. settlements = {settlementHistory[i] : i \in 1..len} BY <1>0, <1>2 DEF Listed, ToSet
    <2>3. 1..(len + 1) = (1..len) \cup {len + 1} BY <1>2
    <2>4. {full[i] : i \in 1..(len + 1)} = {full[i] : i \in 1..len} \cup {full[len + 1]}
        BY <2>3
    <2>5. {full[i] : i \in 1..len} = {settlementHistory[i] : i \in 1..len} BY ONLY <1>2
    <2> QED BY <1>2, <2>1, <2>2, <2>4, <2>5
<1>6. /\ IsFiniteSet(more) /\ Cardinality(more) = len + 1
      /\ IsFiniteSet(Paid(more)) /\ Income(more) = earnings + Amount[h] /\ Income(more) \in Nat
      /\ more \subseteq 1..MaxReceipts
    <2>1. IsFiniteSet(more) /\ Cardinality(more) = len + 1
        <3>1. /\ IsFiniteSet(settlements) /\ Cardinality(settlements) = len
              /\ h \notin settlements
            BY <1>0, <1>12 DEF Summed
        <3>2. /\ IsFiniteSet(settlements \cup {h})
              /\ Cardinality(settlements \cup {h})
                    = IF h \in settlements THEN Cardinality(settlements)
                                          ELSE Cardinality(settlements) + 1
            BY ONLY <3>1, FS_AddElement
        <3> QED BY ONLY <3>1, <3>2
    <2>2. settlements \in SUBSET (1..MaxReceipts) /\ h \in (1..MaxReceipts) \ settlements
        BY <1>0 DEF LedgerTypeOK
    <2>3. /\ IsFiniteSet(Paid(more)) /\ Income(settlements) \in Nat
          /\ Income(more) = Income(settlements) + Amount[h]
        BY <1>0, <2>2, PaidMore DEF Summed
    <2>4. Amount[h] \in Nat /\ earnings = Income(settlements)
        BY <1>0 DEF LedgerAssumption, Summed
    <2>5. Income(more) = earnings + Amount[h] BY <2>3, <2>4
    <2>6. earnings + Amount[h] \in Nat BY <2>3, <2>4
    <2>7. more \subseteq 1..MaxReceipts BY <2>2
    <2> QED BY <2>1, <2>3, <2>5, <2>6, <2>7
<1>7. counted' \in [1..MaxReceipts -> 0..1]
    BY <1>0, <1>1 DEF Once
<1>8. \A r \in 1..MaxReceipts : counted'[r] = IF r = h THEN 1 ELSE counted[r]
    BY <1>0, <1>1 DEF Once
<1>9. \A i \in 1..(len + 1) : full[i] <= h /\ full[i] <= issued
    <2> SUFFICES ASSUME NEW i \in 1..(len + 1) PROVE full[i] <= h /\ full[i] <= issued
        OBVIOUS
    <2>1. CASE i = len + 1 BY <1>2, <2>1
    <2>2. CASE i \in 1..len
        <3>1. settlementHistory[i] < h /\ settlementHistory[i] <= issued
            BY <1>0, <1>2, <2>2 DEF Unseen, Listed
        <3>2. settlementHistory[i] \in Int /\ h \in Int BY <1>0, <1>2, <1>3, <2>2
        <3> QED BY <1>2, <2>2, <3>1, <3>2
    <2> QED BY <1>2, <2>1, <2>2
<1>10. CASE ~(len + 1 > Capacity)
    <2>1. settlementHistory' = full /\ settlements' = more /\ earnings' = earnings + Amount[h]
        <3>1. Amount[h] \in Nat BY <1>0 DEF LedgerAssumption
        <3> QED BY <1>0, <1>1, <1>10, <3>1 DEF LedgerTypeOK
    <2>2. Listed'
        <3>1. DOMAIN settlementHistory' = 1..(len + 1) /\ Len(settlementHistory') = len + 1
            BY <1>2, <2>1
        <3>2. settlements' = ToSet(settlementHistory') BY <1>5, <2>1
        <3>3. len + 1 <= Capacity BY <1>10, <1>12 DEF LedgerAssumption
        <3>4. /\ \A i \in 1..(len + 1) : settlementHistory'[i] <= issued'
              /\ \A i, j \in 1..(len + 1) :
                    i <= j => settlementHistory'[j] - settlementHistory'[i] >= j - i
            BY <1>4, <1>9, <2>1
        <3> QED BY <3>1, <3>2, <3>3, <3>4 DEF Listed
    <2>3. Summed' BY <1>2, <1>6, <2>1 DEF Summed
    <2>4. ASSUME NEW r \in 1..MaxReceipts, Unseen(r)' PROVE counted'[r] = 0
        <3>0. \A i \in 1..(len + 1) : full[i] < r BY <1>2, <2>1, <2>4 DEF Unseen
        <3>1. full[len + 1] < r /\ \A i \in 1..len : full[i] < r
            <4>1. len + 1 \in 1..(len + 1) /\ \A i \in 1..len : i \in 1..(len + 1) BY <1>2
            <4> QED BY <3>0, <4>1
        <3>2. r # h BY <1>0, <1>2, <3>1
        <3>3. Unseen(r) BY <1>2, <3>1 DEF Unseen
        <3> QED BY <1>0, <1>8, <3>2, <3>3 DEF Once
    <2>5. \A r \in 1..issued : r > h => Unseen(r)'
        <3> SUFFICES ASSUME NEW r \in 1..issued, r > h, NEW i \in 1..(len + 1) PROVE full[i] < r
            BY <1>2, <2>1 DEF Unseen
        <3> QED BY <1>0, <1>3, <1>9
    <2> QED BY <1>2, <1>6, <1>7, <2>1, <2>2, <2>3, <2>4, <2>5 DEF Once
<1>11. CASE len + 1 > Capacity
    <2>1. len = Capacity /\ Capacity \in Nat \ {0} /\ len >= 1
        <3>1. len <= Capacity /\ Capacity \in Nat \ {0}
            BY <1>0, <1>12 DEF Listed, LedgerAssumption
        <3> QED BY <1>12, <1>11, <3>1
    <2> DEFINE rest == Tail(full)
    <2>2. /\ rest \in Seq(1..MaxReceipts) /\ Len(rest) = len /\ DOMAIN rest = 1..len
          /\ \A i \in 1..len : rest[i] = full[i + 1]
        BY <1>2, HeadTailProperties, LenProperties
    <2>3. settlementHistory' = rest /\ settlements' = more \ {old}
          /\ earnings' = earnings + Amount[h] - Amount[old]
        BY <1>1, <1>11
    <2> HIDE DEF rest
    <2>4. old \in 1..MaxReceipts /\ old \in more /\ old # h /\ old <= issued - Window
        <3>1. 1 \in 1..(len + 1) /\ len + 1 \in 1..(len + 1) /\ 1 \in 1..len BY <1>2, <2>1
        <3>2. full[len + 1] - full[1] >= len /\ full[1] \in Int
            BY <1>2, <1>3, <1>4, <2>1, <3>1
        <3>3. h - old >= len /\ old \in Int BY <1>2, <3>2
        <3>4. Window \in Int /\ Window <= len BY <2>1 DEF LedgerAssumption
        <3>5. old <= issued - Window /\ old # h BY <1>0, <2>1, <3>3, <3>4
        <3>6. old \in settlements BY <1>0, <1>2, <3>1 DEF Listed, ToSet
        <3> QED BY <1>2, <1>3, <3>1, <3>5, <3>6
    <2>5. \A i \in 1..len : rest[i] # old
        <3> SUFFICES ASSUME NEW i \in 1..len PROVE full[i + 1] # full[1]
            BY <1>2, <2>2
        <3>1. i + 1 \in 1..(len + 1) /\ 1 \in 1..(len + 1) /\ 1 <= i + 1 BY <1>2
        <3>2. full[i + 1] - full[1] >= i + 1 - 1 /\ full[i + 1] \in Int /\ full[1] \in Int
            BY <1>3, <1>4, <3>1
        <3> QED BY <1>2, <3>2
    <2>6. ToSet(rest) = more \ {old}
        <3>1. ToSet(rest) = {rest[i] : i \in 1..len} BY <2>2 DEF ToSet
        <3>2. more = {full[i] : i \in 1..(len + 1)} BY <1>2, <1>5 DEF ToSet
        <3>3. \A i \in 1..(len + 1) : i = 1 \/ (i - 1 \in 1..len /\ (i - 1) + 1 = i) BY <1>2
        <3>4. \A i \in 1..len : i + 1 \in 1..(len + 1) BY <1>2
        <3>6. ASSUME NEW x \in ToSet(rest) PROVE x \in more \ {old}
            <4>1. PICK i \in 1..len : x = rest[i] BY <3>1
            <4>2. x = full[i + 1] /\ i + 1 \in 1..(len + 1) BY <2>2, <3>4, <4>1
            <4>3. x # old BY <2>5, <4>1
            <4> QED BY <3>2, <4>2, <4>3
        <3>7. ASSUME NEW x \in more \ {old} PROVE x \in ToSet(rest)
            <4>1. PICK i \in 1..(len + 1) : x = full[i] BY <3>2
            <4>2. i # 1 BY <1>2, <4>1
            <4>3. i - 1 \in 1..len /\ full[(i - 1) + 1] = x BY <3>3, <4>1, <4>2
            <4>4. rest[i - 1] = x BY <2>2, <4>3
            <4> QED BY <3>1, <4>3, <4>4
        <3> QED BY <3>6, <3>7
    <2>7. Listed'
        <3>1. \A i \in 1..len : rest[i] <= issued BY <1>2, <1>9, <2>2
        <3>2. ASSUME NEW i \in 1..len, NEW j \in 1..len, i <= j PROVE rest[j] - rest[i] >= j - i
            <4>1. i + 1 \in 1..(len + 1) /\ j + 1 \in 1..(len + 1) /\ i + 1 <= j + 1
                BY <1>2, <3>2
            <4>2. full[j + 1] - full[i + 1] >= (j + 1) - (i + 1) BY <1>4, <4>1
            <4>3. (j + 1) - (i + 1) = j - i BY <1>2
            <4> QED BY <2>2, <4>2, <4>3
        <3>3. Len(rest) <= Capacity BY <2>1, <2>2
        <3> QED BY <2>2, <2>3, <2>6, <3>1, <3>2, <3>3 DEF Listed
    <2>8. Summed' /\ earnings' \in Nat
        <3>1. IsFiniteSet(more \ {old}) /\ Cardinality(more \ {old}) = len
            <4>1. /\ IsFiniteSet(more \ {old})
                  /\ Cardinality(more \ {old}) = Cardinality(more) - 1
                <5> HIDE DEF more, old
                <5> QED BY <1>6, <2>4, FS_RemoveElement
            <4> QED BY <1>2, <1>6, <4>1
        <3>2. /\ IsFiniteSet(Paid(more \ {old})) /\ Income(more \ {old}) \in Nat
              /\ Income(more \ {old}) = Income(more) - Amount[old]
            <4> HIDE DEF more, old
            <4> QED BY <1>6, <2>4, PaidLess
        <3>3. earnings' = Income(settlements')
            <4>1. Income(more) = earnings + Amount[h] BY <1>6
            <4>2. Income(settlements') = Income(more \ {old}) BY <2>3
            <4>4. earnings \in Int /\ Amount[h] \in Int /\ Amount[old] \in Int
                BY <1>0, <2>4 DEF LedgerTypeOK, LedgerAssumption
            <4>3. Income(more \ {old}) = earnings + Amount[h] - Amount[old]
                <5> HIDE DEF more, old
                <5>1. Income(more) - Amount[old] = earnings + Amount[h] - Amount[old]
                    <6>1. \A a, b, c \in Int : a = b => a - c = b - c OBVIOUS
                    <6>2. earnings + Amount[h] \in Int /\ Income(more) \in Int BY <4>1, <4>4
                    <6> QED BY <4>1, <4>4, <6>1, <6>2
                <5>2. Income(more \ {old}) = Income(more) - Amount[old] BY <3>2
                <5> QED BY <5>1, <5>2
            <4> QED BY <2>3, <4>2, <4>3
        <3>4. IsFiniteSet(settlements') /\ Cardinality(settlements') = Len(settlementHistory')
            BY <2>2, <2>3, <3>1
        <3>5. IsFiniteSet(Paid(settlements')) /\ earnings' \in Nat BY <2>3, <3>2, <3>3
        <3> QED BY <3>3, <3>4, <3>5 DEF Summed
    <2>9. ASSUME NEW r \in 1..MaxReceipts, Unseen(r)' PROVE counted'[r] = 0
        <3>1. \A i \in 1..len : rest[i] < r BY <2>2, <2>3, <2>9 DEF Unseen
        <3>2. len \in 1..len /\ rest[len] = h BY <1>2, <2>1, <2>2
        <3>3. h < r BY <3>1, <3>2
        <3>4. Unseen(r)
            <4> SUFFICES ASSUME NEW i \in 1..len PROVE settlementHistory[i] < r
                BY <1>2 DEF Unseen
            <4>1. settlementHistory[i] < h BY <1>2 DEF Unseen
            <4>2. i \in 1..(len + 1) /\ full[i] = settlementHistory[i] BY <1>2
            <4>3. settlementHistory[i] \in Int BY <1>3, <4>2
            <4> QED BY <1>0, <3>3, <4>1, <4>3
        <3>5. r # h BY <1>0, <3>3
        <3> QED BY <1>0, <1>8, <3>5, <3>4 DEF Once
    <2>10. \A r \in 1..issued : r > h => Unseen(r)'
        <3> SUFFICES ASSUME NEW r \in 1..issued, r > h, NEW i \in 1..len PROVE full[i + 1] < r
            BY <2>2, <2>3 DEF Unseen
        <3>1. i + 1 \in 1..(len + 1) BY <1>2
        <3>2. full[i + 1] <= h /\ full[i + 1] \in Int BY <1>3, <1>9, <3>1
        <3> QED BY <1>0, <3>2
    <2>11. \A r \in settlements : r > issued - Window => r \in settlements'
        <3> SUFFICES ASSUME NEW r \in settlements, r > issued - Window PROVE r # old
            BY <2>3
        <3>1. issued - Window \in Int /\ r \in Int /\ old \in Int
            BY <1>0, <2>4 DEF LedgerAssumption, LedgerTypeOK
        <3> QED BY <2>4, <3>1
    <2> QED BY <1>6, <1>7, <2>2, <2>3, <2>4, <2>7, <2>8, <2>9, <2>10, <2>11 DEF Once
<1> QED BY <1>10, <1>11

\* Reading a receipt.
LEMMA SettlementHandled ==
    ASSUME LedgerAssumption, Books, HandleSettlement PROVE Books'
<1> DEFINE h == Head(wire)
<1>1. /\ wire # <<>> /\ Settle(h) /\ wire' = Tail(wire) /\ UNCHANGED <<issued, linked>>
    BY DEF HandleSettlement
<1>2. LedgerTypeOK /\ Listed /\ Summed /\ Once /\ Carried /\ Replayed /\ issued \in Nat
    BY DEF Books, LedgerTypeOK
<1>3. /\ linked /\ Len(wire) \in Nat \ {0} /\ DOMAIN wire = 1..Len(wire) /\ h = wire[1]
    BY <1>1, <1>2, EmptySeq, LenProperties DEF LedgerTypeOK, Carried
<1>4. h = Unread /\ h \in 1..issued
    <2>1. 1 \in DOMAIN wire BY <1>3
    <2> QED BY <1>2, <1>3, <2>1 DEF Carried, Unread
<1>5. /\ wire' \in Seq(1..MaxReceipts) /\ Len(wire') = Len(wire) - 1
      /\ \A n \in 1..(Len(wire) - 1) : wire'[n] = wire[n + 1]
      /\ DOMAIN wire' = 1..(Len(wire) - 1)
    BY <1>1, <1>2, HeadTailProperties, LenProperties DEF LedgerTypeOK
<1>6. Carried'
    <2>1. ASSUME NEW n \in 1..(Len(wire) - 1) PROVE wire'[n] = issued' - Len(wire') + n
        <3>1. n + 1 \in DOMAIN wire BY <1>3
        <3>2. wire[n + 1] = issued - Len(wire) + (n + 1) BY <1>2, <3>1 DEF Carried
        <3>3. issued - Len(wire) + (n + 1) = issued - (Len(wire) - 1) + n BY <1>2, <1>3
        <3>4. issued' = issued BY <1>1
        <3> QED BY <1>5, <3>2, <3>3, <3>4
    <2>2. Len(wire) <= issued BY <1>2 DEF Carried
    <2>3. linked' /\ Len(wire') <= issued'
        <3>1. linked' = linked /\ issued' = issued BY <1>1
        <3> QED BY ONLY <1>2, <1>3, <1>5, <2>2, <3>1
    <2> QED BY ONLY <1>5, <2>1, <2>3 DEF Carried
<1>7. Unread' = h + 1 /\ h \in Int /\ Unread \in Int BY <1>1, <1>2, <1>3, <1>4, <1>5 DEF Unread
<1> HIDE DEF h
<1>8. CASE h \in settlements
    <2>1. UNCHANGED <<settlements, settlementHistory, earnings, counted>>
        BY <1>1, <1>8 DEF Settle
    <2>2. LedgerTypeOK' /\ Listed' /\ Summed' /\ Once'
        BY <1>1, <1>2, <1>5, <2>1 DEF LedgerTypeOK, Listed, Summed, Once, Unseen
    <2>3. ASSUME NEW r \in 1..issued, r > issued - Window, r < Unread' PROVE r \in settlements
        <3>1. r = h \/ r < Unread BY <1>2, <1>4, <1>7, <2>3
        <3> QED BY <1>2, <1>3, <1>8, <2>3, <3>1 DEF Replayed
    <2>4. ASSUME NEW r \in 1..issued, ~Unseen(r), r >= Unread' PROVE r \in settlements
        <3>1. r >= Unread BY <1>2, <1>4, <1>7, <2>4
        <3> QED BY <1>2, <1>3, <2>4, <3>1 DEF Replayed
    <2>5. \A r \in 1..issued : Unseen(r)' = Unseen(r) BY <2>1 DEF Unseen
    <2>6. Replayed' BY <1>1, <1>3, <2>1, <2>3, <2>4, <2>5 DEF Replayed
    <2> QED BY <1>6, <2>2, <2>6 DEF Books
<1>9. CASE h \notin settlements
    <2>1. Unseen(h) /\ counted[h] = 0 BY <1>1, <1>9, NewIsNewest DEF h
    <2>2. /\ Listed' /\ Summed' /\ Once' /\ h \in settlements'
          /\ \A r \in settlements : r > issued - Window => r \in settlements'
          /\ \A r \in 1..issued : r > h => Unseen(r)'
          /\ settlementHistory' \in Seq(1..MaxReceipts) /\ settlements' \subseteq 1..MaxReceipts
          /\ earnings' \in Nat
        BY <1>1, <1>4, <1>9, <2>1, SettleNew
    <2>3. LedgerTypeOK' BY <1>1, <1>2, <1>5, <2>2 DEF LedgerTypeOK
    <2>4. ASSUME NEW r \in 1..issued, r > issued - Window, r < Unread' PROVE r \in settlements'
        <3>1. r = h \/ r < Unread BY <1>2, <1>4, <1>7, <2>4
        <3>2. CASE r < Unread
            <4>1. r \in settlements BY <1>2, <1>3, <2>4, <3>2 DEF Replayed
            <4> QED BY <2>2, <2>4, <4>1
        <3> QED BY <2>2, <3>1, <3>2
    <2>5. \A r \in 1..issued : r >= Unread' => Unseen(r)' BY <1>7, <2>2
    <2>6. Replayed' BY <1>1, <1>3, <2>4, <2>5 DEF Replayed
    <2> QED BY <1>6, <2>2, <2>3, <2>6 DEF Books
<1> QED BY <1>8, <1>9

\* A receipt is settled by the gateway.
LEMMA ReceiptIssued == ASSUME LedgerAssumption, Books, IssueReceipt PROVE Books'
<1>1. /\ issued' = issued + 1 /\ issued < MaxReceipts
      /\ wire' = IF linked THEN Append(wire, issued + 1) ELSE wire
      /\ UNCHANGED <<linked, settlements, settlementHistory, earnings, counted>>
    BY DEF IssueReceipt
<1>2. LedgerTypeOK /\ Listed /\ Summed /\ Once /\ Carried /\ Replayed /\ issued \in Nat
      /\ Window \in Nat /\ MaxReceipts \in Nat
    BY DEF Books, LedgerTypeOK, LedgerAssumption
<1>3. issued + 1 \in 1..MaxReceipts BY <1>1, <1>2
<1>4. LedgerTypeOK'
    <2>1. wire' \in Seq(1..MaxReceipts) BY <1>1, <1>2, <1>3, AppendProperties DEF LedgerTypeOK
    <2> QED BY <1>1, <1>2, <1>3, <2>1 DEF LedgerTypeOK
<1>5. Listed'
    <2>1. \A n \in DOMAIN settlementHistory : settlementHistory[n] \in Int
        BY <1>2, ElementOfSeq, LenProperties DEF LedgerTypeOK
    <2>2. \A n \in DOMAIN settlementHistory : settlementHistory[n] <= issued'
        BY <1>1, <1>2, <2>1 DEF Listed
    <2> QED BY <1>1, <1>2, <2>2 DEF Listed
<1>6. Summed' /\ Once' BY <1>1, <1>2 DEF Summed, Once, Unseen
<1>7. Unseen(issued + 1) /\ \A r : Unseen(r)' = Unseen(r)
    <2>1. \A n \in DOMAIN settlementHistory : settlementHistory[n] < issued + 1
        <3>1. \A n \in DOMAIN settlementHistory : settlementHistory[n] \in Int
            BY <1>2, ElementOfSeq, LenProperties DEF LedgerTypeOK
        <3> QED BY <1>2, <3>1 DEF Listed
    <2> QED BY <1>1, <2>1 DEF Unseen
<1>8. CASE linked
    <2>1. /\ Len(wire) \in Nat /\ DOMAIN wire = 1..Len(wire)
          /\ Len(wire') = Len(wire) + 1 /\ DOMAIN wire' = 1..(Len(wire) + 1)
          /\ \A n \in 1..Len(wire) : wire'[n] = wire[n]
          /\ wire'[Len(wire) + 1] = issued + 1
        BY <1>1, <1>2, <1>3, <1>4, <1>8, AppendProperties, LenProperties DEF LedgerTypeOK
    <2>2. Carried'
        <3> SUFFICES ASSUME NEW n \in 1..(Len(wire) + 1) PROVE wire'[n] = issued' - Len(wire') + n
            BY <1>1, <1>2, <1>8, <2>1 DEF Carried
        <3>0. issued' - Len(wire') + n = issued - Len(wire) + n
            <4>1. (issued + 1) - (Len(wire) + 1) + n = issued - Len(wire) + n BY <1>2, <2>1
            <4> QED BY <1>1, <2>1, <4>1
        <3>1. CASE n = Len(wire) + 1
            <4>1. issued - Len(wire) + (Len(wire) + 1) = issued + 1 BY <1>2, <2>1
            <4> QED BY <2>1, <3>0, <3>1, <4>1
        <3>2. CASE n \in 1..Len(wire)
            <4>1. wire[n] = issued - Len(wire) + n BY <1>2, <2>1, <3>2 DEF Carried
            <4> QED BY <2>1, <3>0, <3>2, <4>1
        <3> QED BY <2>1, <3>1, <3>2
    <2>3. Unread' = Unread /\ Unread \in Int /\ Unread <= issued + 1
        <3>1. (issued + 1) - (Len(wire) + 1) + 1 = issued - Len(wire) + 1 BY <1>2, <2>1
        <3>2. Unread' = Unread BY <1>1, <2>1, <3>1 DEF Unread
        <3>3. issued - Len(wire) + 1 \in Int /\ issued - Len(wire) + 1 <= issued + 1
            BY <1>2, <2>1
        <3> QED BY <3>2, <3>3 DEF Unread
    <2>4. \A r \in 1..issued' : r > issued' - Window /\ r < Unread => r \in settlements
        <3> SUFFICES ASSUME NEW r \in 1..issued', r > issued' - Window, r < Unread
                     PROVE  r \in settlements
            OBVIOUS
        <3>1. r \in Int /\ r < issued + 1 /\ r > issued + 1 - Window BY <1>1, <1>2, <2>3
        <3>2. r \in 1..issued /\ r > issued - Window BY <1>2, <3>1
        <3> QED BY <1>2, <1>8, <3>2 DEF Replayed
    <2>5. \A r \in 1..issued' : ~Unseen(r) /\ r >= Unread => r \in settlements
        <3> SUFFICES ASSUME NEW r \in 1..issued', ~Unseen(r), r >= Unread PROVE r \in settlements
            OBVIOUS
        <3>1. r # issued + 1 /\ r \in 1..(issued + 1) BY <1>1, <1>7
        <3>2. r \in 1..issued BY <1>2, <3>1
        <3> QED BY <1>2, <1>8, <3>2 DEF Replayed
    <2>6. Replayed'
        <3>1. \A r \in 1..issued' : r > issued' - Window /\ r < Unread' => r \in settlements'
            <4>1. settlements' = settlements /\ Unread' = Unread BY <1>1, <2>3
            <4> QED BY <2>4, <4>1
        <3>2. \A r \in 1..issued' : ~Unseen(r)' /\ r >= Unread' => r \in settlements'
            <4>1. settlements' = settlements /\ Unread' = Unread BY <1>1, <2>3
            <4> QED BY <1>7, <2>5, <4>1
        <3>3. linked' BY <1>1, <1>8
        <3> QED BY <3>1, <3>2, <3>3 DEF Replayed
    <2> QED BY <1>4, <1>5, <1>6, <2>2, <2>6 DEF Books
<1>9. CASE ~linked
    <2>1. wire = <<>> /\ wire' = <<>> /\ Len(wire) = 0 /\ DOMAIN wire = {}
        BY <1>1, <1>2, <1>9, EmptySeq DEF Carried
    <2>2. Carried' BY <1>1, <1>2, <1>9, <2>1 DEF Carried
    <2>3. \A r \in 1..issued' : ~Unseen(r) /\ r > issued' - Window => r \in settlements
        <3> SUFFICES ASSUME NEW r \in 1..issued', ~Unseen(r), r > issued' - Window
                     PROVE  r \in settlements
            OBVIOUS
        <3>0. r # issued + 1 BY <1>7
        <3>1. r # issued + 1 /\ r \in 1..(issued + 1) /\ r > issued + 1 - Window
            <4>1. r \in Int /\ r >= 1 /\ r <= issued + 1 /\ r > issued + 1 - Window BY <1>1, <1>2
            <4> QED BY <1>2, <3>0, <4>1
        <3>2. r \in 1..issued /\ r > issued - Window BY <1>2, <3>1
        <3> QED BY <1>2, <1>9, <3>2 DEF Replayed
    <2>4. Replayed'
        <3>1. \A r \in 1..issued' : ~Unseen(r)' /\ r > issued' - Window => r \in settlements'
            <4>1. settlements' = settlements BY <1>1
            <4> QED BY <1>7, <2>3, <4>1
        <3>2. ~linked' BY <1>1, <1>9
        <3> QED BY <3>1, <3>2 DEF Replayed
    <2> QED BY <1>4, <1>5, <1>6, <2>2, <2>4 DEF Books
<1> QED BY <1>8, <1>9

\* A session begins with the replay of the gateway's window.
LEMMA Relinked == ASSUME LedgerAssumption, Books, Relink PROVE Books'
<1> DEFINE known == [i \in 1..issued |-> i]
           first == IF issued > Window THEN issued - Window + 1 ELSE 1
<1>1. /\ ~linked /\ linked' = TRUE /\ wire' = SubSeq(known, first, issued)
      /\ UNCHANGED <<issued, settlements, settlementHistory, earnings, counted>>
    BY DEF Relink
<1>2. LedgerTypeOK /\ Listed /\ Summed /\ Once /\ Replayed
      /\ issued \in Nat /\ issued <= MaxReceipts /\ Window \in Nat /\ MaxReceipts \in Nat
    BY DEF Books, LedgerTypeOK, LedgerAssumption
<1>3. first \in Int /\ first >= 1 /\ first <= issued + 1 /\ issued \in Int BY <1>2
<1>4. \A i \in first..issued : known[i] = i /\ known[i] \in 1..MaxReceipts BY <1>2, <1>3
<1>5. first = issued - Window + 1 \/ (first = 1 /\ issued <= Window) BY <1>2
<1> HIDE DEF known, first
<1>6. /\ wire' \in Seq(1..MaxReceipts)
      /\ Len(wire') = IF first <= issued THEN issued - first + 1 ELSE 0
      /\ \A i \in 1..(issued - first + 1) : wire'[i] = known[first + i - 1]
    BY <1>1, <1>3, <1>4, SubSeqProperties
<1>7. Len(wire') = issued - first + 1 /\ DOMAIN wire' = 1..(issued - first + 1)
    BY <1>3, <1>6, LenProperties
<1>8. Carried'
    <2> SUFFICES ASSUME NEW n \in 1..(issued - first + 1) PROVE wire'[n] = issued - Len(wire') + n
        <3>1. issued - first + 1 <= issued BY <1>3
        <3> QED BY <1>1, <1>7, <3>1 DEF Carried
    <2>1. first + n - 1 \in first..issued BY <1>2, <1>3
    <2>2. wire'[n] = first + n - 1 BY <1>4, <1>6, <2>1
    <2>3. issued - (issued - first + 1) + n = first + n - 1 BY <1>3
    <2> QED BY <1>7, <2>2, <2>3
<1>9. Unread' = first BY <1>1, <1>2, <1>3, <1>7 DEF Unread
<1>10. LedgerTypeOK' BY <1>1, <1>2, <1>6 DEF LedgerTypeOK
<1>11. Listed' /\ Summed' /\ Once' BY <1>1, <1>2 DEF Listed, Summed, Once, Unseen
<1>12. \A r : Unseen(r)' = Unseen(r) BY <1>1 DEF Unseen
<1>13. ASSUME NEW r \in 1..issued, r > issued - Window, r < first PROVE FALSE
    BY <1>2, <1>3, <1>5, <1>13
<1>14. ASSUME NEW r \in 1..issued, ~Unseen(r), r >= first PROVE r \in settlements
    <2>1. r > issued - Window BY <1>2, <1>3, <1>5, <1>14
    <2> QED BY <1>1, <1>2, <1>14, <2>1 DEF Replayed
<1>15. Replayed' BY <1>1, <1>9, <1>12, <1>13, <1>14 DEF Replayed
<1> QED BY <1>8, <1>10, <1>11, <1>15 DEF Books

\* A session is lost.
LEMMA Unlinked == ASSUME LedgerAssumption, Books, Unlink PROVE Books'
<1>1. /\ linked /\ linked' = FALSE /\ wire' = <<>>
      /\ UNCHANGED <<issued, settlements, settlementHistory, earnings, counted>>
    BY DEF Unlink
<1>2. LedgerTypeOK /\ Listed /\ Summed /\ Once /\ Carried /\ Replayed /\ issued \in Nat
    BY DEF Books, LedgerTypeOK
<1>3. LedgerTypeOK' BY <1>1, <1>2, EmptySeq DEF LedgerTypeOK
<1>4. Listed' /\ Summed' /\ Once' BY <1>1, <1>2 DEF Listed, Summed, Once, Unseen
<1>5. Carried'
    <2>1. Len(wire') = 0 /\ DOMAIN wire' = {} BY <1>1, EmptySeq
    <2> QED BY <1>1, <1>2, <2>1 DEF Carried
<1>6. Replayed'
    <2>1. \A r : Unseen(r)' = Unseen(r) BY <1>1 DEF Unseen
    <2>2. Unread \in Int BY <1>2, LenProperties DEF Unread, LedgerTypeOK
    <2>3. ASSUME NEW r \in 1..issued, ~Unseen(r), r > issued - Window PROVE r \in settlements
        <3>1. r < Unread \/ r >= Unread BY <2>2
        <3> QED BY <1>1, <1>2, <2>3, <3>1 DEF Replayed
    <2> QED BY <1>1, <2>1, <2>3 DEF Replayed
<1> QED BY <1>3, <1>4, <1>5, <1>6 DEF Books

\* The books are in order at first.
LEMMA BooksInit == ASSUME LedgerAssumption, LedgerInit PROVE Books
<1>1. /\ issued = 0 /\ linked = FALSE /\ settlements = {} /\ earnings = 0
      /\ wire = <<>> /\ settlementHistory = <<>>
      /\ counted = [r \in 1..MaxReceipts |-> 0]
    BY DEF LedgerInit
<1>2. Len(wire) = 0 /\ DOMAIN wire = {} /\ DOMAIN settlementHistory = {}
      /\ Len(settlementHistory) = 0
    BY <1>1, EmptySeq
<1>3. LedgerTypeOK
    <2>1. issued \in 0..MaxReceipts BY <1>1 DEF LedgerAssumption
    <2>2. <<>> \in Seq(1..MaxReceipts) BY EmptySeq
    <2> QED BY <1>1, <2>1, <2>2 DEF LedgerTypeOK
<1>4. Listed
    <2>1. ToSet(settlementHistory) = {} BY <1>2 DEF ToSet
    <2> QED BY <1>1, <1>2, <2>1 DEF Listed, LedgerAssumption
<1>5. Summed
    <2>1. Paid({}) = {} BY DEF Paid
    <2> QED BY <1>1, <1>2, <2>1, FS_EmptySet DEF Summed, Income
<1>6. Once BY <1>1 DEF Once
<1>7. Carried /\ Replayed BY <1>1, <1>2 DEF Carried, Replayed
<1> QED BY <1>3, <1>4, <1>5, <1>6, <1>7 DEF Books

\* And stay in order.
LEMMA BooksNext == ASSUME LedgerAssumption, Books, [LedgerNext]_ledgerVars PROVE Books'
<1>1. CASE UNCHANGED ledgerVars
    BY <1>1 DEF ledgerVars, Books, LedgerTypeOK, Listed, Summed, Once, Carried, Replayed,
                Unseen, Unread, ToSet, Income, Paid
<1> QED BY <1>1, ReceiptIssued, Relinked, Unlinked, SettlementHandled DEF LedgerNext

\* The income shown is the sum of the receipts shown, and no receipt is ever counted twice,
\* over any number of receipts, lost sessions and replays, as long as the store keeps as
\* many receipts as the gateway replays.
THEOREM LedgerIsExact == LedgerSpec => []LedgerExact
<1>1. LedgerInit => Books BY LedgerAssumption, BooksInit
<1>2. Books /\ [LedgerNext]_ledgerVars => Books' BY LedgerAssumption, BooksNext
<1>3. Books => LedgerExact
    <2> SUFFICES ASSUME Books PROVE LedgerExact OBVIOUS
    <2>1. \A r \in 1..MaxReceipts : counted[r] <= 1 BY DEF Books, Once
    <2>2. ASSUME linked, wire = <<>> PROVE {r \in 1..issued : r > issued - Window} \subseteq settlements
        <3>1. Unread = issued + 1 /\ issued \in Int
            BY <2>2, EmptySeq DEF Unread, Books, LedgerTypeOK
        <3> QED BY <2>2, <3>1 DEF Books, Replayed
    <2> QED BY <2>1, <2>2 DEF Books, LedgerExact, Listed, Summed
<1> QED BY <1>1, <1>2, <1>3, PTL DEF LedgerSpec
=============================================================================
