----------------------------- MODULE ModelPull -----------------------------
(***************************************************************************)
(* The Control Room's library of local models (internal/console): the      *)
(* queue of downloads with its one worker, cancelling, the copy of the     *)
(* model directory to another disk, and beside them the downloads a        *)
(* session starts for the gateway (internal/client/autopull.go), which     *)
(* share the runtime and the directory with them but no lock.              *)
(*                                                                         *)
(* An ask is one POST of a download and the job it becomes; a move is one  *)
(* POST of a migration.  Handlers interleave with the worker at every      *)
(* point where the handler's mutex is free.                                *)
(***************************************************************************)
EXTENDS Integers, Sequences, SequencesExt

CONSTANTS
    Ask, Model, Wanted, \* downloads asked for; the models; which one each ask names
    Move,               \* migrations asked for, all to the same destination
    Recommended,        \* models the gateway's Welcome recommends
    Visits,             \* bound: the sets of asks and moves that may arrive in one behaviour
    NoJob

ASSUME PullAssumption ==
    /\ Wanted \in [Ask -> Model] /\ Recommended \subseteq Model
    /\ NoJob \notin Ask \cup Move

VARIABLES
    asked,     \* where each ask is: its handler, then its worker
    pull,      \* the active job
    pullQueue,
    cancelled, \* jobs whose cancel was accepted
    cut,       \* workers whose context was cancelled
    outcome,   \* final status of each job
    moved,     \* where each migration is
    migration, \* the latest migration
    stayed,    \* what each found in the source and nobody deleted while it ran
    installed, \* models in the source directory
    copied,    \* files in the destination, each with the migration that wrote it
    auto,      \* what a session's auto-pull has left to do and got, and whether it runs
    announced  \* models a metadata refresh was requested for

jobs   == <<asked, pull, pullQueue, cancelled, cut, outcome>>
moves  == <<moved, migration, stayed, copied>>
pullVars == <<jobs, moves, installed, auto, announced>>

Working == {"starting", "running", "succeeded", "broken"}
Migrating == migration # NoJob /\ moved[migration] = "copying"
Step(a, p) == asked' = [asked EXCEPT ![a] = p]
Names(q) == {Wanted[q[i]] : i \in 1..Len(q)}

-----------------------------------------------------------------------------
\* startPull: the lock is given up while the runtime lists its models.
LookForMigration(a) ==
    /\ asked[a] = "new"
    /\ Step(a, IF Migrating THEN "refused" ELSE "listing")
    /\ UNCHANGED <<pull, pullQueue, cancelled, cut, outcome, moves, installed, auto, announced>>

LookInstalled(a) ==
    /\ asked[a] = "listing"
    /\ \/ Step(a, IF Wanted[a] \in installed THEN "refused" ELSE "listed")
       \/ Step(a, "refused")   \* the runtime does not answer
    /\ UNCHANGED <<pull, pullQueue, cancelled, cut, outcome, moves, installed, auto, announced>>

\* Deviation: the check before the listing is thought to be enough.
EnqueueUnchecked(a) ==
    /\ asked[a] = "listed"
    /\ IF Wanted[a] \in Names(pullQueue)
          THEN Step(a, "refused") /\ UNCHANGED <<pull, pullQueue>>
       ELSE IF pull = NoJob
          THEN Step(a, "starting") /\ pull' = a /\ UNCHANGED pullQueue
          ELSE Step(a, "queued") /\ pullQueue' = Append(pullQueue, a) /\ UNCHANGED pull
    /\ UNCHANGED <<cancelled, cut, outcome, moves, installed, auto, announced>>

Enqueue(a) ==
    /\ asked[a] = "listed"
    /\ IF \/ Migrating
          \/ pull # NoJob /\ Wanted[pull] = Wanted[a]
          \/ Wanted[a] \in Names(pullQueue)
          THEN Step(a, "refused") /\ UNCHANGED <<pull, pullQueue>>
       ELSE IF pull = NoJob
          THEN Step(a, "starting") /\ pull' = a /\ UNCHANGED pullQueue
          ELSE Step(a, "queued") /\ pullQueue' = Append(pullQueue, a) /\ UNCHANGED pull
    /\ UNCHANGED <<cancelled, cut, outcome, moves, installed, auto, announced>>

\* cancelPull: flag the active job, and end its context if the worker has one by now, or
\* take the job out of the queue; an unknown name is not found.
CancelPull(m) ==
    /\ IF pull # NoJob /\ Wanted[pull] = m
          THEN /\ cancelled' = cancelled \cup {pull}
               /\ cut' = IF asked[pull] = "starting" THEN cut ELSE cut \cup {pull}
               /\ UNCHANGED <<asked, pullQueue, outcome>>
          ELSE \E i \in 1..Len(pullQueue) :
               /\ Wanted[pullQueue[i]] = m
               /\ pullQueue' = RemoveAt(pullQueue, i)
               /\ Step(pullQueue[i], "ended")
               /\ outcome' = [outcome EXCEPT ![pullQueue[i]] = "cancelled"]
               /\ cancelled' = cancelled \cup {pullQueue[i]}
               /\ UNCHANGED cut
    /\ UNCHANGED <<pull, moves, installed, auto, announced>>

-----------------------------------------------------------------------------
\* Deviation: a cancel that came before the worker had a context is not looked for.
RunPullLate(a) ==
    /\ asked[a] = "starting"
    /\ Step(a, "running")
    /\ UNCHANGED <<pull, pullQueue, cancelled, cut, outcome, moves, installed, auto, announced>>

\* runPull publishes its cancel function, and uses it if the cancel came first.
RunPull(a) ==
    /\ asked[a] = "starting"
    /\ Step(a, "running")
    /\ cut' = IF a \in cancelled THEN cut \cup {a} ELSE cut
    /\ UNCHANGED <<pull, pullQueue, cancelled, outcome, moves, installed, auto, announced>>

\* The runtime has the model; its last line says so, if it is read.
Download(a) ==
    /\ asked[a] = "running" /\ a \notin cut
    /\ installed' = installed \cup {Wanted[a]}
    /\ UNCHANGED <<jobs, moves, auto, announced>>

ReadSuccess(a) ==
    /\ asked[a] = "running" /\ Wanted[a] \in installed
    /\ Step(a, "succeeded")
    /\ UNCHANGED <<pull, pullQueue, cancelled, cut, outcome, moves, installed, auto, announced>>

\* No answer, an error status, a bad line, an error line, too little disk, an end without
\* success (which is also what 4 MiB of progress lines are), or the end of the context.
PullBreaks(a) ==
    /\ asked[a] \in {"running", "succeeded"}
    /\ Step(a, "broken")
    /\ UNCHANGED <<pull, pullQueue, cancelled, cut, outcome, moves, installed, auto, announced>>

\* Deviation: what the runtime said last decides, not the operator.
EndPullByResult(a) ==
    /\ asked[a] \in {"succeeded", "broken"}
    /\ outcome' = [outcome EXCEPT ![a] = IF asked[a] = "broken" THEN "failed" ELSE "success"]
    /\ announced' = IF asked[a] = "succeeded" THEN announced \cup {Wanted[a]} ELSE announced
    /\ IF pullQueue = <<>>
          THEN Step(a, "ended") /\ pull' = NoJob /\ UNCHANGED pullQueue
          ELSE /\ asked' = [asked EXCEPT ![a] = "ended", ![Head(pullQueue)] = "starting"]
               /\ pull' = Head(pullQueue) /\ pullQueue' = Tail(pullQueue)
    /\ UNCHANGED <<cancelled, cut, moves, installed, auto>>

\* The end of runPull: the outcome, the next job of the queue, and ModelsChanged.
EndPull(a) ==
    /\ asked[a] \in {"succeeded", "broken"}
    /\ outcome' = [outcome EXCEPT ![a] = IF a \in cancelled THEN "cancelled"
                                         ELSE IF asked[a] = "broken" THEN "failed" ELSE "success"]
    /\ announced' = IF asked[a] = "succeeded" /\ a \notin cancelled
                       THEN announced \cup {Wanted[a]} ELSE announced
    /\ IF pullQueue = <<>>
          THEN Step(a, "ended") /\ pull' = NoJob /\ UNCHANGED pullQueue
          ELSE /\ asked' = [asked EXCEPT ![a] = "ended", ![Head(pullQueue)] = "starting"]
               /\ pull' = Head(pullQueue) /\ pullQueue' = Tail(pullQueue)
    /\ UNCHANGED <<cancelled, cut, moves, installed, auto>>

-----------------------------------------------------------------------------
\* migrationPlan, without the lock for the look at the disk: nothing may download and
\* the destination must be empty.
PlanMove(v) ==
    /\ moved[v] = "new"
    /\ moved' = [moved EXCEPT ![v] = IF pull # NoJob \/ copied # {} THEN "refused" ELSE "planned"]
    /\ UNCHANGED <<jobs, migration, stayed, copied, installed, auto, announced>>

\* Deviation: the plan's look at the downloads is thought to be enough.
StartMoveOnPlan(v) ==
    /\ moved[v] = "planned"
    /\ IF Migrating
          THEN moved' = [moved EXCEPT ![v] = "refused"] /\ UNCHANGED <<migration, stayed>>
          ELSE /\ moved' = [moved EXCEPT ![v] = "copying"]
               /\ migration' = v /\ stayed' = [stayed EXCEPT ![v] = installed]
    /\ UNCHANGED <<jobs, copied, installed, auto, announced>>

StartMove(v) ==
    /\ moved[v] = "planned"
    /\ IF pull # NoJob \/ Migrating
          THEN moved' = [moved EXCEPT ![v] = "refused"] /\ UNCHANGED <<migration, stayed>>
          ELSE /\ moved' = [moved EXCEPT ![v] = "copying"]
               /\ migration' = v /\ stayed' = [stayed EXCEPT ![v] = installed]
    /\ UNCHANGED <<jobs, copied, installed, auto, announced>>

\* copyStorage creates each file exclusively: one that is there ends the copy.
CopyFile(v, m) ==
    /\ moved[v] = "copying" /\ m \in installed
    /\ <<m, v>> \notin copied
    /\ IF \E u \in Move : <<m, u>> \in copied
          THEN moved' = [moved EXCEPT ![v] = "failed"] /\ UNCHANGED copied
          ELSE copied' = copied \cup {<<m, v>>} /\ UNCHANGED moved
    /\ UNCHANGED <<jobs, migration, stayed, installed, auto, announced>>

\* The walk is over, or met an error; it need not see what was added meanwhile.
EndMove(v) ==
    /\ moved[v] = "copying"
    /\ \/ /\ \A m \in stayed[v] : <<m, v>> \in copied
          /\ moved' = [moved EXCEPT ![v] = "complete"]
       \/ moved' = [moved EXCEPT ![v] = "failed"]
    /\ UNCHANGED <<jobs, migration, stayed, copied, installed, auto, announced>>

-----------------------------------------------------------------------------
\* pullRecommendedModels: one model after the other, failures skipped; one refresh at the
\* end, and none if the session ended first.
AutoPull(m) ==
    /\ auto.live /\ m \in auto.left
    /\ \/ /\ installed' = installed \cup {m}
          /\ auto' = [auto EXCEPT !.left = @ \ {m}, !.got = @ \cup {m}]
       \/ auto' = [auto EXCEPT !.left = @ \ {m}] /\ UNCHANGED installed
    /\ UNCHANGED <<jobs, moves, announced>>

AutoPullEnds ==
    /\ auto.live
    /\ auto' = [auto EXCEPT !.live = FALSE]
    /\ \/ auto.left = {} /\ announced' = announced \cup auto.got
       \/ UNCHANGED announced
    /\ UNCHANGED <<jobs, moves, installed>>

\* deleteModel asks the runtime and announces the change, whatever else is going on.
DeleteModel(m) ==
    /\ m \in installed
    /\ installed' = installed \ {m} /\ announced' = announced \ {m}
    /\ stayed' = [v \in Move |-> IF moved[v] = "copying" THEN stayed[v] \ {m} ELSE stayed[v]]
    /\ UNCHANGED <<jobs, moved, migration, copied, auto>>

PullInit ==
    /\ \E visit \in Visits :
          /\ asked = [a \in Ask |-> IF a \in visit THEN "new" ELSE "absent"]
          /\ moved = [v \in Move |-> IF v \in visit THEN "new" ELSE "absent"]
    /\ pull = NoJob /\ pullQueue = <<>>
    /\ cancelled = {} /\ cut = {} /\ outcome = [a \in Ask |-> "none"]
    /\ migration = NoJob /\ stayed = [v \in Move |-> {}] /\ copied = {}
    /\ installed = {} /\ announced = {}
    /\ auto = [left |-> Recommended, got |-> {}, live |-> TRUE]

Worker(a) == RunPull(a) \/ EndPull(a) \/ (a \in cut /\ PullBreaks(a))

PullNext ==
    \/ \E a \in Ask : \/ LookForMigration(a) \/ LookInstalled(a) \/ Enqueue(a)
                      \/ Worker(a) \/ Download(a) \/ ReadSuccess(a) \/ PullBreaks(a)
    \/ \E m \in Model : CancelPull(m) \/ AutoPull(m) \/ DeleteModel(m)
    \/ \E v \in Move : PlanMove(v) \/ StartMove(v) \/ EndMove(v) \/ \E m \in Model : CopyFile(v, m)
    \/ AutoPullEnds

PullSpec == PullInit /\ [][PullNext]_pullVars

\* The worker's goroutine runs, and a context that is over ends its HTTP call; nothing
\* makes the runtime answer.
PullFairness == \A a \in Ask : WF_pullVars(Worker(a))

-----------------------------------------------------------------------------
PullTypeOK ==
    /\ asked \in [Ask -> Working \cup {"absent", "new", "listing", "listed", "refused", "queued", "ended"}]
    /\ pull \in Ask \cup {NoJob} /\ migration \in Move \cup {NoJob}
    /\ pullQueue \in Seq(Ask)
    /\ cancelled \subseteq Ask /\ cut \subseteq cancelled
    /\ outcome \in [Ask -> {"none", "success", "failed", "cancelled"}]
    /\ moved \in [Move -> {"absent", "new", "refused", "planned", "copying", "complete", "failed"}]
    /\ stayed \in [Move -> SUBSET Model] /\ installed \subseteq Model /\ announced \subseteq Model
    /\ copied \subseteq Model \X Move
    /\ auto \in [left : SUBSET Model, got : SUBSET Model, live : BOOLEAN]

\* One download at a time and each model in it or in the queue once: the active job is
\* the one whose worker runs, whoever finished, was cancelled or was queued meanwhile.
QueueSound ==
    /\ PullTypeOK
    /\ {a \in Ask : asked[a] \in Working} = {pull} \ {NoJob}
    /\ {a \in Ask : asked[a] = "queued"} = ToSet(pullQueue)
    /\ pull = NoJob => pullQueue = <<>>
    /\ \A i, j \in DOMAIN pullQueue : Wanted[pullQueue[i]] = Wanted[pullQueue[j]] => i = j
    /\ \A i \in DOMAIN pullQueue : Wanted[pullQueue[i]] # Wanted[pull]

\* What the operator was told comes true: a job whose cancel was accepted, queued,
\* starting or past its last line, ends as cancelled, and no other job does.
CancelSticks ==
    \A a \in Ask : outcome[a] # "none" => (outcome[a] = "cancelled") = (a \in cancelled)

\* No download of the Control Room writes the model directory while it is copied, and a
\* migration that completed wrote everything that was there all along itself: it never
\* counts, and no later one replaces, a file of another attempt.
CopyUndisturbed ==
    /\ Migrating => pull = NoJob
    /\ \A v \in Move : moved[v] = "complete" => stayed[v] \X {v} \subseteq copied

\* A cancelled download ends even if the runtime never answers again, and gives way to the
\* next one: time and again none that was cancelled is still at work.
CancelTakesEffect ==
    []<>(\A a \in Ask : a \in cancelled => asked[a] \notin Working)
=============================================================================
