------------------------------- MODULE JobLife -------------------------------
(***************************************************************************)
(* What the video and render runtimes promise about an asynchronous job:   *)
(* the contract of POST, GET and DELETE on it, over restarts of the        *)
(* runtime.  VideoJobs and RenderJobs implement it.                        *)
(***************************************************************************)
CONSTANT Job

VARIABLES
    status,     \* status of each job, as GET answers it
    spoiled     \* jobs whose state file could not be written

jobVars == <<status, spoiled>>

Live  == {"queued", "in_progress"}
Ended == {"completed", "failed", "cancelled"}

JobInit == status = [j \in Job |-> "none"] /\ spoiled = {}

Becomes(j, s) == status' = [status EXCEPT ![j] = s] /\ UNCHANGED spoiled

Accept(j) == status[j] = "none" /\ Becomes(j, "queued")
Begin(j)  == status[j] = "queued" /\ Becomes(j, "in_progress")

\* A restart of the runtime starts unfinished jobs again.
Requeue(j) == status[j] = "in_progress" /\ Becomes(j, "queued")

\* An end is final: only unfinished jobs end.
End(j) == status[j] \in Live /\ \E s \in Ended : Becomes(j, s)

Spoil(j) == status[j] \in Live /\ spoiled' = spoiled \cup {j} /\ UNCHANGED status

JobNext == \E j \in Job : Accept(j) \/ Begin(j) \/ Requeue(j) \/ End(j) \/ Spoil(j)

\* A job that was accepted ends, unless its state could not be written: time and again none
\* is left unfinished.
JobsEnd == []<>(\A j \in Job : status[j] \in Live => j \in spoiled)

JobSpec == JobInit /\ [][JobNext]_jobVars /\ JobsEnd
=============================================================================
