--------------------------- MODULE MCNodeControl ---------------------------
(***************************************************************************)
(* Small instances of NodeControl for TLC.  A run covers two cases, one    *)
(* chosen at the start: the drain and the models handled by two requests   *)
(* of the Control Room, or a policy saved and an update beside one.  Each  *)
(* leaves out requests that nobody makes, those that would drain or save   *)
(* beside another controller (Turns) among them; what was begun is always  *)
(* free to go on.                                                          *)
(***************************************************************************)
EXTENDS NodeControl

CONSTANTS h1, h2

VARIABLE case

SaveSteps == {"begin", "wait", "parked", "store", "rollback"}

\* Nobody resumes between the look of the Active hook at the operator's drain and its
\* BeginDrain, which would then outlive the drain.
Requests ==
    /\ update.at = "idle"
    /\ \A h \in Handler : handler[h].at \notin SaveSteps
    /\ phase = "hooked" => manualDrain

\* Nobody saves while the operator's drain is set: a save that fails would end it.
SavesAndUpdates ==
    /\ handler[h2].at = "idle" /\ models <= 1
    /\ handler[h1].at # "resume"
    /\ manualDrain => handler[h1].at \notin SaveSteps

MCInit == Init /\ case \in {"requests", "saves and updates"}

MCNext ==
    /\ Next /\ UNCHANGED case /\ Turns'
    /\ IF case = "requests" THEN Requests' ELSE SavesAndUpdates'

MCSpec ==
    /\ MCInit /\ [][MCNext]_<<vars, case>>
    /\ WF_vars(~Replaced /\ LoopStep) /\ WF_vars(~Replaced /\ Complete)
    /\ \A h \in Handler : WF_vars(~Replaced /\ HandlerStep(h))
    /\ WF_vars(~Replaced /\ UpdateStep)
=============================================================================
