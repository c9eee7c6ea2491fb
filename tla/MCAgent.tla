------------------------------ MODULE MCAgent ------------------------------
(***************************************************************************)
(* Small instances of the agent across its processes (Lifetime, whose      *)
(* third release is a bad one) and of one session after another within a   *)
(* process (Session).  The two descriptions share no variable: Lifetime    *)
(* knows of a session only that there is one.  A behaviour moves one of    *)
(* them, chosen at the start, while the other waits: no session before it  *)
(* is dialled, or a process that is online with its session.               *)
(***************************************************************************)
EXTENDS Lifetime, Session

CONSTANTS j1, j2

VARIABLE view       \* the description that moves

agentVars == <<view, vars, sessionVars>>

\* The process of a first installation, welcomed by its gateway.
Online ==
    /\ proc = "online" /\ running = 1 /\ image = 1
    /\ state = NoState /\ files = {} /\ revoked = FALSE
    /\ candidate = NoCandidate
    /\ registrationToken = FALSE /\ attemptToken = FALSE /\ unread = FALSE
    /\ node = "registered"
    /\ welcomed = {1} /\ promoted = {}
    /\ faults = 0

AgentInit ==
    /\ \/ view = "processes" /\ Init
       \/ view = "session" /\ Online
    /\ SessionInit

Processes == view = "processes" /\ Next /\ UNCHANGED <<view, sessionVars>>
Sessions  == view = "session" /\ SessionNext /\ UNCHANGED <<view, vars>>

\* Neither fairness asks for a step of the description that waits.
AgentSpec == AgentInit /\ [][Processes \/ Sessions]_agentVars /\ Fairness /\ SessionFairness
=============================================================================
