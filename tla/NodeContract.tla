---------------------------- MODULE NodeContract ----------------------------
(***************************************************************************)
(* The drain contract of the sessions of NodeControl, as its controllers   *)
(* use it.  A history variable keeps which of them have had a drain        *)
(* confirmed that nobody cancelled since; the controllers themselves do    *)
(* not notice a cancel and go on.  They overlap as they like.              *)
(***************************************************************************)
EXTENDS NodeControl

VARIABLE confirmed   \* of each session: waits that returned and whose drain nobody cancelled

hvars == <<vars, confirmed>>

Updater == "updater"

\* Controllers that act on a wait for the session that returned: a Save while it stores
\* the policy, an update while it stages a release.
Holding(s) ==
    {h \in Handler : handler[h].at = "store" /\ handler[h].target = s}
    \cup {u \in {Updater} : update.at \in {"stage", "replaced"} /\ update.target = s}

\* A wait that returns is confirmed; the end of the session's drain ends what was.
Confirm ==
    confirmed' = [s \in Session |->
        IF draining[s] /\ ~draining'[s] THEN {}
        ELSE {w \in Holding(s)' : w \in confirmed[s] \/ w \notin Holding(s)}]

HInit == Init /\ confirmed = [s \in Session |-> {}]
HNext == Next /\ Confirm
HSpec == HInit /\ [][HNext]_hvars

-----------------------------------------------------------------------------
\* What module DrainContract says of session s.
Promise(s) == INSTANCE DrainContract WITH
    Work <- {"inference"}, Waiter <- Handler \cup {Updater},
    draining <- draining[s],
    running <- {x \in {"inference"} : Running(s) = 1},
    confirmed <- confirmed[s]

\* Each session keeps the contract with all its controllers at once, whichever of them
\* drain it, cancel each other's drains or act on a session that was replaced meanwhile:
\* a wait is confirmed only when nothing runs, and behind a confirmed one admission
\* reopens by nothing but a cancel of that session's drain.
SessionsKeepContract ==
    /\ \A s \in Session : Promise(s)!Init
    /\ [][\A s \in Session : [Promise(s)!Next]_(Promise(s)!vars)]_hvars

\* Of an update that drained a session and replaces the process under a request, either
\* another session has taken that one's place, or somebody cancelled the drain behind it.
ReplacedUnderWork ==
    [][Replaced' /\ update.target # NoSession /\ inflight # 0
         => update.target # session \/ Updater \notin confirmed[session]]_hvars
=============================================================================
