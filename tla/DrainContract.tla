--------------------------- MODULE DrainContract ---------------------------
(***************************************************************************)
(* What a session promises to whoever drains it before maintenance: new    *)
(* inference is admitted only while the node serves, a wait is confirmed   *)
(* only when the node drains and no admitted inference is left, and the    *)
(* confirmation stays good until the drain is cancelled.  Admission pools, *)
(* counters, wake-up channels and goroutines are not visible here.         *)
(***************************************************************************)
CONSTANTS Work, Waiter

VARIABLES
    draining,   \* inference admission is stopped
    running,    \* admitted inference that has not completed
    confirmed   \* waits that returned and whose drain nobody cancelled since

vars == <<draining, running, confirmed>>

Init == draining = FALSE /\ running = {} /\ confirmed = {}

Admit(x) ==
    /\ ~draining /\ x \notin running
    /\ running' = running \cup {x}
    /\ UNCHANGED <<draining, confirmed>>

Complete(x) ==
    /\ x \in running
    /\ running' = running \ {x}
    /\ UNCHANGED <<draining, confirmed>>

Drain ==
    /\ draining' = TRUE
    /\ UNCHANGED <<running, confirmed>>

Resume ==
    /\ draining' = FALSE /\ confirmed' = {}
    /\ UNCHANGED running

Confirm(w) ==
    /\ draining /\ running = {}
    /\ confirmed' = confirmed \cup {w}
    /\ UNCHANGED <<draining, running>>

Leave(w) ==
    /\ confirmed' = confirmed \ {w}
    /\ UNCHANGED <<draining, running>>

Next ==
    \/ \E x \in Work : Admit(x) \/ Complete(x)
    \/ Drain \/ Resume
    \/ \E w \in Waiter : Confirm(w) \/ Leave(w)

Spec == Init /\ [][Next]_vars
=============================================================================
