----------------------------- MODULE MCForward -----------------------------
(* Small instances of Forward for TLC. *)
EXTENDS Forward

CONSTANTS b1, b2, speech, refused, chat, bench

Routes == [j \in Job |-> CASE j = speech -> "cpu" [] j = refused -> "closed" [] OTHER -> "gpu"]

\* Two requests behind the gate beside the playground, and one beside a route without a
\* gate and a benchmark; the request that Resolve refuses needs no company.
Arrivals == {{b1, b2, chat}, {b1, speech, bench}, {chat, bench}, {refused, bench}}

\* The smallest crew in which the Control Room meets a request of the gateway.
TwoPipelines == {{b1, chat}}
=============================================================================
