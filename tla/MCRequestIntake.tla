-------------------------- MODULE MCRequestIntake --------------------------
(* A small instance of RequestIntake for TLC. *)
EXTENDS RequestIntake

CONSTANTS plain, small, large

\* One single-frame request and two uploads; together the uploads exceed the byte cap.
ThreeRequests == {plain, small, large}
Sizes == [r \in Request |-> CASE r = plain -> 0 [] r = small -> 1 [] r = large -> 2]
=============================================================================
