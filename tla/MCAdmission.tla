---------------------------- MODULE MCAdmission ----------------------------
(* Small instances of Admission for TLC. *)
EXTENDS Admission, TLC

CONSTANTS t1, t2, t3, r1, r2, c1, c2, w1, w2

TwoTasks   == {t1, t2}
ThreeTasks == {t1, t2, t3}

\* The text pool runs one request, the control pool two, as in the code.
SmallLimit == [k \in Kind |-> IF k \in Control THEN 2 ELSE 1]
WideLimit  == [k \in Kind |-> 2]

TaskSymmetry == Permutations(ThreeTasks)
=============================================================================
