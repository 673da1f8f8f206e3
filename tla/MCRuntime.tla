----------------------------- MODULE MCRuntime -----------------------------
(* Instances of Runtime for TLC.                                           *)
EXTENDS Runtime, Naturals

CONSTANTS p1, p2, t1, t2, t3

\* Three threads of one process.
OneByThree == [t \in {t1, t2, t3} |-> p1]

\* One thread in the first process, two in its child.
OneAndTwo == [t \in {t1, t2, t3} |-> IF t = t1 THEN p1 ELSE p2]

DistinctPids == [p \in {p1, p2} |-> IF p = p1 THEN 1 ELSE 2]

=============================================================================
