------------------------------ MODULE MCGroup ------------------------------
(* Group with three users and two workers; users are interchangeable, and  *)
(* so are workers.                                                         *)
EXTENDS Group, TLC

CONSTANTS u1, u2, u3, w1, w2

ThreeUsers == {u1, u2, u3}
TwoWorkers == {w1, w2}
Symmetry   == Permutations(ThreeUsers) \cup Permutations(TwoWorkers)
=============================================================================
