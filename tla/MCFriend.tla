------------------------------ MODULE MCFriend ------------------------------
(* Friend with two users and two workers.                                  *)
EXTENDS Friend, TLC

CONSTANTS w1, w2

TwoWorkers == {w1, w2}
Symmetry   == Permutations(TwoWorkers)
=============================================================================
