------------------------------- MODULE MCFleet -------------------------------
(***************************************************************************)
(* Fleet for TLC: the console requests in flight are interchangeable.      *)
(***************************************************************************)
EXTENDS Fleet, TLC

CONSTANTS a, b

TwoRequests == {a, b}
Symmetry == Permutations(TwoRequests)

=============================================================================
