---------------------------- MODULE MCWorkQueue ----------------------------
(* Small instances of the work queue. *)
EXTENDS WorkQueue, TLC

\* Agents and splits are interchangeable.
Symmetry == Permutations(Agents) \cup Permutations(Splits)
=============================================================================
