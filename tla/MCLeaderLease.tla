--------------------------- MODULE MCLeaderLease ---------------------------
(* Small instance of LeaderLease for TLC. *)
EXTENDS LeaderLease, TLC

Symmetry == Permutations(Managers)
=============================================================================
