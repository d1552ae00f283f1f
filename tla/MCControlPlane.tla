--------------------------- MODULE MCControlPlane ---------------------------
(* Model values for ControlPlane.  The Managers are interchangeable.        *)
EXTENDS ControlPlane, TLC

\* One task, claimed once or twice.
OneClaim == {<<1, 1>>}
Symmetry == Permutations(Managers)
=============================================================================
