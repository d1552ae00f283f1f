---------------------------- MODULE MCOpenMirror ----------------------------
(***************************************************************************)
(* OpenMirror for TLC: two keys, so that a page of one row splits the rows *)
(* of a transaction that share their watermark.                            *)
(***************************************************************************)
EXTENDS OpenMirror

TwoKeys == 1 .. 2

=============================================================================
