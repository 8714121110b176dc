------------------------------- MODULE MCLocks -------------------------------
(***************************************************************************)
(* Locks for TLC.  The two network threads run the same sections, so that  *)
(* states that differ in their names only need not be told apart.          *)
(***************************************************************************)
EXTENDS Locks, TLC

Symmetry == Permutations(Workers)
=============================================================================
