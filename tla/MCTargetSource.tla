--------------------------- MODULE MCTargetSource ---------------------------
(***************************************************************************)
(* Small instances of TargetSourceController.                              *)
(***************************************************************************)
EXTENDS TargetSourceController, TLC

Symmetry == Permutations(Slots)
=============================================================================
