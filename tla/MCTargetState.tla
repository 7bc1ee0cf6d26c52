---------------------------- MODULE MCTargetState ---------------------------
(***************************************************************************)
(* A small instance of TargetState: see MCTargetState.cfg.                 *)
(***************************************************************************)
EXTENDS TargetState
=============================================================================
