---------------------------- MODULE MCPositionState ----------------------------
(* Small instances of PositionState.  No symmetry: one of them checks a       *)
(* liveness property, the other has one caller.                               *)
EXTENDS PositionState
=============================================================================
