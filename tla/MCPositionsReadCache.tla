------------------------- MODULE MCPositionsReadCache -------------------------
(* A small instance of PositionsReadCache; without symmetry, which liveness forbids. *)
EXTENDS PositionsReadCache

\* The first steps of the default schedule (1, 2, 5, 10, 30 seconds).
MCBackoff == <<1, 2>>
=============================================================================
