--------------------------- MODULE MCCoordinator ---------------------------
(***************************************************************************)
(* One marked task p, and the ids a, b for its subtasks.                   *)
(***************************************************************************)
EXTENDS Coordinator

CONSTANTS p, a, b, g1, g2, w1
=============================================================================
