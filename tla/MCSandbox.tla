----------------------------- MODULE MCSandbox -----------------------------
(***************************************************************************)
(* Three interchangeable attempts at one task.                             *)
(***************************************************************************)
EXTENDS Sandbox, TLC

CONSTANTS a1, a2, a3

AttemptSymmetry == Permutations({a1, a2, a3})
=============================================================================
