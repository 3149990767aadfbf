--------------------------- MODULE MCAgentWorker ---------------------------
(***************************************************************************)
(* Small instances of AgentWorker for TLC: one task, that two messages     *)
(* carry (m2 is a duplicate of m1) or one.                                 *)
(***************************************************************************)
EXTENDS AgentWorker

CONSTANTS w1, w2, w3, t1, m1, m2

OneTask == [m \in Msgs |-> t1]
=============================================================================
