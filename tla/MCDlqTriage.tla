---------------------------- MODULE MCDlqTriage ----------------------------
(***************************************************************************)
(* One task, ingested as message m1; m2 is what a replay publishes.        *)
(***************************************************************************)
EXTENDS DlqTriage, TLC

CONSTANTS w1, w2, t1, m1, m2

OneTask == [m \in Msgs |-> t1]

WorkerSymmetry == Permutations(Workers)

\* What the invariants of the run replays and every guard depend on: nothing
\* reads the other variables (claimed_by, attempt, events, graded, pushed,
\* reported), nor lapsed of a worker that runs no engine.
EngineView == <<status, stream, dlq, valkey, overtime, pc, msg, outbox, runs,
                {w \in lapsed : pc[w] \in Running}, tpc, batch, current,
                taken \ closed, closed>>
=============================================================================
