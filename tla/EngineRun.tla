----------------------------- MODULE EngineRun -----------------------------
(***************************************************************************)
(* What a worker may assume of run_sandboxed_aider: an attempt ends green  *)
(* with its branch on the forge, or with a transient error or poisoned,    *)
(* where a push that broke may or may not have left the branch there.      *)
(* AgentWorker's RunGreen, RunTransient and RunPoison are these three      *)
(* ends; Sandbox implements them.                                          *)
(***************************************************************************)
CONSTANT Attempts

VARIABLES phase,   \* per attempt: "ready", "running", or how it ended
          pushed   \* is the branch on the forge?

vars == <<phase, pushed>>

Init == /\ phase = [a \in Attempts |-> "ready"]
        /\ pushed = FALSE

Goto(a, from, to) == phase[a] = from /\ phase' = [phase EXCEPT ![a] = to]

Begin(a) == Goto(a, "ready", "running") /\ UNCHANGED pushed

Green(a) == Goto(a, "running", "green") /\ pushed' = TRUE

Transient(a) == Goto(a, "running", "transient") /\ pushed' \in {pushed, TRUE}

Poison(a) == Goto(a, "running", "poison") /\ pushed' \in {pushed, TRUE}

Next == \E a \in Attempts : Begin(a) \/ Green(a) \/ Transient(a) \/ Poison(a)

Spec == Init /\ [][Next]_vars
=============================================================================
