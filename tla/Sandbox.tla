------------------------------ MODULE Sandbox ------------------------------
(***************************************************************************)
(* agent/sandbox.py: the attempts at one task, each a run of               *)
(* run_sandboxed_aider in a workspace of its own.  They share the token    *)
(* budget in Valkey and the task's branch on the forge.  Attempts come one *)
(* after the other while the claim and the lock hold (AgentWorker), and    *)
(* may overlap after a lapse of the lock or a replay: here any may begin   *)
(* at any time.  A process that is killed leaves its attempt where it is.  *)
(***************************************************************************)
EXTENDS Integers, FiniteSets

CONSTANTS Attempts,
          MaxRepairCycles,  \* MAX_REPAIR_CYCLES
          Limit,            \* the task's budget_tokens; 0 is no limit
          MaxTokens,        \* bound: tokens one engine run reports
          Nobody

ASSUME SandboxAssumption ==
  /\ MaxRepairCycles \in Nat
  /\ Limit \in Nat
  /\ MaxTokens \in Nat \ {0}
  /\ Nobody \notin Attempts
  /\ IsFiniteSet(Attempts)

VARIABLES
  feature,     \* is the task's branch under feature/?
  verify,      \* does the task carry a verify_cmd?
  spent,       \* Valkey budget:<role>:<task>
  pusher,      \* the attempt whose commit the branch on the forge points to
  pushedHead,  \* that commit: the clone's, or one the engine made
  pc,
  cycle, green, firstPassGreen, repairCycles,  \* locals and RunResult
  head         \* the workspace's commit: "base", or "work"

task == <<feature, verify>>
forge == <<pusher, pushedHead>>
locals == <<cycle, green, firstPassGreen, repairCycles>>
vars == <<task, spent, forge, pc, locals, head>>

Ended == {"green", "transient", "poison"}
PCs == {"ready", "cloning", "engine", "checking", "verifying", "pushing"}
         \union Ended

Init ==
  /\ feature \in BOOLEAN
  /\ verify \in BOOLEAN
  /\ spent = 0
  /\ pusher = Nobody
  /\ pushedHead = "base"
  /\ pc = [a \in Attempts |-> "ready"]
  /\ cycle = [a \in Attempts |-> 0]
  /\ green = [a \in Attempts |-> FALSE]
  /\ firstPassGreen = [a \in Attempts |-> TRUE]
  /\ repairCycles = [a \in Attempts |-> 0]
  /\ head = [a \in Attempts |-> "base"]

Goto(a, l) == pc' = [pc EXCEPT ![a] = l]

-----------------------------------------------------------------------------
Begin(a) ==
  /\ pc[a] = "ready"
  /\ Goto(a, "cloning")
  /\ UNCHANGED <<task, spent, forge, locals, head>>

\* git clone and git checkout -b: a fresh workspace, whatever the branch on
\* the forge holds.
Clone(a) ==
  /\ pc[a] = "cloning"
  /\ Goto(a, "engine")
  /\ UNCHANGED <<task, spent, forge, locals, head>>

\* Mutant: the limit is compared with this run's tokens only.
OverThisRun(n) == Limit > 0 /\ n > Limit

\* ValkeyBudget.spend raises when the total, with this run's tokens, is over.
Over(n) == Limit > 0 /\ spent + n > Limit

\* The engine run, then the charge; the engine may or may not have committed.
Engine(a) ==
  /\ pc[a] = "engine"
  /\ \E committed \in BOOLEAN :
       head' = IF committed THEN [head EXCEPT ![a] = "work"] ELSE head
  /\ \E n \in 1..MaxTokens :
       /\ spent' = spent + n
       /\ Goto(a, IF Over(n) THEN "transient" ELSE "checking")
  /\ UNCHANGED <<task, forge, locals>>

\* What a cycle leaves in the RunResult.
Record(a, ok) ==
  /\ green' = [green EXCEPT ![a] = ok]
  /\ firstPassGreen' = [firstPassGreen EXCEPT ![a] =
                          IF cycle[a] = 0 THEN ok ELSE @]
  /\ repairCycles' = [repairCycles EXCEPT ![a] = IF ok THEN @ ELSE cycle[a] + 1]

Repair(a) == cycle' = [cycle EXCEPT ![a] = @ + 1] /\ Goto(a, "engine")

LeaveLoop(a, l) == Goto(a, l) /\ UNCHANGED cycle

\* Mutant: no look at the last result before the push.
JudgeUngated(a, ok) ==
  /\ Record(a, ok)
  /\ \/ (ok \/ cycle[a] = MaxRepairCycles) /\ LeaveLoop(a, "pushing")
     \/ ~ok /\ cycle[a] < MaxRepairCycles /\ Repair(a)

\* The end of a cycle: push, repair, or give up.
Judge(a, ok) ==
  /\ Record(a, ok)
  /\ \/ ok /\ LeaveLoop(a, "pushing")
     \/ ~ok /\ cycle[a] < MaxRepairCycles /\ Repair(a)
     \/ ~ok /\ cycle[a] = MaxRepairCycles /\ LeaveLoop(a, "poison")

\* What one quality check says: "pass", "red", "noTests" (pytest's code 5) or
\* "missing" (the tool is not in the image).
Outcomes == {"pass", "red", "noTests", "missing"}

\* check_workspace skips a missing tool and takes no tests for green; a
\* verify_cmd is green on exit code 0 only.
CheckGreen(lint, tests) == lint # "red" /\ tests # "red"
VerifyGreen(outcome) == outcome = "pass"

CheckWorkspace(a) ==
  /\ pc[a] = "checking"
  /\ \E lint \in Outcomes \ {"noTests"}, tests \in Outcomes :
       IF verify
         THEN /\ green' = [green EXCEPT ![a] = CheckGreen(lint, tests)]
              /\ Goto(a, "verifying")
              /\ UNCHANGED <<cycle, firstPassGreen, repairCycles>>
         ELSE Judge(a, CheckGreen(lint, tests))
  /\ UNCHANGED <<task, spent, forge, head>>

Verify(a) ==
  /\ pc[a] = "verifying"
  /\ \E outcome \in Outcomes \ {"missing"} :
       Judge(a, green[a] /\ VerifyGreen(outcome))
  /\ UNCHANGED <<task, spent, forge, head>>

\* Mutant: git push --force.
Forced(a) == TRUE

\* The forge takes a branch that is new, or that the pushed commit descends
\* from.
FastForward(a) == \/ pusher \in {Nobody, a}
                  \/ pushedHead = "base"

Land(a) == pusher' = a /\ pushedHead' = head[a]

Push(a) ==
  /\ pc[a] = "pushing"
  /\ feature
  /\ FastForward(a)
  /\ Land(a)
  /\ Goto(a, "green")
  /\ UNCHANGED <<task, spent, locals, head>>

\* Mutant: a branch outside feature/ is not pushed, and nobody is told.
PushSkipped(a) ==
  /\ pc[a] = "pushing"
  /\ ~feature \/ ~FastForward(a)
  /\ Goto(a, "green")
  /\ UNCHANGED <<task, spent, forge, locals, head>>

\* A branch outside feature/ is refused here, one that the forge has from
\* another attempt is refused there.
PushRefused(a) ==
  /\ pc[a] = "pushing"
  /\ ~feature \/ ~FastForward(a)
  /\ Goto(a, "poison")
  /\ UNCHANGED <<task, spent, forge, locals, head>>

\* git is killed after its timeout, or exits because the forge is gone: before
\* or after the forge took the push.
PushBreaks(a) ==
  /\ pc[a] = "pushing"
  /\ feature
  /\ UNCHANGED forge \/ (FastForward(a) /\ Land(a))
  /\ Goto(a, "transient") \/ Goto(a, "poison")
  /\ UNCHANGED <<task, spent, locals, head>>

\* A tool that exits with an error, or is missing: RuntimeError and
\* FileNotFoundError become PoisonError.
ToolFails(a) ==
  /\ pc[a] \in {"cloning", "engine", "verifying"}
  /\ Goto(a, "poison")
  /\ UNCHANGED <<task, spent, forge, locals, head>>

\* A tool that is killed after its timeout: TimeoutError.  An engine run that
\* hangs is not charged.
ToolHangs(a) ==
  /\ pc[a] \in {"cloning", "engine", "checking", "verifying"}
  /\ Goto(a, "transient")
  /\ UNCHANGED <<task, spent, forge, locals, head>>

Next ==
  \E a \in Attempts :
    \/ Begin(a) \/ Clone(a) \/ Engine(a) \/ CheckWorkspace(a) \/ Verify(a)
    \/ Push(a) \/ PushRefused(a) \/ PushBreaks(a)
    \/ ToolFails(a) \/ ToolHangs(a)

Spec == Init /\ [][Next]_vars
-----------------------------------------------------------------------------
TypeOK ==
  /\ {feature, verify} \subseteq BOOLEAN
  /\ spent \in Nat
  /\ pusher \in Attempts \union {Nobody}
  /\ pushedHead \in {"base", "work"}
  /\ pc \in [Attempts -> PCs]
  /\ cycle \in [Attempts -> 0..MaxRepairCycles]
  /\ green \in [Attempts -> BOOLEAN]
  /\ firstPassGreen \in [Attempts -> BOOLEAN]
  /\ repairCycles \in [Attempts -> 0..MaxRepairCycles + 1]
  /\ head \in [Attempts -> {"base", "work"}]

\* "a red final result NEVER pushes" (sandbox.py:215), also not by way of a
\* push that times out, and never outside feature/.
NeverPushRed == pusher # Nobody => feature /\ green[pusher]

\* The metrics of a finished attempt are consistent: first_pass_green exactly
\* when no repair was needed, and no more repairs than MAX_REPAIR_CYCLES
\* (sandbox.py:251-261).
MetricsAgree ==
  \A a \in Attempts : pc[a] = "green" =>
    /\ firstPassGreen[a] <=> repairCycles[a] = 0
    /\ repairCycles[a] <= MaxRepairCycles

\* The budget is a total over all attempts: once it is crossed, each further
\* attempt makes one engine run at most, so the task never spends more than
\* its limit and one run per attempt (budget.py:56-62 behind sandbox.py:236).
BudgetBounded ==
  Limit > 0 =>
    spent <= Limit + MaxTokens * Cardinality({a \in Attempts : pc[a] = "transient"})

\* What an attempt that ended green has pushed stays on the forge: nothing
\* overwrites it but a commit that descends from it.
PushedStays ==
  \A a \in Attempts : pc[a] = "green" =>
    \/ pusher = a /\ pushedHead = head[a]
    \/ pusher # Nobody /\ head[a] = "base"

\* The sandbox implements the outcomes that the worker relies on.
Phase == [a \in Attempts |->
            IF pc[a] \in Ended \union {"ready"} THEN pc[a] ELSE "running"]
Run == INSTANCE EngineRun WITH phase <- Phase, pushed <- (pusher # Nobody)
RunSpec == Run!Spec
=============================================================================
