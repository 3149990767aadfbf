--------------------------- MODULE SandboxProofs ---------------------------
(***************************************************************************)
(* Proofs about Sandbox, for any finite number of attempts, any cap on     *)
(* repair cycles, any budget and any size of an engine run.                *)
(***************************************************************************)
EXTENDS Sandbox, FiniteSetTheorems, TLAPS

USE SandboxAssumption

\* An attempt reaches the push only green, and only such an attempt's commit
\* is on the forge.
Gate ==
  /\ \A a \in Attempts : pc[a] \in {"pushing", "green"} => green[a]
  /\ \A a \in Attempts : pc[a] = "green" => pusher # Nobody
  /\ pusher # Nobody =>
       feature /\ green[pusher] /\ pc[pusher] \in Ended

\* Until an attempt is given up, its metrics follow the cycle it is in.
MetricsFollow ==
  \A a \in Attempts : pc[a] # "poison" =>
    /\ repairCycles[a] = cycle[a]
    /\ firstPassGreen[a] <=> cycle[a] = 0

Inv == /\ TypeOK /\ Gate /\ MetricsFollow /\ PushedStays

\* The attempts that have ended on a transient error, the budget's included.
Transients == {a \in Attempts : pc[a] = "transient"}
-----------------------------------------------------------------------------
LEMMA InitInv == Init => Inv
BY DEF Init, Inv, TypeOK, Gate, MetricsFollow, PushedStays, PCs, Ended

\* A cycle's end keeps the invariant: green attempts go on to the push, and
\* red ones to a repair or to the end.
LEMMA StepJudge ==
  ASSUME Inv, NEW a \in Attempts, NEW ok \in BOOLEAN,
         pc[a] \in {"checking", "verifying"}, Judge(a, ok),
         UNCHANGED <<task, spent, forge, head>>
  PROVE  Inv'
<1> USE DEF Judge, Record, Repair, LeaveLoop, Goto, Inv, TypeOK, task, forge
<1>1. TypeOK'
  BY DEF PCs, Ended
<1>2. Gate'
  BY DEF Gate, Ended
<1>3. MetricsFollow'
  BY DEF MetricsFollow
<1>4. PushedStays'
  BY DEF PushedStays
<1> QED
  BY <1>1, <1>2, <1>3, <1>4

\* Every step keeps the invariant.
LEMMA StepInv == Inv /\ [Next]_vars => Inv'
<1> SUFFICES ASSUME Inv, [Next]_vars PROVE Inv'
  OBVIOUS
<1> USE DEF Goto, Inv, TypeOK, Gate, MetricsFollow, PushedStays, PCs, Ended,
            task, forge, locals
<1>1. ASSUME NEW a \in Attempts, Begin(a) PROVE Inv'
  BY <1>1 DEF Begin
<1>2. ASSUME NEW a \in Attempts, Clone(a) PROVE Inv'
  BY <1>2 DEF Clone
<1>3. ASSUME NEW a \in Attempts, Engine(a) PROVE Inv'
  BY <1>3 DEF Engine
<1>4. ASSUME NEW a \in Attempts, CheckWorkspace(a) PROVE Inv'
  <2>1. PICK lint \in Outcomes, tests \in Outcomes :
          IF verify
            THEN /\ green' = [green EXCEPT ![a] = CheckGreen(lint, tests)]
                 /\ Goto(a, "verifying")
                 /\ UNCHANGED <<cycle, firstPassGreen, repairCycles>>
            ELSE Judge(a, CheckGreen(lint, tests))
    BY <1>4 DEF CheckWorkspace
  <2>2. CheckGreen(lint, tests) \in BOOLEAN
    BY DEF CheckGreen
  <2>3. CASE verify
    BY <1>4, <2>1, <2>2, <2>3 DEF CheckWorkspace
  <2>4. CASE ~verify
    BY <1>4, <2>1, <2>2, <2>4, StepJudge DEF CheckWorkspace
  <2> QED
    BY <2>3, <2>4
<1>5. ASSUME NEW a \in Attempts, Verify(a) PROVE Inv'
  <2>1. PICK outcome \in Outcomes : Judge(a, green[a] /\ VerifyGreen(outcome))
    BY <1>5 DEF Verify
  <2>2. (green[a] /\ VerifyGreen(outcome)) \in BOOLEAN
    BY DEF VerifyGreen
  <2> QED
    BY <1>5, <2>1, <2>2, StepJudge DEF Verify
<1>6. ASSUME NEW a \in Attempts, Push(a) PROVE Inv'
  BY <1>6 DEF Push, Land, FastForward
<1>7. ASSUME NEW a \in Attempts, PushRefused(a) PROVE Inv'
  BY <1>7 DEF PushRefused
<1>8. ASSUME NEW a \in Attempts, PushBreaks(a) PROVE Inv'
  BY <1>8 DEF PushBreaks, Land, FastForward
<1>9. ASSUME NEW a \in Attempts, ToolFails(a) PROVE Inv'
  BY <1>9 DEF ToolFails
<1>10. ASSUME NEW a \in Attempts, ToolHangs(a) PROVE Inv'
  BY <1>10 DEF ToolHangs
<1>11. CASE UNCHANGED vars
  BY <1>11 DEF vars
<1> QED
  BY <1>1, <1>2, <1>3, <1>4, <1>5, <1>6, <1>7, <1>8, <1>9, <1>10, <1>11 DEF Next

THEOREM Invariant == Spec => []Inv
BY InitInv, StepInv, PTL DEF Spec

\* A red result is never on the forge, also not by a push that timed out, and
\* no branch outside feature/ is (sandbox.py:264-275).
THEOREM RedStaysLocal == Spec => []NeverPushRed
<1>1. Inv => NeverPushRed
  BY DEF Inv, Gate, NeverPushRed
<1> QED
  BY <1>1, Invariant, PTL

\* first_pass_green and repair_cycles of a green attempt agree.
THEOREM MetricsSound == Spec => []MetricsAgree
<1>1. Inv => MetricsAgree
  BY DEF Inv, TypeOK, MetricsFollow, MetricsAgree
<1> QED
  BY <1>1, Invariant, PTL

\* What a green attempt has pushed is not overwritten.
THEOREM PushesStay == Spec => []PushedStays
<1>1. Inv => PushedStays
  BY DEF Inv
<1> QED
  BY <1>1, Invariant, PTL
-----------------------------------------------------------------------------
\* An attempt that ends stays ended, so the transient ones only grow; an
\* attempt whose charge is over the limit joins them.
LEMMA StepTransients ==
  ASSUME TypeOK, [Next]_vars
  PROVE  /\ Transients \subseteq Transients'
         /\ \/ spent' = spent
            \/ \E a \in Attempts : Engine(a)
<1> USE DEF Goto, TypeOK, Ended, Transients, task, forge, locals
<1>1. ASSUME NEW a \in Attempts, Begin(a) \/ Clone(a) \/ Push(a) \/ PushRefused(a)
                \/ PushBreaks(a) \/ ToolFails(a) \/ ToolHangs(a)
      PROVE  Transients \subseteq Transients' /\ spent' = spent
  BY <1>1 DEF Begin, Clone, Push, PushRefused, PushBreaks, ToolFails, ToolHangs
<1>2. ASSUME NEW a \in Attempts, CheckWorkspace(a) \/ Verify(a)
      PROVE  Transients \subseteq Transients' /\ spent' = spent
  BY <1>2 DEF CheckWorkspace, Verify, Judge, Record, Repair, LeaveLoop
<1>3. ASSUME NEW a \in Attempts, Engine(a) PROVE Transients \subseteq Transients'
  BY <1>3 DEF Engine
<1>4. CASE UNCHANGED vars
  BY <1>4 DEF vars
<1> QED
  BY <1>1, <1>2, <1>3, <1>4 DEF Next

\* The spend is bounded by the limit and one engine run per transient end.
LEMMA StepBudget == TypeOK /\ BudgetBounded /\ [Next]_vars => BudgetBounded'
<1> SUFFICES ASSUME TypeOK, BudgetBounded, [Next]_vars, Limit > 0
             PROVE  spent' <= Limit + MaxTokens * Cardinality(Transients')
  BY DEF BudgetBounded, Transients
<1>1. /\ IsFiniteSet(Transients) /\ IsFiniteSet(Transients')
      /\ Cardinality(Transients) \in Nat /\ Cardinality(Transients') \in Nat
  BY FS_Subset, FS_CardinalityType DEF Transients
<1>2. Cardinality(Transients) <= Cardinality(Transients')
  BY <1>1, StepTransients, FS_Subset
<1>3. MaxTokens * Cardinality(Transients) <= MaxTokens * Cardinality(Transients')
  BY <1>1, <1>2, SMTT(30)
<1>4. spent <= Limit + MaxTokens * Cardinality(Transients)
  BY DEF BudgetBounded, Transients
<1>5. CASE spent' = spent
  BY <1>1, <1>3, <1>4, <1>5 DEF TypeOK
<1>6. ASSUME NEW a \in Attempts, Engine(a)
      PROVE  spent' <= Limit + MaxTokens * Cardinality(Transients')
  <2>1. PICK n \in 1..MaxTokens :
          /\ spent' = spent + n
          /\ Goto(a, IF Over(n) THEN "transient" ELSE "checking")
    BY <1>6 DEF Engine
  <2>2. CASE Over(n)
    <3>1. Transients' = Transients \union {a} /\ a \notin Transients
      BY <1>6, <2>1, <2>2 DEF Engine, Goto, TypeOK, Transients
    <3>2. Cardinality(Transients') = Cardinality(Transients) + 1
      BY <3>1, <1>1, FS_AddElement
    <3>3. MaxTokens * (Cardinality(Transients) + 1)
            = MaxTokens * Cardinality(Transients) + MaxTokens
      BY <1>1, SMTT(30)
    <3> QED
      BY <1>1, <1>4, <2>1, <3>2, <3>3 DEF TypeOK
  <2>3. CASE ~Over(n)
    <3>1. spent' <= Limit
      BY <2>1, <2>3 DEF Over, TypeOK
    <3>2. MaxTokens * Cardinality(Transients') \in Nat
      BY <1>1
    <3> QED
      BY <2>1, <3>1, <3>2 DEF TypeOK
  <2> QED
    BY <2>2, <2>3
<1> QED
  BY <1>5, <1>6, StepTransients

\* Whatever the retries, a task spends its limit and at most one engine run
\* for each attempt that ended on a transient error (budget.py:56-62).
THEOREM BudgetHolds == Spec => []BudgetBounded
<1>1. Init => BudgetBounded
  <2>1. \A S : S = {} => Cardinality(S) = 0
    BY FS_EmptySet
  <2>2. Init => {a \in Attempts : pc[a] = "transient"} = {}
    BY DEF Init
  <2> QED
    BY <2>1, <2>2 DEF Init, BudgetBounded
<1> QED
  BY <1>1, StepBudget, Invariant, PTL DEF Spec, Inv
-----------------------------------------------------------------------------
\* Every step of the sandbox is a step of EngineRun, or changes nothing there.
LEMMA StepRun == TypeOK /\ Gate /\ [Next]_vars => [Run!Next]_(Run!vars)
<1> SUFFICES ASSUME TypeOK, Gate, [Next]_vars PROVE [Run!Next]_(Run!vars)
  OBVIOUS
<1> DEFINE PhaseOf(l) == IF l \in Ended \union {"ready"} THEN l ELSE "running"
<1>p. ASSUME NEW a \in Attempts, NEW l \in PCs, Goto(a, l)
      PROVE  Phase' = [Phase EXCEPT ![a] = PhaseOf(l)]
  BY <1>p DEF Goto, Phase, TypeOK
<1>f. Phase \in [Attempts -> Ended \union {"ready", "running"}]
  BY DEF Phase, TypeOK
<1> USE DEF Run!Next, Run!Begin, Run!Green, Run!Transient, Run!Poison,
            Run!Goto, Run!vars, PCs, Ended, forge, task, locals
<1>1. ASSUME NEW a \in Attempts, Begin(a) PROVE Run!Begin(a)
  <2>1. pusher' = pusher /\ Phase[a] = "ready" /\ Goto(a, "cloning")
    BY <1>1 DEF Begin, Phase
  <2>2. Phase' = [Phase EXCEPT ![a] = "running"]
    BY <2>1, <1>p
  <2> QED
    BY <2>1, <2>2
<1>2. ASSUME NEW a \in Attempts, Clone(a) PROVE UNCHANGED Run!vars
  <2>1. pusher' = pusher /\ Phase[a] = "running" /\ Goto(a, "engine")
    BY <1>2 DEF Clone, Phase
  <2>2. Phase' = [Phase EXCEPT ![a] = "running"]
    BY <2>1, <1>p
  <2> QED
    BY <2>1, <2>2, <1>f
<1>3. ASSUME NEW a \in Attempts, Engine(a) PROVE [Run!Next]_(Run!vars)
  <2>1. UNCHANGED <<pusher>> /\ Phase[a] = "running"
    BY <1>3 DEF Engine, Phase
  <2>2. \/ Goto(a, "transient") \/ Goto(a, "checking")
    BY <1>3 DEF Engine
  <2>3. CASE Goto(a, "transient")
    BY <1>p, <1>f, <2>1, <2>3
  <2>4. CASE Goto(a, "checking")
    BY <1>p, <1>f, <2>1, <2>4
  <2> QED
    BY <2>2, <2>3, <2>4
<1>4. ASSUME NEW a \in Attempts, CheckWorkspace(a) \/ Verify(a)
      PROVE  [Run!Next]_(Run!vars)
  <2>1. UNCHANGED <<pusher>> /\ Phase[a] = "running"
    BY <1>4 DEF CheckWorkspace, Verify, Phase
  <2>2. \/ Goto(a, "verifying") \/ Goto(a, "pushing")
        \/ Goto(a, "engine") \/ Goto(a, "poison")
    BY <1>4 DEF CheckWorkspace, Verify, Judge, Repair, LeaveLoop
  <2>3. CASE Goto(a, "verifying") \/ Goto(a, "pushing") \/ Goto(a, "engine")
    BY <1>p, <1>f, <2>1, <2>3
  <2>4. CASE Goto(a, "poison")
    BY <1>p, <1>f, <2>1, <2>4
  <2> QED
    BY <2>2, <2>3, <2>4
<1>5. ASSUME NEW a \in Attempts, Push(a) PROVE Run!Green(a)
  BY <1>5, <1>p, <1>f DEF Push, Land, Phase
<1>6. ASSUME NEW a \in Attempts, PushRefused(a) PROVE Run!Poison(a)
  BY <1>6, <1>p, <1>f DEF PushRefused, Phase
<1>7. ASSUME NEW a \in Attempts, PushBreaks(a) PROVE Run!Transient(a) \/ Run!Poison(a)
  BY <1>7, <1>p, <1>f DEF PushBreaks, Land, Phase
<1>8. ASSUME NEW a \in Attempts, ToolFails(a) PROVE Run!Poison(a)
  BY <1>8, <1>p, <1>f DEF ToolFails, Phase
<1>9. ASSUME NEW a \in Attempts, ToolHangs(a) PROVE Run!Transient(a)
  BY <1>9, <1>p, <1>f DEF ToolHangs, Phase
<1>10. CASE UNCHANGED vars
  BY <1>10 DEF vars, Phase
<1> QED
  BY <1>1, <1>2, <1>3, <1>4, <1>5, <1>6, <1>7, <1>8, <1>9, <1>10 DEF Next

\* The sandbox implements what the worker relies on: EngineRun's outcomes.
THEOREM ImplementsRun == Spec => RunSpec
<1>1. Init => Run!Init
  BY DEF Init, Run!Init, Phase, Ended
<1> QED
  BY <1>1, StepRun, Invariant, PTL DEF Spec, RunSpec, Run!Spec, Inv
=============================================================================
