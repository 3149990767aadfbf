CONSTANTS
  a1 = a1
  a2 = a2
  a3 = a3
  Nobody = Nobody
  Attempts = {a1, a2, a3}
  MaxRepairCycles = 2
  Limit = 3
  MaxTokens = 2
SPECIFICATION Spec
CHECK_DEADLOCK FALSE
SYMMETRY AttemptSymmetry
INVARIANTS NeverPushRed BudgetBounded PushedStays
PROPERTIES RunSpec
