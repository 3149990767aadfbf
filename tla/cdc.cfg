CONSTANTS
  N = 3
  Bad = {3}
  Lapsing = {2}
  MaxCopies = 2
  MaxFaults = 2
  NoSlot = NoSlot
SPECIFICATION FairSpec
CHECK_DEADLOCK FALSE
INVARIANTS NothingSkipped
PROPERTIES OutboxSpec RowsFlow
