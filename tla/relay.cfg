CONSTANTS
  p1 = p1
  p2 = p2
  NoRelay = NoRelay
  N = 4
  Relays = {p1, p2}
  Batch = 2
  Bad = {4}
  Lapsing = {2}
  MaxCopies = 2
  MaxFaults = 2
SPECIFICATION FairSpec
CHECK_DEADLOCK FALSE
INVARIANTS DisjointBatches
PROPERTIES OutboxSpec CleanRowsFlow
