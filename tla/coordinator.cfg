CONSTANTS
  p = p
  a = a
  b = b
  g1 = g1
  g2 = g2
  w1 = w1
  NoTask = NoTask
  NoWorker = NoWorker
  Incoming = {p}
  MaxDeliver = 2
  MaxAckPending = 1
  Tasks = {p, a, b}
  Graphs = {g1, g2}
  Mortal = {g1, w1}
  HIL = {g2}
  Workers = {w1}
  MaxLines = 2
SPECIFICATION FairSpec
CHECK_DEADLOCK FALSE
INVARIANTS DoneBySubtasks OneLivePerLine ClaimsExplained
PROPERTIES BoardSpec PlansEnd
