CONSTANTS
  w1 = w1
  w2 = w2
  t1 = t1
  m1 = m1
  m2 = m2
  NoWorker = NoWorker
  NoMsg = NoMsg
  NoTask = NoTask
  Workers = {w1}
  Mortal = {}
  Tasks = {t1}
  Msgs = {m1, m2}
  First = {m1}
  TaskOf <- OneTask
  MaxDeliver = 1
  MaxAckPending = 2
  MaxAttempts = 1
  Token = TRUE
  Ages = TRUE
SPECIFICATION FairTriageSpec
CHECK_DEADLOCK FALSE
INVARIANTS ClosedIsReported
PROPERTIES AdvisoriesFlow
