CONSTANTS
  w1 = w1
  w2 = w2
  t1 = t1
  m1 = m1
  m2 = m2
  NoWorker = NoWorker
  NoMsg = NoMsg
  NoTask = NoTask
  Workers = {w1, w2}
  Mortal = {w1, w2}
  Tasks = {t1}
  Msgs = {m1, m2}
  First = {m1}
  TaskOf <- OneTask
  MaxDeliver = 2
  MaxAckPending = 2
  MaxAttempts = 3
  Token = FALSE
  Ages = FALSE
SPECIFICATION TriageSpec
CHECK_DEADLOCK FALSE
SYMMETRY WorkerSymmetry
VIEW EngineView
INVARIANTS EngineExclusive RunsCapped
