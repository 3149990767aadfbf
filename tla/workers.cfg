CONSTANTS
  w1 = w1
  w2 = w2
  w3 = w3
  t1 = t1
  m1 = m1
  m2 = m2
  NoWorker = NoWorker
  NoMsg = NoMsg
  NoTask = NoTask
  Workers = {w1, w2, w3}
  Mortal = {w1, w2}
  Tasks = {t1}
  Msgs = {m1, m2}
  TaskOf <- OneTask
  MaxDeliver = 2
  MaxAckPending = 2
  MaxAttempts = 2
SPECIFICATION FairSpec
CHECK_DEADLOCK FALSE
INVARIANTS OneOwner NoOrphanClaim EventsMatchVerdicts AttemptsAgree BreakerHolds
PROPERTIES BoardSpec MessagesSettle TasksEnd
