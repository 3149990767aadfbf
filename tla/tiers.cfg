CONSTANTS
  n1 = n1
  n2 = n2
  t0 = t0
  t1 = t1
  q9 = q9
  b9 = b9
  q35 = q35
  Default = Default
  Plain = Plain
  NoTier = NoTier
  NoTask = NoTask
  Nodes = {n1, n2}
  AutoNodes = {n1}
  Listed <- MCListed
  GpuTiers = {q9, b9, q35}
  Need <- MCNeed
  Rank <- MCRank
  Weak = q9
  Strong = q35
  Msgs = {t0, t1}
  Labels <- MCLabels
  Proposed = {t1}
  Endless = {t0}
  BootTiers <- MCBootTiers
  VramLevels = {12000, 24000}
  MaxDeliver = 2
  MaxAckPending = 8
  MaxAttempts = 2
  MaxDeaths = 1
SPECIFICATION FairSpec
CHECK_DEADLOCK FALSE
INVARIANTS ServedByCapable LadderAnnounces
PROPERTIES TierFlows
