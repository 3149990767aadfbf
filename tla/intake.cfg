CONSTANTS
  s1 = s1
  s2 = s2
  forge = forge
  telegram = telegram
  slack = slack
  Syncs = {s1, s2}
  Loops = {telegram, slack}
  Forge = forge
  Posts <- MCPosts
  Ignored <- MCIgnored
  PageSize <- MCPageSize
  Newest = {forge, slack}
  Confirms = {telegram}
  MaxFaults = 1
SPECIFICATION FairSpec
INVARIANTS OneTaskPerItem NothingPassedOver
PROPERTIES ItemsFlow
