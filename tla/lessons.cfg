CONSTANTS
  w1 = w1
  w2 = w2
  c1 = c1
  p1 = p1
  p2 = p2
  qa = qa
  security = security
  NoText = NoText
  NoTag = NoTag
  Writers = {w1, w2}
  TextsOf <- MCTextsOf
  Indexed = TRUE
  MaxRows = 2
  Prs = {p1, p2}
  HasTask = {p1}
  Lenses = {qa, security}
  PageSize = 1
  MaxRuns = 2
SYMMETRY Symmetry
SPECIFICATION Spec
CHECK_DEADLOCK FALSE
INVARIANTS StoresAgree NoneLeftOut SeededOnce NoMergeSlips
