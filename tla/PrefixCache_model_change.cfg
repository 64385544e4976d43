CONSTANTS
  c1 = c1
  c2 = c2
  u1 = u1
  warm = warm
  m1 = m1
  m2 = m2
  a = a
  b = b
  Call = {c1}
  Session = {u1, warm}
  Template = {warm}
  Model = {m1, m2}
  Prefix <- OnePrefix
  Blank = Blank
  IncludeModel = TRUE
  MinTokens = 32
  MinSegments = 2
  HotThreshold = 2
  DefaultTTL = 1
  HotTTL = 3
  MaxTime = 4
  MaxCalls = 4
  Faults = FALSE
SPECIFICATION BriefSpec
INVARIANTS
  ModelChangeIsDiagnosed
CHECK_DEADLOCK FALSE
