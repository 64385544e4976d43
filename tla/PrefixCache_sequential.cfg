CONSTANTS
  c1 = c1
  c2 = c2
  u1 = u1
  warm = warm
  m1 = m1
  m2 = m2
  a = a
  b = b
  Call = {c1}
  Session = {u1, warm}
  Template = {warm}
  Model = {m1, m2}
  Prefix <- AllPrefixes
  Blank = Blank
  IncludeModel = FALSE
  MinTokens = 32
  MinSegments = 2
  HotThreshold = 2
  DefaultTTL = 1
  HotTTL = 3
  MaxTime = 3
  MaxCalls = 3
  Faults = FALSE
SPECIFICATION BriefSpec
INVARIANTS
  OftenMeansHot
  ReasonsAreTrue
  ModelChangeIsDiagnosed
CHECK_DEADLOCK FALSE
