CONSTANTS
  c1 = c1
  c2 = c2
  u1 = u1
  warm = warm
  m1 = m1
  m2 = m2
  a = a
  b = b
  Call = {c1, c2}
  Session = {u1}
  Template = {}
  Model = {m1}
  Prefix <- TwoPrefixes
  Blank = Blank
  IncludeModel = TRUE
  MinTokens = 32
  MinSegments = 2
  HotThreshold = 2
  DefaultTTL = 2
  HotTTL = 3
  MaxTime = 4
  MaxCalls = 3
  Faults = TRUE
SPECIFICATION Spec
INVARIANTS
  TypeOK
  RegistrationLives
  HotIsEarned
  ReasonsAreTrue
SYMMETRY CallSymmetry
CHECK_DEADLOCK FALSE
