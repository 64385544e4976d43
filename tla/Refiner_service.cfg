CONSTANTS
  c1 = c1
  c2 = c2
  r1 = r1
  h1 = h1
  h2 = h2
  Call = {c1, c2}
  Http = {c2}
  Reader = {r1}
  Doc <- Docs
  PageTTL = 2
  MaxTime = 2
  MaxStarts = 2
  Faults = TRUE
SPECIFICATION FairSpec
INVARIANTS
  TypeOK
  GrpcCallsFinish
  RepliesHold
  SummariesAreOfTheText
PROPERTIES
  MissesAreOld
  SignalledExits
CHECK_DEADLOCK FALSE
