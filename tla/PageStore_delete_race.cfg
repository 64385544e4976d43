CONSTANTS
  h1 = h1
  h2 = h2
  s1 = s1
  s2 = s2
  c1 = c1
  c2 = c2
  w1 = w1
  t1 = t1
  t2 = t2
  Key <- OneKey
  Hash = {h1, h2}
  Text = {t1}
  Saver = {}
  Reader = {c1}
  Asked <- OneAsked
  Writer = {w1}
  OldSummary <- Dated
  PageTTL = 2
  MaxTime = 5
  Faults = FALSE
SPECIFICATION Spec
PROPERTIES
  ReadersKeepValidSummaries
CHECK_DEADLOCK FALSE
