CONSTANTS
  h1 = h1
  h2 = h2
  s1 = s1
  s2 = s2
  c1 = c1
  c2 = c2
  w1 = w1
  t1 = t1
  t2 = t2
  Key <- BothKeys
  Hash = {h1, h2}
  Text = {t1, t2}
  Saver = {s1, s2}
  Reader = {c1, c2}
  Asked <- TwoAtATime
  Writer = {w1}
  OldSummary <- LeftBehind
  PageTTL = 2
  MaxTime = 4
  Faults = TRUE
SPECIFICATION BoundedSpec
INVARIANTS
  TypeOK
  AnswersFit
  PageOutlivesSave
  MissesAreExpiries
PROPERTIES
  ImplementsPager
SYMMETRY CallSymmetry
CHECK_DEADLOCK FALSE
