CONSTANTS
  w1 = w1
  w2 = w2
  r1 = r1
  r2 = r2
  d1 = d1
  d2 = d2
  Worker = {w1, w2}
  Request = {r1}
  Chunk <- OnlyPaged
  BatchSize = 2
  MaxJobs = 1
  MaxStarts = 2
  Faults = FALSE
SPECIFICATION FairSpec
PROPERTIES
  ConsumedJobsAreWritten
CHECK_DEADLOCK FALSE
