CONSTANTS
  w1 = w1
  w2 = w2
  r1 = r1
  r2 = r2
  d1 = d1
  d2 = d2
  Worker = {w1, w2}
  Request = {r1}
  Chunk <- AllChunks
  BatchSize = 2
  MaxJobs = 2
  MaxStarts = 2
  Faults = TRUE
SPECIFICATION FairSpec
PROPERTIES
  LiveWorkerDelivers
  EveryJobIsAcked
CHECK_DEADLOCK FALSE
