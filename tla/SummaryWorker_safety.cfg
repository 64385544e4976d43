CONSTANTS
  w1 = w1
  w2 = w2
  r1 = r1
  r2 = r2
  d1 = d1
  d2 = d2
  Worker = {w1, w2}
  Request = {r1, r2}
  Chunk <- PagedChunks
  BatchSize = 2
  MaxJobs = 3
  MaxStarts = 2
  Faults = TRUE
SPECIFICATION Spec
INVARIANTS
  TypeOK
  BatchesOwned
  AckedAreWritten
  ResponseIdsInStream
PROPERTIES
  ImplementsJobBoard
  OrphansStay
SYMMETRY Symmetric
CHECK_DEADLOCK FALSE
