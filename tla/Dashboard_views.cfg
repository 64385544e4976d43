CONSTANTS
  Page = {1, 3}
  Evaluation = {2}
  Prefix = {1, 2, 3}
  Namespace = {1, 2}
  NamespaceOf <- Namespaces
  PageSize = 2
  Stores <- SomeStores
  MaxChanges = 1
  Faults = TRUE
  Span = {1, 2, 3}
  Services = {"a", "b"}
  Trace <- SomeTraces
  Milli = 2
SPECIFICATION Spec
INVARIANTS
  TypeOK
  NothingSteadyIsHidden
  QuietSnapshotIsExact
  DetailIsTrue
PROPERTIES
  TracesUnfold
CHECK_DEADLOCK FALSE
