CONSTANTS
  r1 = r1
  r2 = r2
  Request = {r1, r2}
  Sent <- Clients
  Named <- Policies
  DefaultPolicy = "strict"
  Input <- Accepted
  Unit <- Units
  Canon <- Placeholders
  Markup = {"tag"}
  Boilerplate = {"nav"}
  Short = {"ok"}
  Heading = {"head"}
  Rule = {"--"}
  Signal = {"main"}
  Blank = "~"
  PageLimit = 3
  Keep <- Kept
  Source <- Names
  Label <- Titles
  Fold <- LowerCase
  MinTrigger <- Triggers
  SnipMin = 2
  Faults = TRUE
SPECIFICATION Spec
INVARIANTS
  TypeOK
  AuditsAddUp
  PagedOutIsReachable
  RefsArePaged
  CitationsAreKept
  NothingLostWithinBudget
  SameContextSamePrefix
  RegisteredPrefixIsSent
  ReplyIsThePrompt
SYMMETRY RequestSymmetry
CHECK_DEADLOCK FALSE
