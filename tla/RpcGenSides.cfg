CONSTANTS
  ArgLists <- Lines
  Outcome <- OutcomeOf
  Creatable = {"gen", "--ast", "--client", "--server"}
  Null = Null
  MayBeKilled = TRUE
  DiskMayFill = TRUE
  MemoryMayFail = TRUE
  MaxRuns = 2

SPECIFICATION Spec

CHECK_DEADLOCK FALSE

INVARIANT SidesExclusive
