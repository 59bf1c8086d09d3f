CONSTANTS
  ArgLists <- Lines
  Outcome <- OutcomeOf
  Creatable = {"gen", "--ast", "--client", "--server"}
  Null = Null
  MayBeKilled = FALSE
  DiskMayFill = TRUE
  MemoryMayFail = FALSE
  MaxRuns = 1

SPECIFICATION Spec

CHECK_DEADLOCK FALSE

INVARIANT FailuresPrevent
