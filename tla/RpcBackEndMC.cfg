CONSTANTS
  ArgLists <- Lines
  Outcome <- OutcomeOf
  Creatable = {"gen", "--ast", "--client", "--server"}
  Null = Null
  MayBeKilled = TRUE
  DiskMayFill = TRUE
  MemoryMayFail = TRUE
  MaxRuns = 2
  InitCap = 8
  IndentWidth = 4
  TextLengths <- Lengths
  AllocMayFail = TRUE
  MaxLength = 33
  MaxLevel = 2
  Powers = {1, 2, 4, 8, 16, 32}

SPECIFICATION BackEndSpec

CHECK_DEADLOCK FALSE

INVARIANTS
  SuccessIsComplete
  NoOrphans
  OptionsMeant
  NeverPastBlock
  IndentsLineStarts
  NeverNull

PROPERTY WritesOnlyRequested
