CONSTANTS
  Clients = {c1, c2}
  Service <- Mixed
  Requests <- MixedCalls
  Ints <- OneWord
  Strings <- Replies
  MaxCalls = 2
  Backlog = 2
  MaxFds = 1
  Garbage = {0, 1}
  Quitters = {c1}
  AllocMayFail = TRUE

SPECIFICATION Spec

INVARIANTS
  AtMostOnce
  FdDiscipline

CHECK_DEADLOCK FALSE
