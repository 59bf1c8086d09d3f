CONSTANTS
  Clients = {c1}
  Service <- TestRpc
  Requests <- TestCalls
  Ints <- Words
  Strings <- Replies
  MaxCalls = 2
  Backlog = 1
  MaxFds = 2
  Garbage = {0, 1}
  Quitters = {}
  AllocMayFail = FALSE

SPECIFICATION Spec

INVARIANT SurvivorsExact

CHECK_DEADLOCK FALSE
