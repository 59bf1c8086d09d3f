CONSTANTS
  Clients = {c1, c2}
  Service <- TestRpc
  Requests <- TestCalls
  Ints <- Words
  Strings <- Replies
  MaxCalls = 1
  Backlog = 1
  MaxFds = 2
  Garbage = {0, 1}
  Quitters = {}
  AllocMayFail = FALSE

SPECIFICATION FairSpec

INVARIANTS
  NothingUnread

PROPERTIES
  KeepsPromise
  ResponseFramed
  ServerSurvives
  CallsComplete

CHECK_DEADLOCK FALSE
