CONSTANTS
  Clients = {c1, c2, c3}
  Service <- Add
  Requests <- TwoWords
  Ints <- OneWord
  Strings <- Replies
  MaxCalls = 1
  Backlog = 2
  MaxFds = 2
  Garbage = {0, 1}
  Quitters = {c1, c2}
  AllocMayFail = FALSE

SPECIFICATION FairSpec

INVARIANTS
  SurvivorsExact
  SurvivorsClosed

PROPERTY SurvivorsComplete

CHECK_DEADLOCK FALSE
