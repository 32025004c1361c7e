SPECIFICATION FairSpec
CONSTANTS
  Queries <- MCQueries
  Dataset <- MCDataset
  Senders = {s1}
  MaxSize = 2
  NodeCap = 2
  Limit = 1
  CountScore <- MCCountScore
  RecencyWeight = 2
  Asked <- AskRecency
  MaxSearches = 2
  MaxScore = 1
  MaxScored = 3
  MaxCrashes = 0
  FlushMayFail = FALSE
  JoinMayTimeOut = TRUE
CHECK_DEADLOCK FALSE
INVARIANTS
  ShutdownLosesNothing
PROPERTIES
  EverySearchSeen
