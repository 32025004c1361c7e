SPECIFICATION Spec
CONSTANTS
  Queries <- MCQueries
  Dataset <- MCDataset
  Senders = {s1, s2}
  MaxSize = 2
  NodeCap = 2
  Limit = 1
  CountScore <- MCCountScore
  RecencyWeight = 2
  Asked <- AskBoth
  MaxSearches = 2
  MaxScore = 0
  MaxScored = 3
  MaxCrashes = 1
  FlushMayFail = TRUE
  JoinMayTimeOut = TRUE
SYMMETRY Symmetry
CHECK_DEADLOCK FALSE
INVARIANTS
  IndexServesDisk
  ShownCountsDurable
  StaleOnlyIfOvertaken
  LookupBetween
PROPERTIES
  LedgerSpec
