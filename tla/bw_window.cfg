SPECIFICATION FairSpec
CONSTANTS
  Queries = {q1, q2}
  Senders = {s1}
  MaxSize = 2
  MaxSearches = 3
  CallbackMayRaise = TRUE
  JoinMayTimeOut = FALSE
PROPERTIES
  EverySearchFlushed
