SPECIFICATION FairSpec
CONSTANTS
  Queries = {q1, q2, q3}
  Senders = {s1, s2}
  MaxSize = 2
  MaxSearches = 4
  CallbackMayRaise = TRUE
  JoinMayTimeOut = TRUE
INVARIANTS
  TypeOK
  SearchesConserved
  SizeTriggerArmed
  GrowsOnlyBehindWriter
  RowsNeverExceedSearches
  GracefulStopLosesNothing
PROPERTIES
  LedgerSpec
  FullBufferDrained
  StopCompletes
  FlushedWhileAlive
