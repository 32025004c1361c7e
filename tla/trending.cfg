SPECIFICATION FairSpec
CONSTANTS
  Queries = {q1, q2}
  Threads = {t1, t2}
  Unit = 2
  Threshold = 1
  Decay <- MCDecay
  MaxScore = 6
  MaxAge = 4
  MaxLag = 1
INVARIANTS
  TypeOK
  NeverOverstated
  LatestSearchCounts
PROPERTIES
  OvertakenOnlyBySearch
  SpikesAreForgotten
