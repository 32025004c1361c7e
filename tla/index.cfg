SPECIFICATION Spec
CONSTANTS
  Queries <- MCQueries
  NodeCap = 2
  MaxCount = 3
  Datasets <- MCDatasets
  Batch = 2
  MaxCrashes = 1
CHECK_DEADLOCK FALSE
INVARIANTS
  TopIsBest
  ListedAlongPath
  SearchesOutliveRestarts
  UninterruptedStartServesAll
PROPERTIES
  DisplacedOnlyByGreater
