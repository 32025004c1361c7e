SPECIFICATION TrieSpec
CONSTANTS
  Queries <- MCQueries
  NodeCap = 2
  MaxCount = 4
CHECK_DEADLOCK FALSE
INVARIANTS
  SizeIsQueriesIndexed
