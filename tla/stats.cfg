SPECIFICATION FairSpec
CONSTANTS
  Queries = {q1}
  Threads = {t1}
  Nodes <- MCNodes
  LatencyWindow = 1
  Latencies = {1}
  Polls = {p1, p2}
  MaxSuggests = 1
  MaxSearches = 1
INVARIANTS
  SectionsAddUp
PROPERTIES
  DashboardSettles
