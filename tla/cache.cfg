SPECIFICATION Spec
CONSTANTS
  n1 = n1
  n2 = n2
  n3 = n3
  n4 = n4
  k1 = k1
  k2 = k2
  k3 = k3
  k4 = k4
  Nodes = {n1, n2, n3}
  Keys = {k1, k2, k3, k4}
  Values = {v1, v2}
  Threads = {t1, t2}
  Owner <- MCOwner
  Ttl <- MCTtl
  Capacity = 2
  MaxClock = 2
  MaxCalls = 4
  NodeNames = {n1, n2, n3, n4}
  HashSpace <- MCHashSpace
  Points <- MCPoints
  HashOf <- MCHashOf
CHECK_DEADLOCK FALSE
SYMMETRY Symmetry
INVARIANTS
  EntriesAccounted
  ServedWithinTtl
  EntriesSurviveScaling
PROPERTIES
  EvictsLeastRecent
  LossySpec
