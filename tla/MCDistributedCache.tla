--------------------------- MODULE MCDistributedCache ---------------------------
(* The nodes and the four keys lie on the ring so that three keys share a  *)
(* node, one of them by the wrap around the ring, and the node, with room  *)
(* for two entries, has a choice to evict; k1 has a shorter ttl than the   *)
(* others, as the recency mode has.  A third node gets no key as long as   *)
(* the others are there, and a fourth one is not in the cache.  MCOwner    *)
(* says what the ring comes to.                                            *)
EXTENDS CacheOnRing

CONSTANTS n1, n2, n3, n4, k1, k2, k3, k4

MCHashSpace == 0..7
MCPoints ==
  [n \in NodeNames |-> CASE n = n1 -> {1, 4} [] n = n2 -> {2, 6} [] n = n3 -> {5} [] n = n4 -> {3}]
MCHashOf ==
  [k \in Keys |-> CASE k = k1 -> 0 [] k = k2 -> 3 [] k = k3 -> 7 [] k = k4 -> 5]
MCOwner == [k \in Keys |-> IF k = k4 THEN n2 ELSE n1]
MCTtl == [k \in Keys |-> IF k = k1 THEN 1 ELSE 2]

Symmetry == Permutations(Threads) \cup Permutations(Values)
================================================================================
