--------------------------- MODULE ConsistentHashRing ---------------------------
(***************************************************************************)
(* app/consistent_hash.py: which cache node owns a key.  A ring maps the   *)
(* points of its nodes' virtual nodes to those nodes; a key belongs to the *)
(* first point clockwise of its own hash.                                  *)
(*                                                                         *)
(* These are pure functions.  A ring record holds _nodes and _ring; the    *)
(* list _sorted_points is always sorted(_ring.keys()), here its domain.    *)
(* No two virtual nodes have the same name, and MD5 is taken to give them  *)
(* different points.                                                       *)
(***************************************************************************)
EXTENDS Integers, FiniteSets

CONSTANTS
  NodeNames,  \* every node there may be
  HashSpace,  \* the values of _hash()
  Points      \* node -> _hash("node#i") for i in range(vnodes)

ASSUME RingAssumption ==
  /\ HashSpace \subseteq Nat
  /\ Points \in [NodeNames -> SUBSET HashSpace]
  /\ \A m, n \in NodeNames : m # n => Points[m] \cap Points[n] = {}

NoNode == "None"

EmptyRing == [nodes |-> {}, owner |-> <<>>]
PointsOf(nodes) == UNION {Points[n] : n \in nodes}

--------------------------------------------------------------------------------
(* Plausible bugs: faulty variants of the definitions below, used by the   *)
(* mutation runs only.                                                     *)

(* sorted_points[hash(key) % len(sorted_points)]. *)
ClockwiseModulo(P, h) ==
  CHOOSE p \in P : Cardinality({q \in P : q < p}) = h % Cardinality(P)

(* A node that is removed from the list and not from the ring. *)
RemoveNodeKeepsPoints(ring, n) == [ring EXCEPT !.nodes = @ \ {n}]

--------------------------------------------------------------------------------

AddNode(ring, n) ==
  IF n \in ring.nodes THEN ring
  ELSE [nodes |-> ring.nodes \cup {n},
        owner |-> [p \in DOMAIN ring.owner \cup Points[n] |->
                     IF p \in Points[n] THEN n ELSE ring.owner[p]]]

RemoveNode(ring, n) ==
  IF n \notin ring.nodes THEN ring
  ELSE [nodes |-> ring.nodes \ {n},
        owner |-> [p \in DOMAIN ring.owner \ Points[n] |-> ring.owner[p]]]

(* bisect() in the sorted points, with the wrap around the ring. *)
Least(P) == CHOOSE p \in P : \A q \in P : p <= q
Clockwise(P, h) ==
  LET after == {p \in P : p > h}
  IN  IF after # {} THEN Least(after) ELSE Least(P)

GetNode(ring, h) ==
  IF DOMAIN ring.owner = {} THEN NoNode
  ELSE ring.owner[Clockwise(DOMAIN ring.owner, h)]

--------------------------------------------------------------------------------
(* Facts about rings, proved in CacheOnRingProofs.                         *)

RingOf(nodes) ==
  [nodes |-> nodes,
   owner |-> [p \in PointsOf(nodes) |-> CHOOSE n \in nodes : p \in Points[n]]]

(* Nodes may come and go in any order: the ring is always the one that its *)
(* present nodes determine, with every point of each of them and nothing   *)
(* left of the others.                                                     *)
MembershipDeterminesRing ==
  /\ EmptyRing = RingOf({})
  /\ \A S \in SUBSET NodeNames, n \in NodeNames :
       /\ AddNode(RingOf(S), n) = RingOf(S \cup {n})
       /\ RemoveNode(RingOf(S), n) = RingOf(S \ {n})

(* "Adding or removing a node only remaps the keys in that node's arc":    *)
(* a key that moves belonged to the node removed ...                       *)
RemovalMovesOnlyItsKeys ==
  \A S \in SUBSET NodeNames, n \in NodeNames, h \in HashSpace :
    \/ GetNode(RingOf(S), h) = n
    \/ GetNode(RemoveNode(RingOf(S), n), h) = GetNode(RingOf(S), h)

(* ... or belongs to the node added.                                       *)
AdditionMovesOnlyToIt ==
  \A S \in SUBSET NodeNames, n \in NodeNames, h \in HashSpace :
    GetNode(AddNode(RingOf(S), n), h) \in {n, GetNode(RingOf(S), h)}
================================================================================
