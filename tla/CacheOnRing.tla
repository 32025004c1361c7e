------------------------------- MODULE CacheOnRing -------------------------------
(***************************************************************************)
(* The cache and its ring together: DistributedCache.__init__() makes a    *)
(* ring of the cache's nodes, and _node_for() asks it for the owner of     *)
(* every key.                                                              *)
(***************************************************************************)
EXTENDS DistributedCache, ConsistentHashRing

CONSTANT HashOf  \* key -> its hash

ASSUME CacheOnRingAssumption ==
  /\ Nodes \subseteq NodeNames
  /\ HashOf \in [Keys -> HashSpace]

Ring == RingOf(Nodes)
NodeFor == [k \in Keys |-> GetNode(Ring, HashOf[k])]

(* The keys another node would be asked for, if a node went or came. *)
MovedByRemoval ==
  {x \in Nodes \X Keys : GetNode(RemoveNode(Ring, x[1]), HashOf[x[2]]) # NodeFor[x[2]]}
MovedByAddition ==
  {x \in (NodeNames \ Nodes) \X Keys :
     GetNode(AddNode(Ring, x[1]), HashOf[x[2]]) \notin {x[1], NodeFor[x[2]]}}

(* "Adding or removing a node only remaps the keys in that node's arc": if *)
(* a node went, every entry of the others, which is where its key is       *)
(* looked for, would still be there, and if a node came, every entry whose *)
(* key it does not take.                                                   *)
EntriesSurviveScaling ==
  \A m \in Nodes : \A k \in KeysOf(store[m]) :
    /\ NodeFor[k] = m
    /\ \A n \in Nodes \ {m} : <<n, k>> \notin MovedByRemoval
    /\ \A n \in NodeNames \ Nodes : <<n, k>> \notin MovedByAddition
================================================================================
