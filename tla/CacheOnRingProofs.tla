---------------------------- MODULE CacheOnRingProofs ----------------------------
(***************************************************************************)
(* Theorems about the cache and its ring: about the ring first, for every  *)
(* set of nodes, every number of virtual nodes and every placement of      *)
(* them; then about the cache, for every set of nodes, keys, values and    *)
(* threads, every assignment of keys to nodes, every ttl and every         *)
(* capacity; last about the two together.                                  *)
(***************************************************************************)
EXTENDS CacheOnRing, SequenceTheorems, WellFoundedInduction, TLAPS

LEMMA RingFields ==
  ASSUME NEW S
  PROVE  /\ RingOf(S).nodes = S
         /\ DOMAIN RingOf(S).owner = PointsOf(S)
         /\ RingOf(S).owner = [p \in PointsOf(S) |-> RingOf(S).owner[p]]
         /\ RingOf(S) = [nodes |-> S, owner |-> RingOf(S).owner]
<1> DEFINE f == [p \in PointsOf(S) |-> CHOOSE n \in S : p \in Points[n]]
<1>1. RingOf(S) = [nodes |-> S, owner |-> f]
  BY DEF RingOf
<1>2. DOMAIN f = PointsOf(S) /\ f = [p \in PointsOf(S) |-> f[p]]
  OBVIOUS
<1> HIDE DEF f
<1>3. RingOf(S).nodes = S /\ RingOf(S).owner = f
  BY <1>1
<1>4. QED
  BY <1>1, <1>2, <1>3

(* A ring that is made from a set of nodes knows the owner of each point. *)
LEMMA OwnerOf ==
  ASSUME NEW S \in SUBSET NodeNames, NEW n \in S, NEW p \in Points[n]
  PROVE  p \in PointsOf(S) /\ RingOf(S).owner[p] = n
<1>1. p \in PointsOf(S)
  BY DEF PointsOf
<1>2. \A m \in S : p \in Points[m] => m = n
  BY RingAssumption
<1>3. (CHOOSE m \in S : p \in Points[m]) = n
  BY <1>2
<1>4. RingOf(S).owner[p] = (CHOOSE m \in S : p \in Points[m])
  BY <1>1 DEF RingOf
<1>5. QED
  BY <1>1, <1>3, <1>4

LEMMA PointsAreHashes ==
  ASSUME NEW S \in SUBSET NodeNames
  PROVE  PointsOf(S) \subseteq HashSpace
BY RingAssumption DEF PointsOf

LEMMA AddedRing ==
  ASSUME NEW S \in SUBSET NodeNames, NEW n \in NodeNames
  PROVE  AddNode(RingOf(S), n) = RingOf(S \cup {n})
<1>1. CASE n \in S
  <2>1. S \cup {n} = S
    BY <1>1
  <2>2. QED
    BY <1>1, <2>1, RingFields DEF AddNode
<1>2. CASE n \notin S
  <2> DEFINE T == S \cup {n}
             new == [p \in PointsOf(S) \cup Points[n] |->
                       IF p \in Points[n] THEN n ELSE RingOf(S).owner[p]]
  <2>1. AddNode(RingOf(S), n) = [nodes |-> T, owner |-> new]
    BY <1>2, RingFields DEF AddNode
  <2>2. PointsOf(T) = PointsOf(S) \cup Points[n]
    BY DEF PointsOf
  <2>3. ASSUME NEW p \in PointsOf(T) PROVE new[p] = RingOf(T).owner[p]
    <3>1. CASE p \in Points[n]
      <4>1. RingOf(T).owner[p] = n
        BY <3>1, OwnerOf
      <4>2. QED
        BY <2>2, <3>1, <4>1
    <3>2. CASE p \notin Points[n]
      <4>1. PICK m \in S : p \in Points[m]
        BY <3>2 DEF PointsOf
      <4>2. RingOf(S).owner[p] = m /\ RingOf(T).owner[p] = m
        BY <4>1, OwnerOf
      <4>3. QED
        BY <2>2, <3>2, <4>2
    <3>3. QED
      BY <3>1, <3>2
  <2>4. RingOf(T) = [nodes |-> T, owner |-> [p \in PointsOf(T) |-> RingOf(T).owner[p]]]
    <3> HIDE DEF T
    <3>1. QED
      BY RingFields
  <2>5. new = [p \in PointsOf(T) |-> RingOf(T).owner[p]]
    <3> HIDE DEF T
    <3>1. new = [p \in PointsOf(T) |-> new[p]]
      BY <2>2
    <3>2. QED
      BY <2>3, <3>1
  <2>6. QED
    BY <2>1, <2>4, <2>5
<1>3. QED
  BY <1>1, <1>2

LEMMA RemovedRing ==
  ASSUME NEW S \in SUBSET NodeNames, NEW n \in NodeNames
  PROVE  RemoveNode(RingOf(S), n) = RingOf(S \ {n})
<1>1. CASE n \notin S
  <2>1. S \ {n} = S
    BY <1>1
  <2>2. QED
    BY <1>1, <2>1, RingFields DEF RemoveNode
<1>2. CASE n \in S
  <2> DEFINE T == S \ {n}
             new == [p \in PointsOf(S) \ Points[n] |-> RingOf(S).owner[p]]
  <2>1. RemoveNode(RingOf(S), n) = [nodes |-> T, owner |-> new]
    BY <1>2, RingFields DEF RemoveNode
  <2>2. PointsOf(T) = PointsOf(S) \ Points[n]
    BY RingAssumption DEF PointsOf
  <2>3. ASSUME NEW p \in PointsOf(T) PROVE new[p] = RingOf(T).owner[p]
    <3>1. PICK m \in T : p \in Points[m]
      BY DEF PointsOf
    <3>2. RingOf(S).owner[p] = m /\ RingOf(T).owner[p] = m
      BY <3>1, OwnerOf
    <3>3. QED
      BY <2>2, <3>2
  <2>4. RingOf(T) = [nodes |-> T, owner |-> [p \in PointsOf(T) |-> RingOf(T).owner[p]]]
    <3> HIDE DEF T
    <3>1. QED
      BY RingFields
  <2>5. new = [p \in PointsOf(T) |-> RingOf(T).owner[p]]
    <3> HIDE DEF T
    <3>1. new = [p \in PointsOf(T) |-> new[p]]
      BY <2>2
    <3>2. QED
      BY <2>3, <3>1
  <2>6. QED
    BY <2>1, <2>4, <2>5
<1>3. QED
  BY <1>1, <1>2

(* Membership changes in any order leave no trace in the ring. *)
THEOREM RingIsItsMembers == MembershipDeterminesRing
<1>1. EmptyRing = RingOf({})
  <2>1. PointsOf({}) = {}
    BY DEF PointsOf
  <2>2. RingOf({}).owner = <<>>
    BY <2>1 DEF RingOf
  <2>3. QED
    BY <2>2 DEF EmptyRing, RingOf
<1>2. QED
  BY <1>1, AddedRing, RemovedRing DEF MembershipDeterminesRing

--------------------------------------------------------------------------------
(* Routing. *)

(* Numbers have no infinite descent, so any set of points has a first one. *)
LEMMA LeastPoint ==
  ASSUME NEW P \in SUBSET HashSpace, P # {}
  PROVE  Least(P) \in P /\ \A q \in P : Least(P) <= q
<1> DEFINE Below == {pq \in Nat \X Nat : pq[1] < pq[2]}
<1>1. P \subseteq Nat
  BY RingAssumption
<1>2. IsWellFoundedOn(Below, Nat)
  BY NatLessThanWellFounded DEF OpToRel
<1>3. PICK p \in P : \A q \in P : <<q, p>> \notin Below
  BY <1>1, <1>2, WFMin
<1>4. \A q \in P : p <= q
  <2> TAKE q \in P
  <2>1. q \in Nat /\ p \in Nat
    BY <1>1
  <2>2. q < p => <<q, p>> \in Below
    BY <2>1
  <2> QED
    BY <1>3, <2>1, <2>2
<1> QED
  BY <1>4 DEF Least

(* The first point clockwise, if it stays, is the first one of fewer.      *)
LEMMA FirstOfFewer ==
  ASSUME NEW P \in SUBSET HashSpace, NEW Q \in SUBSET P, NEW h \in HashSpace,
         P # {}, Clockwise(P, h) \in Q
  PROVE  Clockwise(Q, h) = Clockwise(P, h)
<1> DEFINE c == Clockwise(P, h)
<1>1. ASSUME NEW A \in SUBSET HashSpace, A # {}
      PROVE  Least(A) \in A /\ \A q \in A : Least(A) <= q
  BY <1>1, LeastPoint
<1>2. ASSUME NEW A \in SUBSET HashSpace, NEW m \in A, \A q \in A : m <= q
      PROVE  Least(A) = m
  <2>1. Least(A) <= m /\ m <= Least(A) /\ Least(A) \in A
    BY <1>1, <1>2
  <2>2. Least(A) \in Nat /\ m \in Nat
    BY <2>1, RingAssumption
  <2>3. QED
    BY <2>1, <2>2
<1> DEFINE afterP == {p \in P : p > h}
           afterQ == {p \in Q : p > h}
<1>3. CASE afterP # {}
  <2>1. c = Least(afterP)
    BY <1>3 DEF Clockwise
  <2>2. c \in afterP /\ \A q \in afterP : c <= q
    BY <1>1, <1>3, <2>1
  <2>3. c \in afterQ /\ \A q \in afterQ : c <= q
    BY <2>2
  <2>4. Least(afterQ) = c
    BY <1>2, <2>3
  <2>5. QED
    BY <2>3, <2>4 DEF Clockwise
<1>4. CASE afterP = {}
  <2>1. c = Least(P)
    BY <1>4 DEF Clockwise
  <2>2. c \in Q /\ \A q \in Q : c <= q
    BY <1>1, <2>1
  <2>3. Least(Q) = c
    BY <1>2, <2>2
  <2>4. afterQ = {}
    BY <1>4
  <2>5. QED
    BY <2>3, <2>4 DEF Clockwise
<1>5. QED
  BY <1>3, <1>4

LEMMA ClockwiseIn ==
  ASSUME NEW P \in SUBSET HashSpace, NEW h \in HashSpace, P # {}
  PROVE  Clockwise(P, h) \in P
<1> DEFINE after == {p \in P : p > h}
<1>1. CASE after # {}
  BY <1>1, LeastPoint DEF Clockwise
<1>2. CASE after = {}
  BY <1>2, LeastPoint DEF Clockwise
<1> QED
  BY <1>1, <1>2

(* A ring with one more node routes a key as before or to that node. *)
LEMMA OneMoreNode ==
  ASSUME NEW S \in SUBSET NodeNames, NEW n \in NodeNames \ S, NEW h \in HashSpace
  PROVE  \/ GetNode(RingOf(S \cup {n}), h) = n
         \/ GetNode(RingOf(S), h) = GetNode(RingOf(S \cup {n}), h)
<1> DEFINE T == S \cup {n}
           c == Clockwise(PointsOf(T), h)
<1>1. PointsOf(T) = PointsOf(S) \cup Points[n] /\ T \in SUBSET NodeNames
  BY DEF PointsOf
<1>2. /\ DOMAIN RingOf(S).owner = PointsOf(S)
      /\ DOMAIN RingOf(T).owner = PointsOf(T)
  BY RingFields
<1> HIDE DEF T
<1>3. CASE PointsOf(T) = {}
  <2>1. GetNode(RingOf(S), h) = NoNode /\ GetNode(RingOf(T), h) = NoNode
    BY <1>1, <1>2, <1>3 DEF GetNode
  <2>2. QED
    BY <2>1 DEF T
<1>4. CASE PointsOf(T) # {}
  <2>1. c \in PointsOf(T) /\ GetNode(RingOf(T), h) = RingOf(T).owner[c]
    BY <1>1, <1>2, <1>4, ClockwiseIn, PointsAreHashes DEF GetNode
  <2>2. CASE c \in Points[n]
    <3>1. RingOf(T).owner[c] = n
      BY <1>1, <2>2, OwnerOf DEF T
    <3>2. QED
      BY <2>1, <3>1 DEF T
  <2>3. CASE c \notin Points[n]
    <3>1. PICK m \in S : c \in Points[m]
      BY <1>1, <2>1, <2>3 DEF PointsOf
    <3>2. c \in PointsOf(S)
      BY <3>1, OwnerOf
    <3>3. Clockwise(PointsOf(S), h) = c
      BY <1>1, <1>4, <3>2, FirstOfFewer, PointsAreHashes
    <3>4. RingOf(S).owner[c] = m /\ RingOf(T).owner[c] = m
      BY <1>1, <3>1, OwnerOf DEF T
    <3>5. GetNode(RingOf(S), h) = RingOf(S).owner[c]
      BY <1>2, <3>2, <3>3 DEF GetNode
    <3>6. QED
      BY <2>1, <3>4, <3>5 DEF T
  <2>4. QED
    BY <2>2, <2>3
<1>5. QED
  BY <1>3, <1>4

(* A key that moves when a node is removed was that node's. *)
THEOREM RemovalIsLocal == RemovalMovesOnlyItsKeys
<1> SUFFICES ASSUME NEW S \in SUBSET NodeNames, NEW n \in NodeNames, NEW h \in HashSpace
             PROVE  \/ GetNode(RingOf(S), h) = n
                    \/ GetNode(RemoveNode(RingOf(S), n), h) = GetNode(RingOf(S), h)
  BY DEF RemovalMovesOnlyItsKeys
<1>1. RemoveNode(RingOf(S), n) = RingOf(S \ {n})
  BY RemovedRing
<1>2. CASE n \in S
  <2>1. (S \ {n}) \cup {n} = S /\ n \in NodeNames \ (S \ {n})
    BY <1>2
  <2>2. QED
    BY <1>1, <2>1, OneMoreNode
<1>3. CASE n \notin S
  BY <1>3, RingFields DEF RemoveNode
<1>4. QED
  BY <1>2, <1>3

(* A key that moves when a node is added moves to that node. *)
THEOREM AdditionIsLocal == AdditionMovesOnlyToIt
<1> SUFFICES ASSUME NEW S \in SUBSET NodeNames, NEW n \in NodeNames, NEW h \in HashSpace
             PROVE  GetNode(AddNode(RingOf(S), n), h) \in {n, GetNode(RingOf(S), h)}
  BY DEF AdditionMovesOnlyToIt
<1>1. CASE n \in S
  BY <1>1, RingFields DEF AddNode
<1>2. CASE n \notin S
  <2>1. n \in NodeNames \ S
    BY <1>2
  <2>2. AddNode(RingOf(S), n) = RingOf(S \cup {n})
    BY AddedRing
  <2>3. \/ GetNode(RingOf(S \cup {n}), h) = n
        \/ GetNode(RingOf(S), h) = GetNode(RingOf(S \cup {n}), h)
    BY <2>1, OneMoreNode
  <2>4. QED
    BY <2>2, <2>3
<1>3. QED
  BY <1>1, <1>2

--------------------------------------------------------------------------------
(* The cache. *)

(* The parts of OneCopyAtOwner and LruOrder that are about one list.       *)
Distinct(list) == \A i, j \in DOMAIN list : list[i].key = list[j].key => i = j
InOrder(list, order) == \A i, j \in DOMAIN list : i < j => <<list[j].key, list[i].key>> \in order

(* w has entries of list, in the order they have there. *)
PartOf(w, list) ==
  /\ \A i \in DOMAIN w : \E a \in DOMAIN list : w[i] = list[a]
  /\ \A i, j \in DOMAIN w : i < j =>
       \E a, b \in DOMAIN list : a < b /\ w[i] = list[a] /\ w[j] = list[b]

--------------------------------------------------------------------------------
(* Lemmas about lists.                                                     *)

(* At() finds the entry of a key that is there. *)
LEMMA AtFinds ==
  ASSUME NEW list \in Seq(Entry), NEW k \in KeysOf(list)
  PROVE  At(list, k) \in DOMAIN list /\ list[At(list, k)].key = k
  BY DEF At, KeysOf

LEMMA AtIsOnly ==
  ASSUME NEW list \in Seq(Entry), Distinct(list), NEW i \in DOMAIN list
  PROVE  At(list, list[i].key) = i
<1>1. list[i].key \in KeysOf(list)
  BY DEF KeysOf
<1> QED
  BY <1>1, AtFinds DEF Distinct

LEMMA PartDistinct ==
  ASSUME NEW list \in Seq(Entry), NEW w \in Seq(Entry), Distinct(list), PartOf(w, list)
  PROVE  Distinct(w)
<1> SUFFICES ASSUME NEW i \in DOMAIN w, NEW j \in DOMAIN w, i < j, w[i].key = w[j].key
             PROVE  FALSE
  BY DEF Distinct
<1>1. PICK a \in DOMAIN list, b \in DOMAIN list : a < b /\ w[i] = list[a] /\ w[j] = list[b]
  BY DEF PartOf
<1> QED
  BY <1>1 DEF Distinct

LEMMA PartInOrder ==
  ASSUME NEW list \in Seq(Entry), NEW w \in Seq(Entry), NEW order, InOrder(list, order),
         PartOf(w, list)
  PROVE  InOrder(w, order)
<1> SUFFICES ASSUME NEW i \in DOMAIN w, NEW j \in DOMAIN w, i < j
             PROVE  <<w[j].key, w[i].key>> \in order
  BY DEF InOrder
<1>1. PICK a \in DOMAIN list, b \in DOMAIN list : a < b /\ w[i] = list[a] /\ w[j] = list[b]
  BY DEF PartOf
<1> QED
  BY <1>1 DEF InOrder

LEMMA PartKeys ==
  ASSUME NEW list \in Seq(Entry), NEW w \in Seq(Entry), PartOf(w, list)
  PROVE  KeysOf(w) \subseteq KeysOf(list)
  BY DEF PartOf, KeysOf

(* Removing the entry of a key. *)
LEMMA WithoutProperties ==
  ASSUME NEW list \in Seq(Entry), NEW k, Distinct(list)
  PROVE  /\ Without(list, k) \in Seq(Entry)
         /\ PartOf(Without(list, k), list)
         /\ KeysOf(Without(list, k)) = KeysOf(list) \ {k}
         /\ Len(Without(list, k)) = IF k \in KeysOf(list) THEN Len(list) - 1 ELSE Len(list)
<1>1. CASE k \notin KeysOf(list)
  BY <1>1 DEF Without, PartOf
<1>2. CASE k \in KeysOf(list)
  <2> DEFINE a == At(list, k)
             w == Without(list, k)
  <2>1. a \in 1..Len(list) /\ list[a].key = k
    BY <1>2, AtFinds
  <2> DEFINE before == SubSeq(list, 1, a - 1)
             after == SubSeq(list, a + 1, Len(list))
  <2>2. w = before \o after
    BY <1>2 DEF Without, RemoveAt
  <2> HIDE DEF a, w
  <2>3. /\ before \in Seq(Entry) /\ Len(before) = a - 1
        /\ after \in Seq(Entry) /\ Len(after) = Len(list) - a
        /\ \A i \in 1..(a - 1) : before[i] = list[i]
        /\ \A i \in 1..(Len(list) - a) : after[i] = list[a + i]
    BY <2>1
  <2> HIDE DEF before, after
  <2>4. /\ w \in Seq(Entry) /\ Len(w) = Len(list) - 1
        /\ \A i \in 1..(Len(list) - 1) : w[i] = IF i <= a - 1 THEN before[i] ELSE after[i - (a - 1)]
    <3>1. Len(before) + Len(after) = Len(list) - 1
      BY <2>1, <2>3
    <3> QED
      BY <2>2, <2>3, <3>1, ConcatProperties
  <2>5. \A i \in 1..(Len(list) - 1) : w[i] = list[IF i < a THEN i ELSE i + 1]
    <3> TAKE i \in 1..(Len(list) - 1)
    <3>1. CASE i < a
      BY <3>1, <2>1, <2>3, <2>4
    <3>2. CASE i >= a
      <4>1. i - (a - 1) \in 1..(Len(list) - a) /\ a + (i - (a - 1)) = i + 1 /\ ~(i <= a - 1)
        BY <3>2, <2>1
      <4>2. after[i - (a - 1)] = list[i + 1]
        BY <4>1, <2>3
      <4> QED
        BY <3>2, <4>1, <4>2, <2>1, <2>4
    <3> QED
      BY <3>1, <3>2, <2>1
  <2>6. PartOf(w, list)
    <3> DEFINE pos(i) == IF i < a THEN i ELSE i + 1
    <3>1. \A i \in DOMAIN w : pos(i) \in DOMAIN list /\ w[i] = list[pos(i)]
      <4> TAKE i \in DOMAIN w
      <4>1. i \in 1..(Len(list) - 1) /\ pos(i) \in DOMAIN list
        BY <2>1, <2>4
      <4> QED
        BY <4>1, <2>5
    <3>2. \A i, j \in DOMAIN w : i < j => pos(i) < pos(j)
      BY <2>1, <2>4
    <3> HIDE DEF pos
    <3> QED
      BY <3>1, <3>2 DEF PartOf
  <2>7. \A b \in DOMAIN list : b # a => \E i \in DOMAIN w : w[i] = list[b]
    <3> TAKE b \in DOMAIN list
    <3>1. CASE b < a
      <4>1. b \in 1..(Len(list) - 1)
        BY <3>1, <2>1
      <4>2. b \in DOMAIN w /\ w[b] = list[b]
        BY <3>1, <4>1, <2>4, <2>5
      <4> QED
        BY <4>2
    <3>2. CASE b > a
      <4>1. b - 1 \in 1..(Len(list) - 1) /\ ~(b - 1 < a) /\ (b - 1) + 1 = b
        BY <3>2, <2>1
      <4>2. b - 1 \in DOMAIN w /\ w[b - 1] = list[b]
        BY <4>1, <2>4, <2>5
      <4> QED
        BY <4>2
    <3> QED
      BY <3>1, <3>2, <2>1
  <2>8. \A i \in DOMAIN w : w[i].key # k
    BY <2>1, <2>4, <2>5 DEF Distinct
  <2>9. KeysOf(w) = KeysOf(list) \ {k}
    <3>1. KeysOf(w) \subseteq KeysOf(list) \ {k}
      BY <2>4, <2>6, <2>8, PartKeys DEF KeysOf
    <3>2. ASSUME NEW x \in KeysOf(list) \ {k} PROVE x \in KeysOf(w)
      <4>1. PICK b \in DOMAIN list : list[b].key = x
        BY DEF KeysOf
      <4> QED
        BY <4>1, <2>1, <2>7 DEF KeysOf
    <3> QED
      BY <3>1, <3>2
  <2> QED
    BY <1>2, <2>4, <2>6, <2>9 DEF w
<1> QED
  BY <1>1, <1>2

(* What is left when the first m entries go. *)
LEMMA SuffixProperties ==
  ASSUME NEW list \in Seq(Entry), NEW m \in 0..Len(list)
  PROVE  LET w == SubSeq(list, m + 1, Len(list))
         IN  /\ w \in Seq(Entry) /\ Len(w) = Len(list) - m
             /\ \A i \in DOMAIN w : w[i] = list[m + i]
             /\ PartOf(w, list)
<1> DEFINE w == SubSeq(list, m + 1, Len(list))
<1>1. w \in Seq(Entry) /\ Len(w) = Len(list) - m /\ \A i \in DOMAIN w : w[i] = list[m + i]
  OBVIOUS
<1> HIDE DEF w
<1>2. PartOf(w, list)
  <2>1. \A i \in DOMAIN w : m + i \in DOMAIN list /\ w[i] = list[m + i]
    BY <1>1
  <2>2. \A i, j \in DOMAIN w : i < j => m + i < m + j
    BY <1>1
  <2> QED
    BY <2>1, <2>2 DEF PartOf
<1> QED
  BY <1>1, <1>2 DEF w

(* An entry whose key is not in a list goes to its end. *)
LEMMA AppendEntry ==
  ASSUME NEW list \in Seq(Entry), NEW e \in Entry, Distinct(list), e.key \notin KeysOf(list)
  PROVE  /\ Append(list, e) \in Seq(Entry) /\ Len(Append(list, e)) = Len(list) + 1
         /\ Distinct(Append(list, e))
         /\ KeysOf(Append(list, e)) = KeysOf(list) \cup {e.key}
         /\ \A i \in DOMAIN list : Append(list, e)[i] = list[i]
         /\ Append(list, e)[Len(list) + 1] = e
<1> DEFINE w == Append(list, e)
<1>1. /\ w \in Seq(Entry) /\ Len(w) = Len(list) + 1
      /\ \A i \in DOMAIN list : w[i] = list[i]
      /\ w[Len(list) + 1] = e
  BY AppendProperties
<1> HIDE DEF w
<1>2. \A i \in DOMAIN w : i \in DOMAIN list \/ i = Len(list) + 1
  BY <1>1
<1>3. Distinct(w)
  BY <1>1, <1>2 DEF Distinct, KeysOf
<1>4. KeysOf(w) = KeysOf(list) \cup {e.key}
  BY <1>1, <1>2 DEF KeysOf
<1> QED
  BY <1>1, <1>3, <1>4 DEF w

(* An entry that is stored or used goes to the recent end, and the order   *)
(* of use follows.                                                         *)
LEMMA MoveToEndProperties ==
  ASSUME NEW list \in Seq(Entry), NEW e \in Entry, Distinct(list)
  PROVE  LET w == MoveToEnd(list, e)
         IN  /\ w \in Seq(Entry) /\ Distinct(w)
             /\ KeysOf(w) = KeysOf(list) \cup {e.key}
             /\ Len(w) = IF e.key \in KeysOf(list) THEN Len(list) ELSE Len(list) + 1
             /\ w[Len(w)] = e
             /\ \A i \in DOMAIN w : i # Len(w) =>
                  w[i].key # e.key /\ \E a \in DOMAIN list : w[i] = list[a]
             /\ \A i, j \in DOMAIN w : i < j /\ j # Len(w) =>
                  \E a, b \in DOMAIN list : a < b /\ w[i] = list[a] /\ w[j] = list[b]
<1> DEFINE r == Without(list, e.key)
           w == Append(r, e)
<1>1. /\ r \in Seq(Entry) /\ Distinct(r) /\ PartOf(r, list)
      /\ KeysOf(r) = KeysOf(list) \ {e.key}
      /\ Len(r) = IF e.key \in KeysOf(list) THEN Len(list) - 1 ELSE Len(list)
  BY WithoutProperties, PartDistinct
<1> HIDE DEF r
<1>2. /\ w \in Seq(Entry) /\ Len(w) = Len(r) + 1 /\ Distinct(w)
      /\ KeysOf(w) = KeysOf(r) \cup {e.key}
      /\ \A i \in DOMAIN r : w[i] = r[i]
      /\ w[Len(r) + 1] = e
  BY <1>1, AppendEntry
<1> HIDE DEF w
<1>3. \A i \in DOMAIN w : i # Len(w) => i \in DOMAIN r /\ w[i] = r[i]
  BY <1>1, <1>2
<1>4. \A i \in DOMAIN r : r[i].key # e.key
  BY <1>1 DEF KeysOf
<1>5. \A i, j \in DOMAIN w : i < j /\ j # Len(w) => i \in DOMAIN r /\ j \in DOMAIN r
  BY <1>1, <1>2
<1>6. \A i \in DOMAIN w : i # Len(w) =>
        w[i].key # e.key /\ \E a \in DOMAIN list : w[i] = list[a]
  BY <1>1, <1>3, <1>4 DEF PartOf
<1>7. \A i, j \in DOMAIN w : i < j /\ j # Len(w) =>
        \E a, b \in DOMAIN list : a < b /\ w[i] = list[a] /\ w[j] = list[b]
  BY <1>1, <1>2, <1>5 DEF PartOf
<1>8. Len(w) = IF e.key \in KeysOf(list) THEN Len(list) ELSE Len(list) + 1
  BY <1>1, <1>2
<1>9. MoveToEnd(list, e) = w /\ w[Len(w)] = e
  BY <1>2 DEF MoveToEnd, r, w
<1> QED
  BY <1>1, <1>2, <1>6, <1>7, <1>8, <1>9

(* Using k keeps a list that has no other use of k in order. *)
LEMMA UsedKeepsOrder ==
  ASSUME NEW list \in Seq(Entry), NEW k \in Keys, InOrder(list, newer),
         \A i \in DOMAIN list : list[i].key # k
  PROVE  InOrder(list, Used(k))
  BY DEF InOrder, Used, Rivals

LEMMA MoveToEndInOrder ==
  ASSUME NEW list \in Seq(Entry), NEW e \in Entry, Distinct(list), InOrder(list, newer),
         \A i \in DOMAIN list : list[i].key \in Keys /\ Owner[list[i].key] = Owner[e.key]
  PROVE  InOrder(MoveToEnd(list, e), Used(e.key))
<1> DEFINE w == MoveToEnd(list, e)
<1>1. /\ w \in Seq(Entry) /\ w[Len(w)] = e
      /\ \A i \in DOMAIN w : i # Len(w) =>
           w[i].key # e.key /\ \E a \in DOMAIN list : w[i] = list[a]
      /\ \A i, j \in DOMAIN w : i < j /\ j # Len(w) =>
           \E a, b \in DOMAIN list : a < b /\ w[i] = list[a] /\ w[j] = list[b]
  BY MoveToEndProperties
<1> HIDE DEF w
<1> SUFFICES ASSUME NEW i \in DOMAIN w, NEW j \in DOMAIN w, i < j
             PROVE  <<w[j].key, w[i].key>> \in Used(e.key)
  BY DEF InOrder, w
<1>2. i # Len(w) /\ w[i].key # e.key
  BY <1>1
<1>3. PICK a \in DOMAIN list : w[i] = list[a]
  BY <1>1, <1>2
<1>4. CASE j = Len(w)
  BY <1>1, <1>2, <1>3, <1>4 DEF Used, Rivals
<1>5. CASE j # Len(w)
  <2>1. PICK c \in DOMAIN list, d \in DOMAIN list : c < d /\ w[i] = list[c] /\ w[j] = list[d]
    BY <1>1, <1>5
  <2>2. <<w[j].key, w[i].key>> \in newer
    BY <2>1 DEF InOrder
  <2> QED
    BY <1>2, <2>2 DEF Used
<1> QED
  BY <1>4, <1>5

--------------------------------------------------------------------------------
(* The inductive invariant.                                                *)

(* The lists stand for a dictionary per node: every entry is in the list   *)
(* of its key's owner, and a key is in it once.                            *)
OneCopyAtOwner ==
  \A n \in Nodes :
    /\ \A i \in DOMAIN store[n] : Owner[store[n][i].key] = n
    /\ \A i, j \in DOMAIN store[n] : store[n][i].key = store[n][j].key => i = j

(* An entry, stored or about to be, expires its ttl after its set() read   *)
(* the clock: nothing moves the time on.                                   *)
DatedEntry(e) == e.expiry = e.born + Ttl[e.key]
Dated ==
  /\ \A n \in Nodes : \A i \in DOMAIN store[n] : DatedEntry(store[n][i])
  /\ \A t \in Threads : call[t].op = "set" => DatedEntry(call[t].entry)

IInv == TypeOK /\ OneCopyAtOwner /\ LruOrder /\ EntriesAccounted /\ Dated /\ ServedWithinTtl

LEMMA CallType ==
  ASSUME TypeOK, NEW t \in Threads
  PROVE  /\ call[t] = Idle \/ call[t].op = "get" \/ call[t].op = "set"
         /\ call[t].op = "get" => call[t].key \in Keys /\ call[t].now \in 0..MaxClock
         /\ call[t].op = "set" => call[t].entry \in Entry
<1>1. call[t] \in Calls
  BY DEF TypeOK
<1> QED
  BY <1>1 DEF Calls, Idle

(* What the operations do to the counters. *)
LEMMA CountersMoved ==
  ASSUME TypeOK, NEW n \in Nodes, NEW m \in Nodes
  PROVE  /\ Bump(n, "hits")[m] = IF m = n THEN [stats[n] EXCEPT !.hits = @ + 1] ELSE stats[m]
         /\ Bump(n, "misses")[m] = IF m = n THEN [stats[n] EXCEPT !.misses = @ + 1] ELSE stats[m]
         /\ OnExpiry(n)[m] =
              IF m = n THEN [stats[n] EXCEPT !.expirations = @ + 1, !.misses = @ + 1] ELSE stats[m]
  BY DEF Bump, OnExpiry, TypeOK

LEMMA CountersValues ==
  ASSUME TypeOK, NEW n \in Nodes, NEW m \in Nodes
  PROVE  /\ Bump(n, "hits")[m].evictions = stats[m].evictions
         /\ Bump(n, "hits")[m].expirations = stats[m].expirations
         /\ Bump(n, "misses")[m].evictions = stats[m].evictions
         /\ OnExpiry(n)[m].evictions = stats[m].evictions
         /\ OnExpiry(n)[m].expirations =
              IF m = n THEN stats[m].expirations + 1 ELSE stats[m].expirations
<1>1. stats[m] \in Counters
  BY DEF TypeOK
<1>2. CASE m = n
  BY <1>1, <1>2, CountersMoved DEF Counters
<1>3. CASE m # n
  BY <1>3, CountersMoved
<1> QED
  BY <1>2, <1>3

(* The numbers EntriesAccounted adds up. *)
LEMMA NumberTypes ==
  ASSUME TypeOK, NEW m \in Nodes
  PROVE  /\ stats[m].evictions \in Nat /\ stats[m].expirations \in Nat
         /\ invalidated[m] \in Nat /\ added[m] \in Nat
         /\ store[m] \in Seq(Entry)
<1>1. stats[m] \in Counters /\ store[m] \in Seq(Entry)
  BY DEF TypeOK
<1> QED
  BY <1>1 DEF Counters, TypeOK

(* The accounts of a node stay balanced if what comes in equals what goes  *)
(* out.                                                                    *)
LEMMA Balanced ==
  ASSUME TypeOK, EntriesAccounted, NEW m \in Nodes,
         NEW dl \in Int, NEW de \in Int, NEW dx \in Int, NEW dv \in Int, NEW da \in Int,
         da = dl + de + dx + dv,
         Len(store'[m]) = Len(store[m]) + dl,
         stats'[m].evictions = stats[m].evictions + de,
         stats'[m].expirations = stats[m].expirations + dx,
         invalidated'[m] = invalidated[m] + dv,
         added'[m] = added[m] + da
  PROVE  added'[m] = Len(store'[m]) + stats'[m].evictions + stats'[m].expirations + invalidated'[m]
<1>1. PICK l \in Nat, e \in Nat, x \in Nat, v \in Nat :
        /\ l = Len(store[m]) /\ e = stats[m].evictions /\ x = stats[m].expirations
        /\ v = invalidated[m]
  <2>1. store[m] \in Seq(Entry)
    BY NumberTypes
  <2>2. Len(store[m]) \in Nat
    BY <2>1
  <2> QED
    BY <2>2, NumberTypes
<1>2. added[m] = l + e + x + v
  BY <1>1, Zenon DEF EntriesAccounted
<1>3. /\ Len(store'[m]) = l + dl /\ stats'[m].evictions = e + de
      /\ stats'[m].expirations = x + dx /\ invalidated'[m] = v + dv
  BY <1>1
<1>4. (l + e + x + v) + da = (l + dl) + (e + de) + (x + dx) + (v + dv)
  OBVIOUS
<1>5. added'[m] = (l + e + x + v) + da
  BY <1>2, Zenon
<1> QED
  BY <1>3, <1>4, <1>5, Zenon

LEMMA CountersType ==
  ASSUME TypeOK, NEW n \in Nodes
  PROVE  /\ Bump(n, "hits") \in [Nodes -> Counters]
         /\ Bump(n, "misses") \in [Nodes -> Counters]
         /\ OnExpiry(n) \in [Nodes -> Counters]
<1>1. \A c \in Counters : /\ [c EXCEPT !.hits = @ + 1] \in Counters
                          /\ [c EXCEPT !.misses = @ + 1] \in Counters
                          /\ [c EXCEPT !.expirations = @ + 1, !.misses = @ + 1] \in Counters
  <2> TAKE c \in Counters
  <2>1. c.hits + 1 \in Nat /\ c.misses + 1 \in Nat /\ c.expirations + 1 \in Nat
    BY DEF Counters
  <2>2. \A x, y \in Nat : /\ [c EXCEPT !.hits = x] \in Counters
                         /\ [c EXCEPT !.misses = x] \in Counters
                         /\ [c EXCEPT !.expirations = x, !.misses = y] \in Counters
    BY DEF Counters
  <2> QED
    BY <2>1, <2>2
<1>2. \A m \in Nodes : stats[m] \in Counters
  BY DEF TypeOK
<1>3. \A m \in Nodes : /\ Bump(n, "hits")[m] \in Counters
                       /\ Bump(n, "misses")[m] \in Counters
                       /\ OnExpiry(n)[m] \in Counters
  <2> TAKE m \in Nodes
  <2>1. CASE m = n
    BY <1>1, <1>2, <2>1, CountersMoved
  <2>2. CASE m # n
    BY <1>2, <2>2, CountersMoved
  <2> QED
    BY <2>1, <2>2
<1> QED
  BY <1>3 DEF Bump, OnExpiry, TypeOK

(* The list of a node, as OneCopyAtOwner and LruOrder see it. *)
LEMMA NodeList ==
  ASSUME TypeOK, OneCopyAtOwner, NEW n \in Nodes
  PROVE  /\ store[n] \in Seq(Entry) /\ Distinct(store[n])
         /\ \A i \in DOMAIN store[n] :
              store[n][i] \in Entry /\ store[n][i].key \in Keys /\ Owner[store[n][i].key] = n
<1>1. store[n] \in Seq(Entry)
  BY DEF TypeOK
<1>2. \A i \in DOMAIN store[n] : store[n][i] \in Entry
  BY <1>1, ElementOfSeq
<1>3. \A i \in DOMAIN store[n] : store[n][i].key \in Keys
  BY <1>2 DEF Entry
<1>4. Distinct(store[n]) /\ \A i \in DOMAIN store[n] : Owner[store[n][i].key] = n
  BY DEF OneCopyAtOwner, Distinct
<1> QED
  BY <1>1, <1>2, <1>3, <1>4

LEMMA OwnerType == \A k \in Keys : Owner[k] \in Nodes
  BY CacheAssumption

LEMMA ExcessValue == \A x \in Int : Max({0, x}) = IF x > 0 THEN x ELSE 0
  BY DEF Max

(* An entry that is there is the one EntryOf() finds. *)
LEMMA EntryFound ==
  ASSUME TypeOK, NEW k \in Keys, Has(k)
  PROVE  /\ Owner[k] \in Nodes
         /\ At(store[Owner[k]], k) \in DOMAIN store[Owner[k]]
         /\ EntryOf(k) = store[Owner[k]][At(store[Owner[k]], k)]
         /\ EntryOf(k) \in Entry /\ EntryOf(k).key = k
<1>1. Owner[k] \in Nodes /\ store[Owner[k]] \in Seq(Entry)
  BY OwnerType DEF TypeOK
<1>2. At(store[Owner[k]], k) \in DOMAIN store[Owner[k]]
      /\ store[Owner[k]][At(store[Owner[k]], k)].key = k
  BY <1>1, AtFinds DEF Has
<1> QED
  BY <1>1, <1>2 DEF EntryOf

(* A node loses the entry of k, by expiry or invalidation. *)
LEMMA Removal ==
  ASSUME TypeOK, OneCopyAtOwner, LruOrder, Dated, NEW k \in Keys, Has(k),
         store' = [store EXCEPT ![Owner[k]] = Without(@, k)], newer' = newer
  PROVE  /\ store' \in [Nodes -> Seq(Entry)]
         /\ OneCopyAtOwner' /\ LruOrder'
         /\ \A n \in Nodes : \A i \in DOMAIN store'[n] : DatedEntry(store'[n][i])
         /\ \A n \in Nodes : Len(store'[n]) = IF n = Owner[k] THEN Len(store[n]) - 1 ELSE Len(store[n])
<1>1. \A n \in Nodes : store'[n] = IF n = Owner[k] THEN Without(store[n], k) ELSE store[n]
  BY DEF TypeOK
<1>2. ASSUME NEW n \in Nodes
      PROVE  /\ store'[n] \in Seq(Entry) /\ PartOf(store'[n], store[n])
             /\ Len(store'[n]) = IF n = Owner[k] THEN Len(store[n]) - 1 ELSE Len(store[n])
  <2>1. store[n] \in Seq(Entry) /\ Distinct(store[n])
    BY NodeList
  <2>2. CASE n = Owner[k]
    BY <1>1, <2>1, <2>2, WithoutProperties DEF Has
  <2>3. CASE n # Owner[k]
    BY <1>1, <2>1, <2>3 DEF PartOf
  <2> QED
    BY <2>2, <2>3
<1>3. store' \in [Nodes -> Seq(Entry)]
  BY <1>2 DEF TypeOK
<1>4. ASSUME NEW n \in Nodes
      PROVE  /\ \A i \in DOMAIN store'[n] : Owner[store'[n][i].key] = n /\ DatedEntry(store'[n][i])
             /\ Distinct(store'[n]) /\ InOrder(store'[n], newer) /\ Len(store'[n]) <= Capacity
  <2>1. store[n] \in Seq(Entry) /\ Distinct(store[n]) /\ InOrder(store[n], newer)
        /\ Len(store[n]) <= Capacity
    BY NodeList DEF LruOrder, InOrder
  <2>2. Distinct(store'[n]) /\ InOrder(store'[n], newer)
    BY <1>2, <2>1, PartDistinct, PartInOrder
  <2>3. \A i \in DOMAIN store'[n] : Owner[store'[n][i].key] = n /\ DatedEntry(store'[n][i])
    BY <1>2 DEF PartOf, Dated, OneCopyAtOwner
  <2>4. Len(store'[n]) <= Capacity
    BY <1>2, <2>1, CacheAssumption
  <2> QED
    BY <2>2, <2>3, <2>4
<1>5. OneCopyAtOwner'
  BY <1>4 DEF OneCopyAtOwner, Distinct
<1>6. LruOrder'
  BY <1>4 DEF LruOrder, InOrder
<1> QED
  BY <1>2, <1>3, <1>4, <1>5, <1>6

(* A node stores or serves the entry e, and then drops the oldest ones of  *)
(* what is over capacity.                                                  *)
LEMMA Arrival ==
  ASSUME TypeOK, OneCopyAtOwner, LruOrder, Dated, NEW e \in Entry, DatedEntry(e),
         NEW excess \in Nat,
         excess = Max({0, Len(MoveToEnd(store[Owner[e.key]], e)) - Capacity}),
         store' = [store EXCEPT ![Owner[e.key]] =
                     SubSeq(MoveToEnd(@, e), excess + 1, Len(MoveToEnd(@, e)))],
         newer' = Used(e.key)
  PROVE  /\ store' \in [Nodes -> Seq(Entry)] /\ newer' \subseteq Keys \X Keys
         /\ OneCopyAtOwner' /\ LruOrder'
         /\ \A n \in Nodes : \A i \in DOMAIN store'[n] : DatedEntry(store'[n][i])
         /\ \A n \in Nodes : n # Owner[e.key] => store'[n] = store[n]
         /\ Len(store'[Owner[e.key]]) + excess =
              IF Has(e.key) THEN Len(store[Owner[e.key]]) ELSE Len(store[Owner[e.key]]) + 1
<1> DEFINE k == e.key
           n == Owner[k]
           list == MoveToEnd(store[n], e)
           left == SubSeq(list, excess + 1, Len(list))
<1>1. k \in Keys /\ n \in Nodes
  BY OwnerType DEF Entry
<1>2. /\ store[n] \in Seq(Entry) /\ Distinct(store[n])
      /\ \A i \in DOMAIN store[n] : store[n][i].key \in Keys /\ Owner[store[n][i].key] = n
      /\ InOrder(store[n], newer) /\ Len(store[n]) <= Capacity
  BY <1>1, NodeList DEF LruOrder, InOrder
<1>3. /\ list \in Seq(Entry) /\ Distinct(list) /\ InOrder(list, Used(k))
      /\ Len(list) = IF Has(k) THEN Len(store[n]) ELSE Len(store[n]) + 1
      /\ list[Len(list)] = e
      /\ \A i \in DOMAIN list : i # Len(list) => \E a \in DOMAIN store[n] : list[i] = store[n][a]
  <2>1. InOrder(list, Used(k))
    BY <1>2, MoveToEndInOrder
  <2>2. /\ list \in Seq(Entry) /\ Distinct(list)
        /\ Len(list) = IF k \in KeysOf(store[n]) THEN Len(store[n]) ELSE Len(store[n]) + 1
        /\ list[Len(list)] = e
        /\ \A i \in DOMAIN list : i # Len(list) => \E a \in DOMAIN store[n] : list[i] = store[n][a]
    <3> DEFINE old == store[n]
               w == MoveToEnd(old, e)
    <3>1. old \in Seq(Entry) /\ Distinct(old)
      BY <1>2
    <3> HIDE DEF old
    <3>2. /\ w \in Seq(Entry) /\ Distinct(w)
          /\ Len(w) = IF e.key \in KeysOf(old) THEN Len(old) ELSE Len(old) + 1
          /\ w[Len(w)] = e
          /\ \A i \in DOMAIN w : i # Len(w) =>
               w[i].key # e.key /\ \E a \in DOMAIN old : w[i] = old[a]
      BY <3>1, MoveToEndProperties
    <3> QED
      BY <3>2 DEF old
  <2> QED
    BY <2>1, <2>2 DEF Has
<1> HIDE DEF list
<1>4. /\ excess = (IF Len(list) - Capacity > 0 THEN Len(list) - Capacity ELSE 0)
      /\ excess \in 0..Len(list)
      /\ Len(list) - excess <= Capacity
  <2>1. Len(list) \in Nat /\ Capacity \in Nat /\ excess = Max({0, Len(list) - Capacity})
    BY <1>3, CacheAssumption DEF list
  <2>2. Max({0, Len(list) - Capacity}) = IF Len(list) - Capacity > 0 THEN Len(list) - Capacity ELSE 0
    BY <2>1, ExcessValue
  <2> QED
    BY <2>1, <2>2
<1>5. /\ left \in Seq(Entry) /\ Len(left) = Len(list) - excess
      /\ PartOf(left, list)
  BY <1>3, <1>4, SuffixProperties
<1>6. Distinct(left) /\ InOrder(left, Used(k)) /\ Len(left) <= Capacity
  BY <1>3, <1>4, <1>5, PartDistinct, PartInOrder
<1>7. \A i \in DOMAIN list : Owner[list[i].key] = n /\ DatedEntry(list[i])
  <2> TAKE i \in DOMAIN list
  <2>1. CASE i = Len(list)
    BY <1>3, <2>1
  <2>2. CASE i # Len(list)
    BY <1>1, <1>2, <1>3, <2>2 DEF Dated
  <2> QED
    BY <2>1, <2>2
<1>8. \A i \in DOMAIN left : Owner[left[i].key] = n /\ DatedEntry(left[i])
  BY <1>5, <1>7 DEF PartOf
<1>9. store'[n] = left /\ \A m \in Nodes : m # n => store'[m] = store[m]
  BY <1>1 DEF TypeOK, list
<1> HIDE DEF left
<1>10. store' \in [Nodes -> Seq(Entry)]
  BY <1>5, <1>9 DEF TypeOK
<1>11. newer' \subseteq Keys \X Keys
  BY <1>1 DEF TypeOK, Used, Rivals
<1>12. ASSUME NEW m \in Nodes
       PROVE  /\ \A i \in DOMAIN store'[m] : Owner[store'[m][i].key] = m /\ DatedEntry(store'[m][i])
              /\ Distinct(store'[m]) /\ InOrder(store'[m], newer') /\ Len(store'[m]) <= Capacity
  <2>1. CASE m = n
    BY <2>1, <1>6, <1>8, <1>9
  <2>2. CASE m # n
    <3>1. /\ store[m] \in Seq(Entry) /\ Distinct(store[m]) /\ InOrder(store[m], newer)
          /\ Len(store[m]) <= Capacity
          /\ \A i \in DOMAIN store[m] : Owner[store[m][i].key] = m
      BY NodeList DEF LruOrder, InOrder
    <3>2. \A i \in DOMAIN store[m] : store[m][i].key # k
      BY <3>1, <2>2
    <3>3. InOrder(store[m], Used(k))
      BY <1>1, <3>1, <3>2, UsedKeepsOrder
    <3>4. \A i \in DOMAIN store[m] : DatedEntry(store[m][i])
      BY DEF Dated
    <3> QED
      BY <1>9, <2>2, <3>1, <3>3, <3>4
  <2> QED
    BY <2>1, <2>2
<1>13. OneCopyAtOwner'
  BY <1>12 DEF OneCopyAtOwner, Distinct
<1>14. LruOrder'
  BY <1>12 DEF LruOrder, InOrder
<1>15. Len(store'[n]) + excess = IF Has(k) THEN Len(store[n]) ELSE Len(store[n]) + 1
  <2>1. Len(list) \in Nat /\ excess \in Nat /\ Len(left) = Len(list) - excess
    BY <1>3, <1>5
  <2>2. Len(left) + excess = Len(list)
    BY <2>1
  <2> QED
    BY <1>3, <1>9, <2>2
<1> QED
  BY <1>9, <1>10, <1>11, <1>12, <1>13, <1>14, <1>15

(* A hit is an arrival that pushes nothing out. *)
LEMMA HitArrival ==
  ASSUME TypeOK, OneCopyAtOwner, LruOrder, NEW k \in Keys, Has(k),
         store' = [store EXCEPT ![Owner[k]] = OnHit(@, k)]
  PROVE  LET e == EntryOf(k)
         IN  /\ 0 = Max({0, Len(MoveToEnd(store[Owner[e.key]], e)) - Capacity})
             /\ store' = [store EXCEPT ![Owner[e.key]] =
                            SubSeq(MoveToEnd(@, e), 0 + 1, Len(MoveToEnd(@, e)))]
<1> DEFINE e == EntryOf(k)
           n == Owner[k]
           list == MoveToEnd(store[n], e)
<1>1. /\ n \in Nodes /\ e \in Entry /\ e.key = k
      /\ e = store[n][At(store[n], k)]
  BY EntryFound
<1>2. store[n] \in Seq(Entry) /\ Distinct(store[n]) /\ Len(store[n]) <= Capacity
  BY <1>1, NodeList DEF LruOrder
<1> HIDE DEF e
<1>3. OnHit(store[n], k) = list
  BY <1>1 DEF OnHit
<1>4. list \in Seq(Entry) /\ Len(list) = Len(store[n])
  BY <1>1, <1>2, MoveToEndProperties DEF Has
<1> HIDE DEF list
<1>5. SubSeq(list, 0 + 1, Len(list)) = list
  BY <1>4, SubSeqFull
<1>6. Max({0, Len(list) - Capacity}) = 0
  <2>1. Capacity \in Nat
    BY CacheAssumption
  <2>2. Len(list) - Capacity \in Int /\ ~(Len(list) - Capacity > 0)
    BY <1>2, <1>4, <2>1
  <2> QED
    BY <2>2, ExcessValue
<1>7. store' = [store EXCEPT ![n] = SubSeq(list, 0 + 1, Len(list))]
  BY <1>3, <1>5
<1> QED
  BY <1>1, <1>6, <1>7 DEF list, e

LEMMA InitInvariant == Init => IInv
<1> SUFFICES ASSUME Init PROVE IInv
  OBVIOUS
<1>1. \A n \in Nodes : store[n] = <<>>
  BY DEF Init
<1>2. TypeOK
  <2>1. /\ store \in [Nodes -> Seq(Entry)] /\ call \in [Threads -> Calls]
        /\ stats \in [Nodes -> Counters]
    BY DEF Init, Counters, Calls
  <2>2. MaxClock \in Nat /\ MaxCalls \in Nat
    BY CacheAssumption
  <2> QED
    BY <2>1, <2>2 DEF Init, TypeOK
<1>3. OneCopyAtOwner /\ LruOrder
  BY <1>1, CacheAssumption DEF OneCopyAtOwner, LruOrder
<1>4. EntriesAccounted
  BY <1>1 DEF Init, EntriesAccounted
<1>5. Dated /\ ServedWithinTtl
  BY <1>1 DEF Init, Dated, ServedWithinTtl, Idle
<1> QED
  BY <1>2, <1>3, <1>4, <1>5 DEF IInv

(* One step per action; a step that does not touch the store has only its  *)
(* own variables to check.                                                 *)
LEMMA NextInvariant == IInv /\ [Next]_vars => IInv'
<1> SUFFICES ASSUME IInv, [Next]_vars PROVE IInv'
  OBVIOUS
<1> USE DEF IInv
<1>0. MaxClock \in Nat /\ MaxCalls \in Nat /\ Ttl \in [Keys -> Nat]
  BY CacheAssumption
<1>1. ASSUME UNCHANGED <<store, newer>> PROVE OneCopyAtOwner' /\ LruOrder'
  BY <1>1 DEF OneCopyAtOwner, LruOrder
<1>2. ASSUME UNCHANGED <<store, stats, added, invalidated>> PROVE EntriesAccounted'
  BY <1>2 DEF EntriesAccounted
<1>3. ASSUME \A n \in Nodes : \A i \in DOMAIN store'[n] : DatedEntry(store'[n][i]),
             \A t \in Threads : call'[t] = call[t] \/ call'[t].op # "set"
      PROVE  Dated'
  BY <1>3 DEF Dated, DatedEntry
<1>4. ASSUME UNCHANGED served PROVE ServedWithinTtl'
  BY <1>4 DEF ServedWithinTtl
<1>5. ASSUME NEW t \in Threads, NEW k \in Keys, GetReadsClock(t, k) PROVE IInv'
  <2>1. call' \in [Threads -> Calls]
    BY <1>5 DEF GetReadsClock, TypeOK, Calls
  <2>3. TypeOK'
    BY <1>0, <1>5, <2>1 DEF GetReadsClock, TypeOK
  <2>2. Dated'
    BY <1>5 DEF GetReadsClock, Dated, DatedEntry, TypeOK
  <2> QED
    BY <1>1, <1>2, <1>4, <1>5, <2>2, <2>3 DEF GetReadsClock
<1>6. ASSUME NEW t \in Threads, GetAbsent(t) PROVE IInv'
  <2> DEFINE n == Owner[call[t].key]
  <2>1. n \in Nodes
    BY <1>6, CallType, OwnerType DEF GetAbsent
  <2>2. \A m \in Nodes :
          stats'[m].evictions = stats[m].evictions /\ stats'[m].expirations = stats[m].expirations
    BY <1>6, <2>1 DEF GetAbsent, Bump, TypeOK
  <2>6. call' \in [Threads -> Calls]
    BY <1>6 DEF GetAbsent, TypeOK, Calls
  <2>7. stats' \in [Nodes -> Counters]
    BY <1>6, <2>1, CountersType DEF GetAbsent
  <2>3. TypeOK'
    BY <1>6, <2>6, <2>7 DEF GetAbsent, TypeOK
  <2>4. EntriesAccounted'
    BY <1>6, <2>2 DEF GetAbsent, EntriesAccounted
  <2>5. Dated'
    BY <1>6 DEF GetAbsent, Dated, DatedEntry, TypeOK, Idle
  <2> QED
    BY <1>1, <1>4, <1>6, <2>3, <2>4, <2>5 DEF GetAbsent
<1>7. ASSUME NEW t \in Threads, GetExpired(t) PROVE IInv'
  <2> DEFINE k == call[t].key
             n == Owner[k]
  <2>1. k \in Keys /\ n \in Nodes
    BY <1>7, CallType, OwnerType DEF GetExpired
  <2>2. /\ store' \in [Nodes -> Seq(Entry)]
        /\ OneCopyAtOwner' /\ LruOrder'
        /\ \A m \in Nodes : \A i \in DOMAIN store'[m] : DatedEntry(store'[m][i])
        /\ \A m \in Nodes : Len(store'[m]) = IF m = n THEN Len(store[m]) - 1 ELSE Len(store[m])
    BY <1>7, <2>1, Removal DEF GetExpired
  <2>3. call' \in [Threads -> Calls] /\ \A u \in Threads : call'[u] = call[u] \/ call'[u].op # "set"
    BY <1>7 DEF GetExpired, TypeOK, Calls, Idle
  <2>4. stats' = OnExpiry(n) /\ stats' \in [Nodes -> Counters]
    BY <1>7, <2>1, CountersType DEF GetExpired
  <2>5. TypeOK'
    BY <1>7, <2>2, <2>3, <2>4 DEF GetExpired, TypeOK
  <2>6. EntriesAccounted'
    <3> SUFFICES ASSUME NEW m \in Nodes
                 PROVE  added'[m] = Len(store'[m]) + stats'[m].evictions + stats'[m].expirations
                                      + invalidated'[m]
      BY DEF EntriesAccounted
    <3>1. /\ stats'[m].evictions = stats[m].evictions
          /\ stats'[m].expirations = IF m = n THEN stats[m].expirations + 1 ELSE stats[m].expirations
      BY <2>1, <2>4, CountersValues
    <3>2. added' = added /\ invalidated' = invalidated
      BY <1>7 DEF GetExpired
    <3>3. /\ stats[m].evictions \in Nat /\ stats[m].expirations \in Nat
          /\ invalidated[m] \in Nat /\ added[m] \in Nat /\ store[m] \in Seq(Entry)
      BY NumberTypes
    <3>4. CASE m = n
      <4>1. /\ Len(store'[m]) = Len(store[m]) + (-1)
            /\ stats'[m].evictions = stats[m].evictions + 0
            /\ stats'[m].expirations = stats[m].expirations + 1
            /\ invalidated'[m] = invalidated[m] + 0 /\ added'[m] = added[m] + 0
        BY <2>2, <3>1, <3>2, <3>3, <3>4
      <4>2. 0 = (-1) + 0 + 1 + 0 /\ -1 \in Int /\ 0 \in Int /\ 1 \in Int
        OBVIOUS
      <4> QED
        BY <4>1, <4>2, Balanced, Zenon
    <3>5. CASE m # n
      BY <2>2, <3>1, <3>2, <3>5 DEF EntriesAccounted
    <3> QED
      BY <3>4, <3>5
  <2> QED
    BY <1>3, <1>4, <1>7, <2>2, <2>3, <2>5, <2>6 DEF GetExpired
<1>8. ASSUME NEW t \in Threads, GetHit(t) PROVE IInv'
  <2> DEFINE k == call[t].key
             n == Owner[k]
             e == EntryOf(k)
  <2>1. k \in Keys /\ n \in Nodes /\ call[t].now \in 0..MaxClock
    BY <1>8, CallType, OwnerType DEF GetHit
  <2>2. Has(k) /\ ~ExpiredAt(k, call[t].now)
    BY <1>8 DEF GetHit
  <2>3. e \in Entry /\ e.key = k /\ DatedEntry(e)
    BY <2>1, <2>2, EntryFound DEF Dated
  <2>4. /\ store' \in [Nodes -> Seq(Entry)] /\ newer' \subseteq Keys \X Keys
        /\ OneCopyAtOwner' /\ LruOrder'
        /\ \A m \in Nodes : \A i \in DOMAIN store'[m] : DatedEntry(store'[m][i])
        /\ \A m \in Nodes : Len(store'[m]) = Len(store[m])
    <3>1. store' = [store EXCEPT ![n] = OnHit(@, k)] /\ newer' = Used(e.key)
      BY <1>8, <2>3 DEF GetHit
    <3> HIDE DEF k
    <3>2. /\ 0 = Max({0, Len(MoveToEnd(store[Owner[e.key]], e)) - Capacity})
          /\ store' = [store EXCEPT ![Owner[e.key]] =
                         SubSeq(MoveToEnd(@, e), 0 + 1, Len(MoveToEnd(@, e)))]
      BY <2>1, <2>2, <3>1, HitArrival
    <3> HIDE DEF e
    <3>3. /\ store' \in [Nodes -> Seq(Entry)] /\ newer' \subseteq Keys \X Keys
          /\ OneCopyAtOwner' /\ LruOrder'
          /\ \A m \in Nodes : \A i \in DOMAIN store'[m] : DatedEntry(store'[m][i])
          /\ \A m \in Nodes : m # Owner[e.key] => store'[m] = store[m]
          /\ Len(store'[Owner[e.key]]) + 0 =
               IF Has(e.key) THEN Len(store[Owner[e.key]]) ELSE Len(store[Owner[e.key]]) + 1
      BY <2>3, <3>1, <3>2, Arrival
    <3>4. Len(store'[n]) = Len(store[n])
      BY <2>1, <2>2, <2>3, <3>3
    <3> QED
      BY <2>3, <3>3, <3>4
  <2>5. call' \in [Threads -> Calls] /\ \A u \in Threads : call'[u] = call[u] \/ call'[u].op # "set"
    BY <1>8 DEF GetHit, TypeOK, Calls, Idle
  <2>6. stats' = Bump(n, "hits") /\ stats' \in [Nodes -> Counters]
    BY <1>8, <2>1, CountersType DEF GetHit
  <2>7. e.value \in Values /\ e.born \in 0..MaxClock /\ e.expiry \in Nat
    BY <2>3 DEF Entry
  <2>8. reply' \in [Threads -> Values \cup {"miss"}] /\ served' = [key |-> k, now |-> call[t].now, born |-> e.born]
    BY <1>8, <2>7 DEF GetHit, TypeOK
  <2>9. TypeOK'
    BY <1>8, <2>1, <2>4, <2>5, <2>6, <2>7, <2>8 DEF GetHit, TypeOK
  <2>10. EntriesAccounted'
    <3> SUFFICES ASSUME NEW m \in Nodes
                 PROVE  added'[m] = Len(store'[m]) + stats'[m].evictions + stats'[m].expirations
                                      + invalidated'[m]
      BY DEF EntriesAccounted
    <3>1. stats'[m].evictions = stats[m].evictions /\ stats'[m].expirations = stats[m].expirations
      BY <2>1, <2>6, CountersValues
    <3> QED
      BY <1>8, <2>4, <3>1 DEF GetHit, EntriesAccounted
  <2>11. ServedWithinTtl'
    <3>1. call[t].now < e.expiry
      BY <2>1, <2>2, <2>7 DEF ExpiredAt
    <3> QED
      BY <2>3, <2>8, <3>1 DEF ServedWithinTtl, DatedEntry
  <2> QED
    BY <1>3, <2>4, <2>5, <2>9, <2>10, <2>11
<1>9. ASSUME NEW t \in Threads, NEW k \in Keys, NEW v \in Values, SetReadsClock(t, k, v) PROVE IInv'
  <2> DEFINE e == [key |-> k, value |-> v, expiry |-> clock + Ttl[k], born |-> clock]
  <2>1. e \in Entry /\ DatedEntry(e)
    BY <1>0 DEF Entry, DatedEntry, TypeOK
  <2>2. call' = [call EXCEPT ![t] = [op |-> "set", entry |-> e]]
    BY <1>9 DEF SetReadsClock
  <2> HIDE DEF e
  <2>3. call' \in [Threads -> Calls]
    BY <2>1, <2>2 DEF TypeOK, Calls
  <2>4. TypeOK'
    BY <1>0, <1>9, <2>3 DEF SetReadsClock, TypeOK
  <2>5. Dated'
    BY <1>9, <2>1, <2>2 DEF SetReadsClock, Dated, DatedEntry, TypeOK
  <2> QED
    BY <1>1, <1>2, <1>4, <1>9, <2>4, <2>5 DEF SetReadsClock
<1>10. ASSUME NEW t \in Threads, SetStores(t) PROVE IInv'
  <2> DEFINE e == call[t].entry
             n == Owner[e.key]
             excess == Max({0, Len(OnSet(store[n], e)) - Capacity})
  <2>1. e \in Entry /\ DatedEntry(e) /\ n \in Nodes
    BY <1>10, CallType, OwnerType DEF SetStores, Dated, Entry
  <2>2. excess \in Nat
    <3>1. OnSet(store[n], e) \in Seq(Entry)
      BY <2>1, NodeList, MoveToEndProperties DEF OnSet
    <3>2. Len(OnSet(store[n], e)) - Capacity \in Int
      BY <3>1, CacheAssumption
    <3> QED
      BY <3>2, ExcessValue
  <2>3. /\ store' = [store EXCEPT ![n] = SubSeq(OnSet(store[n], e), excess + 1, Len(OnSet(store[n], e)))]
        /\ stats' = [stats EXCEPT ![n].evictions = @ + excess]
        /\ added' = [added EXCEPT ![n] = IF Has(e.key) THEN @ ELSE @ + 1]
        /\ newer' = Used(e.key)
    BY <1>10 DEF SetStores
  <2>4. excess = Max({0, Len(MoveToEnd(store[n], e)) - Capacity})
    BY DEF OnSet
  <2>5. store' = [store EXCEPT ![n] = SubSeq(MoveToEnd(@, e), excess + 1, Len(MoveToEnd(@, e)))]
    BY <2>3 DEF OnSet
  <2> HIDE DEF e, excess
  <2>6. /\ store' \in [Nodes -> Seq(Entry)] /\ newer' \subseteq Keys \X Keys
        /\ OneCopyAtOwner' /\ LruOrder'
        /\ \A m \in Nodes : \A i \in DOMAIN store'[m] : DatedEntry(store'[m][i])
        /\ \A m \in Nodes : m # n => store'[m] = store[m]
        /\ Len(store'[n]) + excess = IF Has(e.key) THEN Len(store[n]) ELSE Len(store[n]) + 1
    BY <2>1, <2>2, <2>3, <2>4, <2>5, Arrival
  <2>7. call' \in [Threads -> Calls] /\ \A u \in Threads : call'[u] = call[u] \/ call'[u].op # "set"
    BY <1>10 DEF SetStores, TypeOK, Calls, Idle
  <2>8. \A m \in Nodes : stats'[m] = IF m = n THEN [stats[n] EXCEPT !.evictions = @ + excess] ELSE stats[m]
    BY <2>1, <2>3 DEF TypeOK
  <2>9. \A m \in Nodes : stats[m] \in Counters
    BY DEF TypeOK
  <2>10. [stats[n] EXCEPT !.evictions = @ + excess] \in Counters
    BY <2>1, <2>2, <2>9 DEF Counters
  <2>11. stats' \in [Nodes -> Counters] /\ added' \in [Nodes -> Nat]
    <3>1. \A m \in Nodes : stats'[m] \in Counters
      BY <2>8, <2>9, <2>10
    <3>2. stats' \in [Nodes -> Counters]
      BY <2>3, <3>1 DEF TypeOK
    <3>3. added' \in [Nodes -> Nat]
      BY <2>1, <2>3 DEF TypeOK
    <3> QED
      BY <3>2, <3>3
  <2>12. TypeOK'
    BY <1>10, <2>6, <2>7, <2>11 DEF SetStores, TypeOK
  <2>13. EntriesAccounted'
    <3> SUFFICES ASSUME NEW m \in Nodes
                 PROVE  added'[m] = Len(store'[m]) + stats'[m].evictions + stats'[m].expirations
                                      + invalidated'[m]
      BY DEF EntriesAccounted
    <3>1. /\ stats[m].evictions \in Nat /\ stats[m].expirations \in Nat
          /\ invalidated[m] \in Nat /\ added[m] \in Nat /\ store[m] \in Seq(Entry)
      BY NumberTypes
    <3>2. invalidated' = invalidated /\ store'[m] \in Seq(Entry)
      BY <1>10, <2>6 DEF SetStores
    <3>3. CASE m # n
      <4>1. added'[m] = added[m] /\ store'[m] = store[m] /\ stats'[m] = stats[m]
        BY <2>3, <2>6, <2>8, <3>3 DEF TypeOK
      <4> QED
        BY <3>2, <4>1 DEF EntriesAccounted
    <3>4. CASE m = n
      <4> DEFINE new == IF Has(e.key) THEN 0 ELSE 1
      <4>1. /\ stats'[m].evictions = stats[m].evictions + excess
            /\ stats'[m].expirations = stats[m].expirations + 0
            /\ invalidated'[m] = invalidated[m] + 0
        BY <2>1, <2>8, <2>9, <3>1, <3>2, <3>4 DEF Counters
      <4>2. added'[m] = added[m] + new
        BY <2>1, <2>3, <3>1, <3>4 DEF TypeOK
      <4>3. Len(store'[m]) = Len(store[m]) + (new - excess)
        <5>1. CASE Has(e.key)
          BY <2>2, <2>6, <3>1, <3>2, <3>4, <5>1
        <5>2. CASE ~Has(e.key)
          BY <2>2, <2>6, <3>1, <3>2, <3>4, <5>2
        <5> QED
          BY <5>1, <5>2
      <4>4. new \in Int /\ new - excess \in Int /\ new = (new - excess) + excess + 0 + 0
        BY <2>2
      <4>5. excess \in Int /\ 0 \in Int
        BY <2>2
      <4> HIDE DEF new
      <4> QED
        BY <4>1, <4>2, <4>3, <4>4, <4>5, Balanced, Zenon
    <3> QED
      BY <3>3, <3>4
  <2> QED
    BY <1>3, <1>4, <1>10, <2>6, <2>7, <2>12, <2>13 DEF SetStores
<1>11. ASSUME NEW k \in Keys, Invalidate(k) PROVE IInv'
  <2>1. Owner[k] \in Nodes
    BY OwnerType
  <2>2. /\ store' \in [Nodes -> Seq(Entry)]
        /\ OneCopyAtOwner' /\ LruOrder'
        /\ \A m \in Nodes : \A i \in DOMAIN store'[m] : DatedEntry(store'[m][i])
        /\ \A m \in Nodes :
             Len(store'[m]) = IF m = Owner[k] THEN Len(store[m]) - 1 ELSE Len(store[m])
    BY <1>11, Removal DEF Invalidate
  <2>3. TypeOK'
    BY <1>11, <2>1, <2>2 DEF Invalidate, TypeOK
  <2>4. EntriesAccounted'
    <3> SUFFICES ASSUME NEW m \in Nodes
                 PROVE  added'[m] = Len(store'[m]) + stats'[m].evictions + stats'[m].expirations
                                      + invalidated'[m]
      BY DEF EntriesAccounted
    <3>1. /\ added' = added /\ stats' = stats
          /\ invalidated'[m] = IF m = Owner[k] THEN invalidated[m] + 1 ELSE invalidated[m]
      BY <1>11, <2>1 DEF Invalidate, TypeOK
    <3>2. /\ stats[m].evictions \in Nat /\ stats[m].expirations \in Nat
          /\ invalidated[m] \in Nat /\ added[m] \in Nat /\ store[m] \in Seq(Entry)
      BY NumberTypes
    <3>3. CASE m = Owner[k]
      <4>1. /\ Len(store'[m]) = Len(store[m]) + (-1)
            /\ stats'[m].evictions = stats[m].evictions + 0
            /\ stats'[m].expirations = stats[m].expirations + 0
            /\ invalidated'[m] = invalidated[m] + 1 /\ added'[m] = added[m] + 0
        BY <2>2, <3>1, <3>2, <3>3
      <4>2. 0 = (-1) + 0 + 0 + 1 /\ -1 \in Int /\ 0 \in Int /\ 1 \in Int
        OBVIOUS
      <4> QED
        BY <4>1, <4>2, Balanced, Zenon
    <3>4. CASE m # Owner[k]
      BY <2>2, <3>1, <3>4 DEF EntriesAccounted
    <3> QED
      BY <3>3, <3>4
  <2> QED
    BY <1>3, <1>4, <1>11, <2>2, <2>3, <2>4 DEF Invalidate
<1>12. CASE Tick
  <2>1. TypeOK'
    BY <1>0, <1>12 DEF Tick, TypeOK
  <2>2. Dated'
    BY <1>12 DEF Tick, Dated
  <2> QED
    BY <1>1, <1>2, <1>4, <1>12, <2>1, <2>2 DEF Tick
<1>13. CASE UNCHANGED vars
  BY <1>13 DEF vars, TypeOK, OneCopyAtOwner, LruOrder, EntriesAccounted, Dated, ServedWithinTtl
<1> QED
  BY <1>5, <1>6, <1>7, <1>8, <1>9, <1>10, <1>11, <1>12, <1>13 DEF Next

LEMMA Invariant == Spec => []IInv
<1> QED
  BY InitInvariant, NextInvariant, PTL DEF Spec

--------------------------------------------------------------------------------
(* The theorems.                                                           *)

(* Every variable of the cache keeps its type. *)
THEOREM TypeCorrect == Spec => []TypeOK
<1>1. IInv => TypeOK
  BY DEF IInv
<1> QED
  BY <1>1, Invariant, PTL

(* hits, misses, evictions and expirations of _stats, whichever thread     *)
(* counts, account for every entry that set() created.                     *)
THEOREM NothingUnaccounted == Spec => []EntriesAccounted
<1>1. IInv => EntriesAccounted
  BY DEF IInv
<1> QED
  BY <1>1, Invariant, PTL

(* A hit was stored less than its ttl before its get() began, although     *)
(* both get() and set() read the clock before they have the lock.          *)
THEOREM StaleNeverServed == Spec => []ServedWithinTtl
<1>1. IInv => ServedWithinTtl
  BY DEF IInv
<1> QED
  BY <1>1, Invariant, PTL

(* The while loop of set() pops the front of the list: that is always the  *)
(* least recently used entry, and no more are popped than are over         *)
(* capacity.                                                               *)
THEOREM LeastRecentEvicted == Spec => EvictsLeastRecent
<1> DEFINE Evicts ==
      \A n \in Nodes :
        stats'[n].evictions > stats[n].evictions =>
          /\ Len(store'[n]) = Capacity
          /\ \A k \in KeysOf(store[n]) \ KeysOf(store'[n]), l \in KeysOf(store'[n]) :
               <<l, k>> \in newer'
<1>1. IInv /\ [Next]_vars => [Evicts]_vars
  <2> SUFFICES ASSUME IInv, Next, NEW n \in Nodes, stats'[n].evictions > stats[n].evictions
               PROVE  /\ Len(store'[n]) = Capacity
                      /\ \A k \in KeysOf(store[n]) \ KeysOf(store'[n]), l \in KeysOf(store'[n]) :
                           <<l, k>> \in newer'
    OBVIOUS
  <2> USE DEF IInv
  <2>1. stats[n] \in Counters /\ stats'[n].evictions # stats[n].evictions
    <3>1. stats[n] \in Counters
      BY DEF TypeOK
    <3>2. stats[n].evictions \in Nat
      BY <3>1 DEF Counters
    <3> QED
      BY <3>1, <3>2
  <2>2. PICK t \in Threads : SetStores(t)
    <3>1. ASSUME NEW t \in Threads, GetAbsent(t) \/ GetExpired(t) \/ GetHit(t) PROVE FALSE
      <4>1. Owner[call[t].key] \in Nodes
        BY <3>1, CallType, OwnerType DEF GetAbsent, GetExpired, GetHit
      <4> QED
        BY <2>1, <3>1, <4>1, CountersValues DEF GetAbsent, GetExpired, GetHit
    <3>2. UNCHANGED stats => FALSE
      BY <2>1
    <3> QED
      BY <3>1, <3>2 DEF Next, GetReadsClock, SetReadsClock, Invalidate, Tick
  <2> DEFINE e == call[t].entry
             list == MoveToEnd(store[Owner[e.key]], e)
             excess == Max({0, Len(list) - Capacity})
  <2>3. e \in Entry /\ Owner[e.key] \in Nodes
    BY <2>2, CallType, OwnerType DEF SetStores, Entry
  <2>4. /\ store' = [store EXCEPT ![Owner[e.key]] = SubSeq(list, excess + 1, Len(list))]
        /\ stats' = [stats EXCEPT ![Owner[e.key]].evictions = @ + excess]
        /\ newer' = Used(e.key)
    BY <2>2 DEF SetStores, OnSet
  <2>5. /\ list \in Seq(Entry) /\ InOrder(list, Used(e.key))
        /\ KeysOf(store[Owner[e.key]]) \subseteq KeysOf(list)
    <3>1. /\ store[Owner[e.key]] \in Seq(Entry) /\ Distinct(store[Owner[e.key]])
          /\ InOrder(store[Owner[e.key]], newer)
          /\ \A i \in DOMAIN store[Owner[e.key]] :
               store[Owner[e.key]][i].key \in Keys /\ Owner[store[Owner[e.key]][i].key] = Owner[e.key]
      BY <2>3, NodeList DEF LruOrder, InOrder
    <3>2. InOrder(list, Used(e.key))
      BY <2>3, <3>1, MoveToEndInOrder
    <3> DEFINE old == store[Owner[e.key]]
    <3>3. old \in Seq(Entry) /\ Distinct(old)
      BY <3>1
    <3> HIDE DEF old
    <3>4. /\ MoveToEnd(old, e) \in Seq(Entry)
          /\ KeysOf(MoveToEnd(old, e)) = KeysOf(old) \cup {e.key}
      BY <2>3, <3>3, MoveToEndProperties
    <3> QED
      BY <3>2, <3>4 DEF old
  <2> HIDE DEF e, list
  <2>6. /\ excess = (IF Len(list) - Capacity > 0 THEN Len(list) - Capacity ELSE 0)
        /\ excess \in 0..Len(list) /\ Capacity \in Nat
    <3>1. Capacity \in Nat
      BY CacheAssumption
    <3>2. Len(list) - Capacity \in Int
      BY <2>5, <3>1
    <3> QED
      BY <2>5, <3>1, <3>2, ExcessValue
  <2> HIDE DEF excess
  <2>7. n = Owner[e.key] /\ excess > 0
    <3>1. CASE n # Owner[e.key]
      BY <2>1, <2>4, <3>1 DEF TypeOK
    <3>2. CASE n = Owner[e.key]
      <4>1. stats'[n].evictions = stats[n].evictions + excess
        BY <2>1, <2>4, <3>2 DEF TypeOK, Counters
      <4>2. stats[n].evictions \in Nat
        BY <2>1 DEF Counters
      <4> QED
        BY <2>1, <2>6, <3>2, <4>1, <4>2
    <3> QED
      BY <3>1, <3>2
  <2> DEFINE left == SubSeq(list, excess + 1, Len(list))
  <2>8. store'[n] = left
    BY <2>4, <2>7 DEF TypeOK
  <2>9. /\ left \in Seq(Entry) /\ Len(left) = Len(list) - excess
        /\ \A i \in DOMAIN left : left[i] = list[excess + i]
    BY <2>5, <2>6, SuffixProperties
  <2> HIDE DEF left
  <2>10. Len(left) = Capacity
    BY <2>5, <2>6, <2>7, <2>9
  <2>11. ASSUME NEW k \in KeysOf(store[n]) \ KeysOf(left), NEW l \in KeysOf(left)
         PROVE  <<l, k>> \in Used(e.key)
    <3>1. PICK i \in DOMAIN list : list[i].key = k
      <4>1. k \in KeysOf(list)
        BY <2>5, <2>7
      <4> QED
        BY <4>1 DEF KeysOf
    <3>2. PICK j \in DOMAIN left : left[j].key = l
      BY DEF KeysOf
    <3>3. i <= excess
      <4> SUFFICES ASSUME i > excess PROVE FALSE
        BY <2>5, <2>6
      <4>1. i - excess \in DOMAIN left /\ excess + (i - excess) = i
        BY <2>5, <2>6, <2>9
      <4>2. left[i - excess].key = k
        BY <2>9, <3>1, <4>1
      <4> QED
        BY <4>1, <4>2 DEF KeysOf
    <3>4. excess + j \in DOMAIN list /\ i < excess + j /\ list[excess + j].key = l
      BY <2>5, <2>6, <2>9, <3>2, <3>3
    <3> QED
      BY <2>5, <3>1, <3>4 DEF InOrder
  <2> QED
    BY <2>4, <2>8, <2>10, <2>11
<1> QED
  BY <1>1, Invariant, PTL DEF Spec, EvictsLeastRecent

--------------------------------------------------------------------------------
(* The cache implements LossyCache.                                        *)

(* What a removal and an arrival do to the entries the cache answers from. *)
LEMMA RemovalEntries ==
  ASSUME TypeOK, OneCopyAtOwner, NEW k \in Keys, Has(k),
         store' = [store EXCEPT ![Owner[k]] = Without(@, k)]
  PROVE  \A l \in Keys : /\ Has(l)' <=> Has(l) /\ l # k
                         /\ Has(l)' => EntryOf(l)' = EntryOf(l)
<1> SUFFICES ASSUME NEW l \in Keys
             PROVE  /\ Has(l)' <=> Has(l) /\ l # k
                    /\ Has(l)' => EntryOf(l)' = EntryOf(l)
  OBVIOUS
<1> DEFINE n == Owner[l]
           old == store[n]
           new == store'[n]
<1>1. n \in Nodes /\ old \in Seq(Entry) /\ Distinct(old)
  BY OwnerType, NodeList
<1>2. CASE n # Owner[k]
  <2>1. new = old /\ l # k
    BY <1>1, <1>2 DEF TypeOK
  <2> QED
    BY <2>1 DEF Has, EntryOf
<1>3. CASE n = Owner[k]
  <2>1. new = Without(old, k)
    BY <1>1, <1>3 DEF TypeOK
  <2> HIDE DEF old, new
  <2>2. /\ new \in Seq(Entry) /\ PartOf(new, old) /\ Distinct(new)
        /\ KeysOf(new) = KeysOf(old) \ {k}
    BY <1>1, <2>1, WithoutProperties, PartDistinct
  <2>3. ASSUME l \in KeysOf(new) PROVE new[At(new, l)] = old[At(old, l)]
    <3>1. At(new, l) \in DOMAIN new /\ new[At(new, l)].key = l
      BY <2>2, <2>3, AtFinds
    <3>2. PICK a \in DOMAIN old : new[At(new, l)] = old[a]
      BY <2>2, <3>1 DEF PartOf
    <3>3. At(old, l) = a
      BY <1>1, <3>1, <3>2, AtIsOnly
    <3> QED
      BY <3>2, <3>3
  <2> QED
    BY <2>2, <2>3 DEF Has, EntryOf, old, new
<1> QED
  BY <1>2, <1>3

LEMMA ArrivalEntries ==
  ASSUME TypeOK, OneCopyAtOwner, NEW e \in Entry, NEW excess \in Nat,
         excess <= Len(MoveToEnd(store[Owner[e.key]], e)),
         store' = [store EXCEPT ![Owner[e.key]] =
                     SubSeq(MoveToEnd(@, e), excess + 1, Len(MoveToEnd(@, e)))]
  PROVE  \A l \in Keys :
           /\ Has(l)' => l = e.key \/ Has(l)
           /\ Has(l)' => EntryOf(l)' = IF l = e.key THEN e ELSE EntryOf(l)
           /\ excess = 0 /\ (l = e.key \/ Has(l)) => Has(l)'
<1> SUFFICES ASSUME NEW l \in Keys
             PROVE  /\ Has(l)' => l = e.key \/ Has(l)
                    /\ Has(l)' => EntryOf(l)' = IF l = e.key THEN e ELSE EntryOf(l)
                    /\ excess = 0 /\ (l = e.key \/ Has(l)) => Has(l)'
  OBVIOUS
<1> DEFINE n == Owner[l]
           old == store[n]
           new == store'[n]
           list == MoveToEnd(old, e)
<1>1. n \in Nodes /\ old \in Seq(Entry) /\ Distinct(old)
  BY OwnerType, NodeList
<1>2. CASE n # Owner[e.key]
  <2>1. new = old /\ l # e.key
    BY <1>1, <1>2 DEF TypeOK
  <2>2. Has(l)' <=> Has(l)
    BY <2>1 DEF Has
  <2>3. EntryOf(l)' = EntryOf(l)
    BY <2>1 DEF EntryOf
  <2> QED
    BY <2>1, <2>2, <2>3
<1>3. CASE n = Owner[e.key]
  <2>1. new = SubSeq(list, excess + 1, Len(list)) /\ excess <= Len(list)
    BY <1>1, <1>3 DEF TypeOK
  <2> HIDE DEF old, new
  <2>2. /\ list \in Seq(Entry) /\ Distinct(list) /\ KeysOf(list) = KeysOf(old) \cup {e.key}
        /\ list[Len(list)] = e
        /\ Len(list) = IF e.key \in KeysOf(old) THEN Len(old) ELSE Len(old) + 1
        /\ \A i \in DOMAIN list : i # Len(list) =>
             list[i].key # e.key /\ \E a \in DOMAIN old : list[i] = old[a]
    BY <1>1, MoveToEndProperties
  <2> HIDE DEF list
  <2>3. excess \in 0..Len(list)
    BY <2>1, <2>2
  <2>4. new \in Seq(Entry) /\ PartOf(new, list) /\ Distinct(new) /\ KeysOf(new) \subseteq KeysOf(list)
    BY <2>1, <2>2, <2>3, SuffixProperties, PartDistinct, PartKeys
  <2>5. ASSUME excess = 0 PROVE KeysOf(new) = KeysOf(list)
    <3>1. excess + 1 = 1
      BY <2>5
    <3>2. new = SubSeq(list, 1, Len(list))
      BY <2>1, <3>1
    <3> QED
      BY <2>2, <3>2, SubSeqFull
  <2>6. ASSUME l \in KeysOf(new)
        PROVE  new[At(new, l)] = IF l = e.key THEN e ELSE old[At(old, l)]
    <3>1. At(new, l) \in DOMAIN new /\ new[At(new, l)].key = l
      BY <2>4, <2>6, AtFinds
    <3>2. PICK i \in DOMAIN list : new[At(new, l)] = list[i]
      BY <2>4, <3>1 DEF PartOf
    <3>3. CASE i = Len(list)
      BY <2>2, <3>1, <3>2, <3>3
    <3>4. CASE i # Len(list)
      <4>1. PICK a \in DOMAIN old : list[i] = old[a]
        BY <2>2, <3>4
      <4>2. At(old, l) = a /\ l # e.key
        BY <1>1, <2>2, <3>1, <3>2, <3>4, <4>1, AtIsOnly
      <4> QED
        BY <3>2, <4>1, <4>2
    <3> QED
      BY <3>3, <3>4
  <2> QED
    BY <2>2, <2>4, <2>5, <2>6 DEF Has, EntryOf, old, new
<1> QED
  BY <1>2, <1>3

(* The refinement mapping's held, without its union over the nodes. *)
LEMMA KeysHeld ==
  ASSUME NEW s \in [Nodes -> Seq(Entry)],
         \A n \in Nodes : \A i \in DOMAIN s[n] : Owner[s[n][i].key] = n
  PROVE  UNION {KeysOf(s[n]) : n \in Nodes} = {k \in Keys : k \in KeysOf(s[Owner[k]])}
<1>1. ASSUME NEW n \in Nodes, NEW k \in KeysOf(s[n]) PROVE k \in Keys /\ k \in KeysOf(s[Owner[k]])
  <2>1. PICK i \in DOMAIN s[n] : s[n][i].key = k
    BY DEF KeysOf
  <2>2. s[n][i] \in Entry
    BY ElementOfSeq
  <2> QED
    BY <2>1, <2>2 DEF Entry
<1>2. ASSUME NEW k \in Keys, k \in KeysOf(s[Owner[k]])
      PROVE  Owner[k] \in Nodes /\ k \in KeysOf(s[Owner[k]])
  BY <1>2, OwnerType
<1> QED
  BY <1>1, <1>2

LEMMA HeldIs ==
  ASSUME TypeOK, OneCopyAtOwner
  PROVE  Held = [k \in {l \in Keys : Has(l)} |-> EntryOf(k).value]
<1>1. UNION {KeysOf(store[n]) : n \in Nodes} = {k \in Keys : k \in KeysOf(store[Owner[k]])}
  BY KeysHeld DEF TypeOK, OneCopyAtOwner
<1> QED
  BY <1>1 DEF Held, Has

LEMMA HeldIsNext ==
  ASSUME TypeOK', OneCopyAtOwner'
  PROVE  Held' = [k \in {l \in Keys : Has(l)'} |-> EntryOf(k)'.value]
<1>1. UNION {KeysOf(store'[n]) : n \in Nodes} = {k \in Keys : k \in KeysOf(store'[Owner[k]])}
  BY KeysHeld DEF TypeOK, OneCopyAtOwner
<1> QED
  BY <1>1 DEF Held, Has

(* The initial state is the empty cache. *)
LEMMA InitRefines == Init => Lossy!Init
<1> SUFFICES ASSUME Init PROVE Lossy!Init
  OBVIOUS
<1>1. Held = <<>>
  <2>1. UNION {KeysOf(store[n]) : n \in Nodes} = {}
    BY DEF Init, KeysOf
  <2>2. Held = [k \in {} |-> EntryOf(k).value]
    BY <2>1, Zenon DEF Held
  <2> QED
    BY <2>2
<1>2. Putting = <<>>
  <2>1. {u \in Threads : call[u].op = "set"} = {}
    BY DEF Init, Idle
  <2> QED
    BY <2>1 DEF Putting
<1>3. Replies = <<>>
  <2>1. {u \in Threads : reply[u] # "miss"} = {}
    BY DEF Init
  <2> QED
    BY <2>1 DEF Replies
<1> QED
  BY <1>1, <1>2, <1>3 DEF Lossy!Init

(* What becomes of the mapped variables when a thread leaves its call.     *)
LEMMA HeldSame ==
  ASSUME store' = store
  PROVE  Held' = Held
BY DEF Held, EntryOf

LEMMA PuttingSame ==
  ASSUME NEW t \in Threads, \A u \in Threads \ {t} : call'[u] = call[u],
         call'[t].op # "set", call[t].op # "set"
  PROVE  Putting' = Putting
<1>1. {u \in Threads : call'[u].op = "set"} = {u \in Threads : call[u].op = "set"}
  OBVIOUS
<1>2. \A u \in {w \in Threads : call[w].op = "set"} : call'[u] = call[u]
  OBVIOUS
<1> QED
  BY <1>1, <1>2 DEF Putting

LEMMA RepliesMissed ==
  ASSUME TypeOK, NEW t \in Threads, reply' = [reply EXCEPT ![t] = "miss"]
  PROVE  Replies' = [u \in DOMAIN Replies \ {t} |-> Replies[u]]
<1>1. \A u \in Threads : reply'[u] = IF u = t THEN "miss" ELSE reply[u]
  BY DEF TypeOK
<1>2. {u \in Threads : reply'[u] # "miss"} = {u \in Threads : reply[u] # "miss"} \ {t}
  BY <1>1
<1> QED
  BY <1>1, <1>2 DEF Replies

LEMMA HeldLoses ==
  ASSUME IInv, IInv', NEW k \in Keys, Has(k), store' = [store EXCEPT ![Owner[k]] = Without(@, k)]
  PROVE  Held' = [l \in DOMAIN Held \ {k} |-> Held[l]]
<1>1. TypeOK /\ OneCopyAtOwner /\ TypeOK' /\ OneCopyAtOwner'
  BY DEF IInv
<1>2. \A l \in Keys : /\ Has(l)' <=> Has(l) /\ l # k
                      /\ Has(l)' => EntryOf(l)' = EntryOf(l)
  BY <1>1, RemovalEntries
<1>3. /\ Held = [l \in {m \in Keys : Has(m)} |-> EntryOf(l).value]
      /\ Held' = [l \in {m \in Keys : Has(m)'} |-> EntryOf(l)'.value]
  BY <1>1, HeldIs, HeldIsNext
<1>4. {m \in Keys : Has(m)'} = {m \in Keys : Has(m)} \ {k}
  BY <1>2
<1> HIDE DEF IInv, Held, Has, EntryOf
<1>5. DOMAIN Held = {m \in Keys : Has(m)}
  BY <1>3
<1>6. \A l \in {m \in Keys : Has(m)} \ {k} : EntryOf(l)' = EntryOf(l) /\ Held[l] = EntryOf(l).value
  BY <1>2, <1>3, <1>4
<1> QED
  BY <1>3, <1>4, <1>5, <1>6

(* Every step of the nodes is a step of the lossy cache, or leaves it as   *)
(* it was.                                                                 *)
LEMMA NextRefines == IInv /\ IInv' /\ [Next]_vars => [Lossy!Next]_(Lossy!vars)
<1> SUFFICES ASSUME IInv, IInv', [Next]_vars PROVE [Lossy!Next]_(Lossy!vars)
  OBVIOUS
<1>0. TypeOK /\ OneCopyAtOwner /\ TypeOK' /\ OneCopyAtOwner'
  BY DEF IInv
<1>1. ASSUME NEW t \in Threads, NEW k \in Keys, GetReadsClock(t, k) PROVE UNCHANGED Lossy!vars
  <2>1. Held' = Held /\ Replies' = Replies
    BY <1>1, HeldSame DEF GetReadsClock, Replies
  <2>2. Putting' = Putting
    BY <1>0, <1>1, PuttingSame DEF GetReadsClock, TypeOK, Idle
  <2> QED
    BY <2>1, <2>2 DEF Lossy!vars
<1>2. ASSUME NEW t \in Threads, GetAbsent(t) PROVE Lossy!Next
  <2> DEFINE k == call[t].key
  <2>1. k \in Keys
    BY <1>0, <1>2, CallType DEF GetAbsent
  <2>2. Held' = Held
    BY <1>2, HeldSame DEF GetAbsent
  <2>3. k \notin DOMAIN Held
    BY <1>0, <1>2, HeldIs DEF GetAbsent
  <2>4. Held' = [l \in DOMAIN Held \ {k} |-> Held[l]]
    <3>1. DOMAIN Held \ {k} = DOMAIN Held
      BY <2>3
    <3>2. Held = [l \in DOMAIN Held |-> Held[l]]
      BY DEF Held
    <3> QED
      BY <2>2, <3>1, <3>2, Zenon
  <2>5. Putting' = Putting
    BY <1>0, <1>2, PuttingSame DEF GetAbsent, TypeOK, Idle
  <2>6. Replies' = [u \in DOMAIN Replies \ {t} |-> Replies[u]]
    BY <1>0, <1>2, RepliesMissed DEF GetAbsent
  <2> HIDE DEF k
  <2>7. Lossy!Miss(t, k)
    BY <2>4, <2>5, <2>6 DEF Lossy!Miss, Lossy!Restrict
  <2> QED
    BY <2>1, <2>7 DEF Lossy!Next
<1>3. ASSUME NEW t \in Threads, GetExpired(t) PROVE Lossy!Next
  <2> DEFINE k == call[t].key
  <2>1. k \in Keys
    BY <1>0, <1>3, CallType DEF GetExpired
  <2>2. Has(k) /\ store' = [store EXCEPT ![Owner[k]] = Without(@, k)]
    BY <1>3 DEF GetExpired
  <2>5. Putting' = Putting
    BY <1>0, <1>3, PuttingSame DEF GetExpired, TypeOK, Idle
  <2>6. Replies' = [u \in DOMAIN Replies \ {t} |-> Replies[u]]
    BY <1>0, <1>3, RepliesMissed DEF GetExpired
  <2> HIDE DEF k
  <2>4. Held' = [l \in DOMAIN Held \ {k} |-> Held[l]]
    BY <2>1, <2>2, HeldLoses
  <2>7. Lossy!Miss(t, k)
    BY <2>4, <2>5, <2>6 DEF Lossy!Miss, Lossy!Restrict
  <2> QED
    BY <2>1, <2>7 DEF Lossy!Next

<1>4. ASSUME NEW t \in Threads, GetHit(t) PROVE Lossy!Next
  <2> DEFINE k == call[t].key
             e == EntryOf(k)
  <2>1. k \in Keys /\ Has(k) /\ ~ExpiredAt(k, call[t].now)
    BY <1>0, <1>4, CallType DEF GetHit
  <2>2. e \in Entry /\ e.key = k /\ e.value \in Values
    BY <1>0, <2>1, EntryFound DEF Entry
  <2>3. store' = [store EXCEPT ![Owner[k]] = OnHit(@, k)]
    BY <1>4 DEF GetHit
  <2>4. reply' = [reply EXCEPT ![t] = e.value]
    BY <1>4 DEF GetHit
  <2>5. Putting' = Putting
    BY <1>0, <1>4, PuttingSame DEF GetHit, TypeOK, Idle
  <2> HIDE DEF k
  <2>6. /\ 0 = Max({0, Len(MoveToEnd(store[Owner[e.key]], e)) - Capacity})
        /\ store' = [store EXCEPT ![Owner[e.key]] =
                       SubSeq(MoveToEnd(@, e), 0 + 1, Len(MoveToEnd(@, e)))]
    BY <2>1, <2>3, HitArrival DEF IInv
  <2>7. 0 \in Nat /\ 0 <= Len(MoveToEnd(store[Owner[e.key]], e))
    <3>1. Owner[e.key] \in Nodes
      BY <2>1, <2>2, OwnerType
    <3>2. MoveToEnd(store[Owner[e.key]], e) \in Seq(Entry)
      BY <1>0, <2>2, <3>1, NodeList, MoveToEndProperties
    <3> QED
      BY <3>2
  <2>8. \A l \in Keys :
          /\ Has(l)' => l = e.key \/ Has(l)
          /\ Has(l)' => EntryOf(l)' = IF l = e.key THEN e ELSE EntryOf(l)
          /\ l = e.key \/ Has(l) => Has(l)'
    <3> HIDE DEF e
    <3> QED
      BY <1>0, <2>2, <2>6, <2>7, ArrivalEntries
  <2>9. \A l \in Keys : (Has(l)' <=> Has(l)) /\ (Has(l)' => EntryOf(l)' = EntryOf(l))
    BY <2>1, <2>2, <2>8
  <2>10. Held' = Held /\ k \in DOMAIN Held /\ Held[k] = e.value
    <3>1. /\ Held = [l \in {m \in Keys : Has(m)} |-> EntryOf(l).value]
          /\ Held' = [l \in {m \in Keys : Has(m)'} |-> EntryOf(l)'.value]
      BY <1>0, HeldIs, HeldIsNext
    <3>2. {m \in Keys : Has(m)'} = {m \in Keys : Has(m)}
      BY <2>9
    <3>3. \A l \in {m \in Keys : Has(m)} : EntryOf(l)' = EntryOf(l)
      BY <2>9
    <3>4. k \in {m \in Keys : Has(m)}
      BY <2>1
    <3> HIDE DEF Held, Has, EntryOf
    <3> QED
      BY <3>1, <3>2, <3>3, <3>4
  <2>11. Replies' = [u \in DOMAIN Replies \cup {t} |-> IF u = t THEN Held[k] ELSE Replies[u]]
    <3>1. e.value # "miss"
      BY <2>2, CacheAssumption
    <3>2. \A u \in Threads : reply'[u] = IF u = t THEN e.value ELSE reply[u]
      BY <1>0, <2>4 DEF TypeOK
    <3>3. {u \in Threads : reply'[u] # "miss"} = {u \in Threads : reply[u] # "miss"} \cup {t}
      BY <3>1, <3>2
    <3> HIDE DEF e
    <3>4. /\ DOMAIN Replies = {u \in Threads : reply[u] # "miss"}
          /\ \A u \in {w \in Threads : reply[w] # "miss"} : Replies[u] = reply[u]
      BY DEF Replies
    <3>5. \A u \in {w \in Threads : reply[w] # "miss"} \cup {t} :
            reply'[u] = IF u = t THEN Held[k] ELSE Replies[u]
      BY <2>10, <3>2, <3>4
    <3>6. Replies' = [u \in {w \in Threads : reply'[w] # "miss"} |-> reply'[u]]
      BY DEF Replies
    <3> HIDE DEF Replies
    <3> QED
      BY <3>3, <3>4, <3>5, <3>6
  <2>12. Lossy!Hit(t, k)
    BY <2>5, <2>10, <2>11 DEF Lossy!Hit
  <2> QED
    BY <2>1, <2>12 DEF Lossy!Next
<1>5. ASSUME NEW t \in Threads, NEW k \in Keys, NEW v \in Values, SetReadsClock(t, k, v)
      PROVE  Lossy!Next
  <2>1. Held' = Held /\ Replies' = Replies
    BY <1>5, HeldSame DEF SetReadsClock, Replies
  <2> DEFINE e == [key |-> k, value |-> v, expiry |-> clock + Ttl[k], born |-> clock]
             P == {u \in Threads : call[u].op = "set"}
  <2>2. /\ \A u \in Threads : call'[u] = IF u = t THEN [op |-> "set", entry |-> e] ELSE call[u]
        /\ call[t].op # "set"
    BY <1>0, <1>5 DEF SetReadsClock, TypeOK, Idle
  <2>3. e.key = k /\ e.value = v
    OBVIOUS
  <2> HIDE DEF e
  <2>4. {u \in Threads : call'[u].op = "set"} = P \cup {t} /\ t \notin P
    BY <2>2
  <2>5. /\ DOMAIN Putting = P
        /\ \A u \in P : Putting[u] = [key |-> call[u].entry.key, value |-> call[u].entry.value]
    BY DEF Putting
  <2>6. Putting' = [u \in {w \in Threads : call'[w].op = "set"} |->
                      [key |-> call'[u].entry.key, value |-> call'[u].entry.value]]
    BY DEF Putting
  <2>7. \A u \in P \cup {t} :
          [key |-> call'[u].entry.key, value |-> call'[u].entry.value]
            = IF u = t THEN [key |-> k, value |-> v] ELSE Putting[u]
    BY <2>2, <2>3, <2>4, <2>5
  <2> HIDE DEF P, Putting
  <2>8. Putting' = [u \in DOMAIN Putting \cup {t} |->
                      IF u = t THEN [key |-> k, value |-> v] ELSE Putting[u]]
    BY <2>4, <2>5, <2>6, <2>7
  <2>9. Lossy!BeginPut(t, k, v)
    BY <2>1, <2>4, <2>5, <2>8 DEF Lossy!BeginPut
  <2> QED
    BY <2>9 DEF Lossy!Next
<1>6. ASSUME NEW t \in Threads, SetStores(t) PROVE Lossy!Next
  <2> DEFINE e == call[t].entry
             n == Owner[e.key]
             excess == Max({0, Len(OnSet(store[n], e)) - Capacity})
             P == {u \in Threads : call[u].op = "set"}
  <2>1. e \in Entry /\ n \in Nodes /\ e.key \in Keys
    BY <1>0, <1>6, CallType, OwnerType DEF SetStores, Entry
  <2>2. /\ store' = [store EXCEPT ![n] = SubSeq(OnSet(store[n], e), excess + 1, Len(OnSet(store[n], e)))]
        /\ call' = [call EXCEPT ![t] = Idle] /\ call[t].op = "set" /\ reply' = reply
    BY <1>6 DEF SetStores
  <2>3. excess \in Nat /\ excess <= Len(OnSet(store[n], e))
    <3>1. OnSet(store[n], e) \in Seq(Entry)
      BY <1>0, <2>1, NodeList, MoveToEndProperties DEF OnSet
    <3>2. Len(OnSet(store[n], e)) - Capacity \in Int /\ Len(OnSet(store[n], e)) \in Nat /\ Capacity \in Nat
      BY <3>1, CacheAssumption
    <3>3. excess = IF Len(OnSet(store[n], e)) - Capacity > 0 THEN Len(OnSet(store[n], e)) - Capacity ELSE 0
      BY <3>2, ExcessValue
    <3> QED
      BY <3>2, <3>3
  <2>4. store' = [store EXCEPT ![n] = SubSeq(MoveToEnd(@, e), excess + 1, Len(MoveToEnd(@, e)))]
    BY <2>2 DEF OnSet
  <2>5. excess <= Len(MoveToEnd(store[n], e))
    BY <2>3 DEF OnSet
  <2> HIDE DEF e, excess
  <2>6. \A l \in Keys :
          /\ Has(l)' => l = e.key \/ Has(l)
          /\ Has(l)' => EntryOf(l)' = IF l = e.key THEN e ELSE EntryOf(l)
    BY <1>0, <2>1, <2>3, <2>4, <2>5, ArrivalEntries
  <2>7. /\ DOMAIN Putting = P /\ t \in P
        /\ Putting[t] = [key |-> e.key, value |-> e.value]
    BY <2>2 DEF Putting, e
  <2>8. Putting' = [u \in DOMAIN Putting \ {t} |-> Putting[u]]
    <3>1. \A u \in Threads : call'[u] = IF u = t THEN Idle ELSE call[u]
      BY <1>0, <2>2 DEF TypeOK
    <3>2. {u \in Threads : call'[u].op = "set"} = P \ {t}
      BY <3>1 DEF Idle
    <3> QED
      BY <3>1, <3>2 DEF Putting
  <2>9. PICK kept \in SUBSET (DOMAIN Held \cup {e.key}) :
          Held' = [l \in kept |-> IF l = e.key THEN e.value ELSE Held[l]]
    <3> DEFINE kept == {m \in Keys : Has(m)'}
    <3>1. /\ Held = [l \in {m \in Keys : Has(m)} |-> EntryOf(l).value]
          /\ Held' = [l \in kept |-> EntryOf(l)'.value]
      BY <1>0, HeldIs, HeldIsNext
    <3>2. kept \subseteq {m \in Keys : Has(m)} \cup {e.key}
      BY <2>6
    <3>3. \A l \in kept : EntryOf(l)' = IF l = e.key THEN e ELSE EntryOf(l)
      BY <2>6
    <3> HIDE DEF kept, Held, Has, EntryOf
    <3>4. \A l \in kept : EntryOf(l)'.value = IF l = e.key THEN e.value ELSE Held[l]
      BY <3>1, <3>2, <3>3
    <3>5. Held' = [l \in kept |-> IF l = e.key THEN e.value ELSE Held[l]]
      BY <3>1, <3>4
    <3> QED
      BY <3>1, <3>2, <3>5
  <2>10. Replies' = Replies
    BY <2>2 DEF Replies
  <2>11. Putting[t].key = e.key /\ Putting[t].value = e.value
    BY <2>7
  <2> HIDE DEF P, Held, Putting, Replies
  <2>12. Lossy!Put(t)
    BY <2>7, <2>8, <2>9, <2>10, <2>11 DEF Lossy!Put, Lossy!Restrict
  <2> QED
    BY <2>12 DEF Lossy!Next
<1>7. ASSUME NEW k \in Keys, Invalidate(k) PROVE Lossy!Next
  <2>1. Held' = [l \in DOMAIN Held \ {k} |-> Held[l]]
    BY <1>7, HeldLoses DEF Invalidate
  <2>2. Putting' = Putting /\ Replies' = Replies
    BY <1>7 DEF Invalidate, Putting, Replies
  <2>3. Lossy!Invalidate(k)
    BY <2>1, <2>2 DEF Lossy!Invalidate, Lossy!Restrict
  <2> QED
    BY <2>3 DEF Lossy!Next
<1>8. CASE Tick \/ UNCHANGED vars
  <2>1. store' = store /\ call' = call /\ reply' = reply
    BY <1>8 DEF Tick, vars
  <2> QED
    BY <2>1, HeldSame DEF Lossy!vars, Putting, Replies
<1> QED
  BY <1>1, <1>2, <1>3, <1>4, <1>5, <1>6, <1>7, <1>8 DEF Next

(* The ring of LRU nodes, with expiry and invalidation, implements the     *)
(* lossy cache the service relies on: a get() returns what the last set()  *)
(* of its key stored or nothing, and what is gone does not come back.      *)
THEOREM ImplementsLossyCache == Spec => LossySpec
<1>1. Lossy!Init /\ [][Lossy!Next]_(Lossy!vars) => LossySpec
  BY DEF LossySpec, Lossy!Spec
<1> QED
  BY <1>1, Invariant, InitRefines, NextRefines, PTL DEF Spec

--------------------------------------------------------------------------------
(* The cache on its ring.                                                  *)

(* Where the ring says a key belongs is where its entry is, and that would *)
(* not change if a node without the key went, or one that does not take it *)
(* came.                                                                   *)
THEOREM ScalingKeepsEntries ==
  ASSUME Owner = NodeFor
  PROVE  Spec => []EntriesSurviveScaling
<1>1. IInv => EntriesSurviveScaling
  <2> SUFFICES ASSUME IInv, NEW m \in Nodes, NEW k \in KeysOf(store[m])
               PROVE  /\ NodeFor[k] = m
                      /\ \A n \in Nodes \ {m} : <<n, k>> \notin MovedByRemoval
                      /\ \A n \in NodeNames \ Nodes : <<n, k>> \notin MovedByAddition
    BY DEF EntriesSurviveScaling
  <2>1. k \in Keys /\ NodeFor[k] = m
    <3>1. PICK i \in DOMAIN store[m] : store[m][i].key = k
      BY DEF KeysOf
    <3>2. Owner[k] = m
      BY <3>1 DEF IInv, OneCopyAtOwner
    <3>3. store[m] \in Seq(Entry)
      BY DEF IInv, TypeOK
    <3>4. store[m][i] \in Entry
      BY <3>1, <3>3, ElementOfSeq
    <3>5. QED
      BY <3>1, <3>2, <3>4 DEF Entry
  <2>2. /\ Nodes \in SUBSET NodeNames /\ HashOf[k] \in HashSpace
        /\ GetNode(RingOf(Nodes), HashOf[k]) = m
    BY <2>1, CacheOnRingAssumption DEF NodeFor, Ring
  <2>3. ASSUME NEW n \in Nodes \ {m}
        PROVE  GetNode(RemoveNode(Ring, n), HashOf[k]) = NodeFor[k]
    <3>1. n \in NodeNames /\ n # m
      BY <2>2
    <3>2. QED
      BY <2>1, <2>2, <3>1, RemovalIsLocal DEF RemovalMovesOnlyItsKeys, Ring
  <2>4. ASSUME NEW n \in NodeNames \ Nodes
        PROVE  GetNode(AddNode(Ring, n), HashOf[k]) \in {n, NodeFor[k]}
    BY <2>1, <2>2, AdditionIsLocal DEF AdditionMovesOnlyToIt, Ring
  <2>5. QED
    BY <2>1, <2>3, <2>4, Zenon DEF MovedByRemoval, MovedByAddition
<1>2. QED
  BY <1>1, Invariant, PTL
================================================================================
