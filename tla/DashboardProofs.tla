---------------------------- MODULE DashboardProofs ----------------------------
(***************************************************************************)
(* Theorems about what the panel is told: the sums over the nodes, the     *)
(* order in which stats() reads, and the percentiles of the window, for    *)
(* every number of threads, nodes and polls and every length of the        *)
(* window.                                                                 *)
(***************************************************************************)
EXTENDS Dashboard, Percentile, FiniteSetTheorems, SequenceTheorems,
        WellFoundedInduction, TLAPS

--------------------------------------------------------------------------------
(* Induction over the subsets of a finite set, one element less at a time. *)

Some(s) == CHOOSE x \in s : TRUE
Less == {ss \in Nat \X Nat : ss[1] < ss[2]}

LEMMA LeastNat ==
  ASSUME NEW S \in SUBSET Nat, S # {}
  PROVE  \E m \in S : \A k \in S : m <= k
<1>1. IsWellFoundedOn(Less, Nat)
  BY NatLessThanWellFounded DEF OpToRel, Less
<1>2. PICK m \in S : \A k \in S : <<k, m>> \notin Less
  BY <1>1, WFMin
<1>3. \A k \in S : ~(k < m)
  BY <1>2 DEF Less
<1> QED
  BY <1>3

LEMMA SomeElement ==
  ASSUME NEW s, s # {}
  PROVE  Some(s) \in s
BY DEF Some

LEMMA OneLess ==
  ASSUME NEW s, IsFiniteSet(s), s # {}
  PROVE  /\ IsFiniteSet(s \ {Some(s)})
         /\ Cardinality(s) \in Nat \ {0} /\ Cardinality(s \ {Some(s)}) = Cardinality(s) - 1
BY SomeElement, FS_RemoveElement, FS_CardinalityType, FS_EmptySet

LEMMA SubsetInduction ==
  ASSUME NEW N, IsFiniteSet(N), NEW S, {} \in S,
         \A s \in SUBSET N : s # {} /\ s \ {Some(s)} \in S => s \in S
  PROVE  SUBSET N \subseteq S
<1> SUFFICES ASSUME NEW r \in (SUBSET N) \ S PROVE FALSE
  OBVIOUS
<1> DEFINE Left == (SUBSET N) \ S
           Sizes == {c \in Nat : \E s \in Left : c = Cardinality(s)}
<1>1. \A s \in SUBSET N : IsFiniteSet(s) /\ Cardinality(s) \in Nat
  BY FS_Subset, FS_CardinalityType
<1>2. PICK m \in Sizes : \A k \in Sizes : m <= k
  <2>1. Sizes \in SUBSET Nat /\ Sizes # {}
    BY <1>1
  <2> HIDE DEF Sizes
  <2> QED
    BY <2>1, LeastNat
<1>3. PICK s \in Left : m = Cardinality(s)
  BY <1>2
<1>4. s # {} /\ s \ {Some(s)} \in Left
  OBVIOUS
<1>5. Cardinality(s) \in Nat /\ Cardinality(s \ {Some(s)}) = Cardinality(s) - 1
  BY <1>1, <1>3, <1>4, OneLess
<1>6. Cardinality(s \ {Some(s)}) \in Sizes
  BY <1>1, <1>4
<1>7. m \in Nat
  BY <1>2
<1> HIDE DEF Sizes, Left
<1> QED
  BY <1>2, <1>3, <1>5, <1>6, <1>7

--------------------------------------------------------------------------------
(* Sums over the nodes.  The library's fold is a recursive function over   *)
(* the subsets; that there is one is proved here.                          *)

SumStep(f, iter, s) == IF s = {} THEN 0 ELSE f[Some(s)] + iter[s \ {Some(s)}]
Sums(f, N) == CHOOSE iter : iter = [s \in SUBSET N |-> SumStep(f, iter, s)]
Total(f, N) == Sums(f, N)[N]
Summing(f, N, iter) ==
  iter \in [SUBSET N -> Nat] /\ \A s \in SUBSET N : iter[s] = SumStep(f, iter, s)

LEMMA SumsExist ==
  ASSUME NEW N, IsFiniteSet(N), NEW f \in [N -> Nat]
  PROVE  \E iter : Summing(f, N, iter)
<1> DEFINE UpTo(k) == {s \in SUBSET N : Cardinality(s) <= k}
           Good(g, k) == /\ g \in [UpTo(k) -> Nat]
                         /\ \A s \in UpTo(k) : g[s] = SumStep(f, g, s)
           Reached == {k \in Nat : \E g : Good(g, k)}
<1>1. \A s \in SUBSET N : IsFiniteSet(s) /\ Cardinality(s) \in Nat
  BY FS_Subset, FS_CardinalityType
<1>2. 0 \in Reached
  <2>1. \A s \in UpTo(0) : s = {}
    BY <1>1, FS_EmptySet
  <2>2. Good([s \in UpTo(0) |-> 0], 0)
    BY <2>1 DEF SumStep
  <2> QED
    BY <2>2
<1>3. ASSUME NEW k \in Reached PROVE k + 1 \in Reached
  <2>1. PICK g : Good(g, k)
    OBVIOUS
  <2> DEFINE h == [s \in UpTo(k + 1) |-> SumStep(f, g, s)]
  <2>2. ASSUME NEW s \in UpTo(k + 1), s # {}
        PROVE  Some(s) \in N /\ s \ {Some(s)} \in UpTo(k)
    <3>1. Some(s) \in s
      BY <2>2, SomeElement
    <3>2. Cardinality(s) \in Nat /\ Cardinality(s \ {Some(s)}) = Cardinality(s) - 1
      BY <1>1, <2>2, OneLess
    <3> QED
      BY <3>1, <3>2
  <2>3. \A s \in UpTo(k) : s \in UpTo(k + 1)
    BY <1>1
  <2>4. \A s \in UpTo(k) : h[s] = g[s]
    BY <2>1, <2>3
  <2>5. \A s \in UpTo(k + 1) : h[s] \in Nat
    BY <2>1, <2>2 DEF SumStep
  <2>6. \A s \in UpTo(k + 1) : SumStep(f, h, s) = SumStep(f, g, s)
    <3> TAKE s \in UpTo(k + 1)
    <3>1. s # {} => h[s \ {Some(s)}] = g[s \ {Some(s)}]
      BY <2>2, <2>4
    <3> QED
      BY <3>1 DEF SumStep
  <2>7. Good(h, k + 1)
    BY <2>5, <2>6
  <2> HIDE DEF Good, h
  <2>8. k + 1 \in Nat
    OBVIOUS
  <2> QED
    BY <2>7, <2>8
<1>4. Cardinality(N) \in Reached
  <2> SUFFICES ASSUME Cardinality(N) \notin Reached PROVE FALSE
    OBVIOUS
  <2> DEFINE Missed == Nat \ Reached
  <2> HIDE DEF Reached
  <2>1. Missed \in SUBSET Nat /\ Missed # {}
    BY FS_CardinalityType
  <2>2. PICK m \in Missed : \A k \in Missed : m <= k
    BY <2>1, LeastNat
  <2>3. m - 1 \in Nat /\ m - 1 \notin Missed
    BY <1>2, <2>2
  <2> QED
    BY <1>3, <2>2, <2>3
<1>5. PICK g : Good(g, Cardinality(N))
  BY <1>4
<1>6. UpTo(Cardinality(N)) = SUBSET N
  BY FS_Subset
<1> QED
  BY <1>5, <1>6 DEF Summing

LEMMA SumsOf ==
  ASSUME NEW N, IsFiniteSet(N), NEW f \in [N -> Nat]
  PROVE  Summing(f, N, Sums(f, N))
<1> DEFINE Body(g) == [s \in SUBSET N |-> SumStep(f, g, s)]
<1>1. PICK g : Summing(f, N, g)
  BY SumsExist
<1>2. g = Body(g)
  BY <1>1 DEF Summing
<1>3. Sums(f, N) = Body(Sums(f, N))
  <2> HIDE DEF Body
  <2>1. Sums(f, N) = CHOOSE h : h = Body(h)
    BY DEF Sums, Body
  <2> QED
    BY <1>2, <2>1
<1> DEFINE iter == Sums(f, N)
<1>4. \A s \in SUBSET N : iter[s] = SumStep(f, iter, s)
  BY <1>3
<1>5. SUBSET N \subseteq {s \in SUBSET N : iter[s] \in Nat}
  <2> DEFINE S == {s \in SUBSET N : iter[s] \in Nat}
  <2>1. {} \in S
    BY <1>4 DEF SumStep
  <2>2. ASSUME NEW s \in SUBSET N, s # {}, s \ {Some(s)} \in S PROVE s \in S
    BY <1>4, <2>2, SomeElement DEF SumStep
  <2> HIDE DEF S
  <2>3. SUBSET N \subseteq S
    BY <2>1, <2>2, SubsetInduction
  <2> QED
    BY <2>3 DEF S
<1>6. iter \in [SUBSET N -> Nat]
  BY <1>3, <1>5
<1> QED
  BY <1>4, <1>6 DEF Summing

(* More for a node is more in all. *)
LEMMA TotalMonotone ==
  ASSUME NEW N, IsFiniteSet(N), NEW f \in [N -> Nat], NEW g \in [N -> Nat],
         \A n \in N : f[n] <= g[n]
  PROVE  /\ Total(f, N) \in Nat /\ Total(g, N) \in Nat
         /\ Total(f, N) <= Total(g, N)
<1> DEFINE F == Sums(f, N)  G == Sums(g, N)
           S == {s \in SUBSET N : F[s] <= G[s]}
<1>1. Summing(f, N, F) /\ Summing(g, N, G)
  BY SumsOf
<1> HIDE DEF F, G
<1>2. {} \in S
  <2>1. {} \in SUBSET N /\ F[{}] = 0 /\ G[{}] = 0
    BY <1>1 DEF Summing, SumStep
  <2> QED
    BY <2>1
<1>3. ASSUME NEW s \in SUBSET N, s # {}, s \ {Some(s)} \in S PROVE s \in S
  <2>1. Some(s) \in N /\ s \ {Some(s)} \in SUBSET N
    BY <1>3, SomeElement
  <2>2. /\ F[s] = f[Some(s)] + F[s \ {Some(s)}]
        /\ G[s] = g[Some(s)] + G[s \ {Some(s)}]
    BY <1>1, <1>3 DEF Summing, SumStep
  <2>3. /\ f[Some(s)] \in Nat /\ g[Some(s)] \in Nat /\ f[Some(s)] <= g[Some(s)]
        /\ F[s \ {Some(s)}] \in Nat /\ G[s \ {Some(s)}] \in Nat
        /\ F[s \ {Some(s)}] <= G[s \ {Some(s)}]
    BY <1>1, <1>3, <2>1 DEF Summing
  <2> QED
    BY <2>2, <2>3
<1>4. N \in S
  <2> HIDE DEF S
  <2>1. SUBSET N \subseteq S
    BY <1>2, <1>3, SubsetInduction
  <2> QED
    BY <2>1
<1> QED
  BY <1>1, <1>4 DEF Total, Summing, F, G

(* One more for a node is one more in all. *)
LEMMA TotalOneMore ==
  ASSUME NEW N, IsFiniteSet(N), NEW f \in [N -> Nat], NEW n \in N
  PROVE  Total([f EXCEPT ![n] = @ + 1], N) = Total(f, N) + 1
<1> DEFINE g == [f EXCEPT ![n] = @ + 1]
           F == Sums(f, N)  G == Sums(g, N)
           S == {s \in SUBSET N : G[s] = F[s] + IF n \in s THEN 1 ELSE 0}
<1>1. g \in [N -> Nat] /\ \A m \in N : g[m] = f[m] + IF m = n THEN 1 ELSE 0
  OBVIOUS
<1> HIDE DEF g
<1>2. Summing(f, N, F) /\ Summing(g, N, G)
  BY <1>1, SumsOf
<1> HIDE DEF F, G
<1>3. {} \in S
  <2>1. {} \in SUBSET N /\ F[{}] = 0 /\ G[{}] = 0
    BY <1>2 DEF Summing, SumStep
  <2> QED
    BY <2>1
<1>4. ASSUME NEW s \in SUBSET N, s # {}, s \ {Some(s)} \in S PROVE s \in S
  <2> DEFINE x == Some(s)
  <2>1. x \in s /\ x \in N
    BY <1>4, SomeElement
  <2>2. F[s] = f[x] + F[s \ {x}] /\ G[s] = g[x] + G[s \ {x}]
    BY <1>2, <1>4 DEF Summing, SumStep
  <2>3. f[x] \in Nat /\ g[x] = f[x] + IF x = n THEN 1 ELSE 0
    BY <1>1, <2>1
  <2>4. F[s \ {x}] \in Nat /\ G[s \ {x}] = F[s \ {x}] + IF n \in s \ {x} THEN 1 ELSE 0
    BY <1>2, <1>4 DEF Summing
  <2> HIDE DEF x
  <2>5. CASE x = n
    BY <2>1, <2>2, <2>3, <2>4, <2>5
  <2>6. CASE x # n
    BY <2>1, <2>2, <2>3, <2>4, <2>6
  <2> QED
    BY <2>5, <2>6
<1>5. N \in S
  <2> HIDE DEF S
  <2>1. SUBSET N \subseteq S
    BY <1>3, <1>4, SubsetInduction
  <2> QED
    BY <2>1
<1> QED
  BY <1>5 DEF Total, F, G, g

LEMMA TotalOfNone ==
  ASSUME NEW N, IsFiniteSet(N)
  PROVE  Total([n \in N |-> 0], N) = 0
<1> DEFINE f == [n \in N |-> 0]
           F == Sums(f, N)
           S == {s \in SUBSET N : F[s] = 0}
<1>1. f \in [N -> Nat] /\ \A n \in N : f[n] = 0
  OBVIOUS
<1> HIDE DEF f
<1>2. Summing(f, N, F)
  BY <1>1, SumsOf
<1> HIDE DEF F
<1>3. {} \in S
  BY <1>2 DEF Summing, SumStep
<1>4. ASSUME NEW s \in SUBSET N, s # {}, s \ {Some(s)} \in S PROVE s \in S
  BY <1>1, <1>2, <1>4, SomeElement DEF Summing, SumStep
<1>5. N \in S
  <2> HIDE DEF S
  <2>1. SUBSET N \subseteq S
    BY <1>3, <1>4, SubsetInduction
  <2> QED
    BY <2>1
<1> QED
  BY <1>5 DEF Total, F, f

(* What the properties add up. *)
Names == ToSet(Nodes)

LEMMA NodesFinite == IsFiniteSet(Names)
<1>1. Nodes \in Seq(STRING)
  BY DashboardAssumption
<1>2. Nodes \in Surjection(1..Len(Nodes), Names)
  BY <1>1 DEF Surjection, Names, ToSet
<1> QED
  BY <1>1, <1>2, FS_Interval, FS_Surjection

LEMMA SumOfHits ==
  ASSUME NEW a
  PROVE  NodeHits(a) = Total([n \in Names |-> a[<<n, "counts">>].hits], Names)
<1> DEFINE f == [n \in Names |-> a[<<n, "counts">>].hits]
           Fold(iter) == [s \in SUBSET Names |->
                     IF s = {} THEN 0
                     ELSE a[<<Some(s), "counts">>].hits + iter[s \ {Some(s)}]]
           Body(iter) == [s \in SUBSET Names |-> SumStep(f, iter, s)]
<1>1. ASSUME NEW iter PROVE Fold(iter) = Body(iter)
  <2>1. ASSUME NEW s \in SUBSET Names, s # {} PROVE f[Some(s)] = a[<<Some(s), "counts">>].hits
    BY <2>1, SomeElement
  <2> QED
    BY <2>1 DEF SumStep
<1>2. NodeHits(a) = (CHOOSE iter : iter = Fold(iter))[Names]
  BY DEF NodeHits, MapThenSumSet, MapThenFoldSet, Some, Names
<1>3. Total(f, Names) = (CHOOSE iter : iter = Body(iter))[Names]
  BY DEF Total, Sums
<1> HIDE DEF Fold, Body, f
<1>4. (CHOOSE iter : iter = Fold(iter)) = (CHOOSE iter : iter = Body(iter))
  BY <1>1
<1> QED
  BY <1>2, <1>3, <1>4 DEF f

LEMMA SumOfMisses ==
  ASSUME NEW a
  PROVE  NodeMisses(a) = Total([n \in Names |-> a[<<n, "counts">>].misses], Names)
<1> DEFINE f == [n \in Names |-> a[<<n, "counts">>].misses]
           Fold(iter) == [s \in SUBSET Names |->
                     IF s = {} THEN 0
                     ELSE a[<<Some(s), "counts">>].misses + iter[s \ {Some(s)}]]
           Body(iter) == [s \in SUBSET Names |-> SumStep(f, iter, s)]
<1>1. ASSUME NEW iter PROVE Fold(iter) = Body(iter)
  <2>1. ASSUME NEW s \in SUBSET Names, s # {} PROVE f[Some(s)] = a[<<Some(s), "counts">>].misses
    BY <2>1, SomeElement
  <2> QED
    BY <2>1 DEF SumStep
<1>2. NodeMisses(a) = (CHOOSE iter : iter = Fold(iter))[Names]
  BY DEF NodeMisses, MapThenSumSet, MapThenFoldSet, Some, Names
<1>3. Total(f, Names) = (CHOOSE iter : iter = Body(iter))[Names]
  BY DEF Total, Sums
<1> HIDE DEF Fold, Body, f
<1>4. (CHOOSE iter : iter = Fold(iter)) = (CHOOSE iter : iter = Body(iter))
  BY <1>1
<1> QED
  BY <1>2, <1>3, <1>4 DEF f

--------------------------------------------------------------------------------
(* The order in which stats() reads.                                       *)

Snapshot == <<"requests_and_latency", "snapshot">>
Counts(n) == <<n, "counts">>
Rows == <<"batch_writer", "rows">>
Received == <<"batch_writer", "received">>
Readings == 2 * Len(Nodes) + 4

LEMMA PlanReads ==
  /\ Readings \in Nat /\ Readings >= 4 /\ DOMAIN Plan = 1..Readings
  /\ Plan[1] = Snapshot
  /\ \A i \in 2..(Readings - 3) :
       Plan[i] = <<Nodes[i \div 2], IF i % 2 = 0 THEN "total" ELSE "counts">>
  /\ Plan[Readings - 2] = <<"batch_writer", "buffered">>
  /\ Plan[Readings - 1] = Rows /\ Plan[Readings] = Received
<1> DEFINE L == 2 * Len(Nodes)
           S == {CachePlan[i] : i \in 1..L} \cup {MetricsPlan[1]}
                \cup {WriterPlan[1], WriterPlan[2], WriterPlan[3]}
<1>1. L \in Nat /\ Readings = L + 4
  BY DashboardAssumption DEF Readings
<1>2. CachePlan \in Seq(S) /\ Len(CachePlan) = L
  <2>1. CachePlan \in [1..L -> S]
    BY DEF CachePlan
  <2> HIDE DEF L, S
  <2> QED
    BY <1>1, <2>1
<1>3. MetricsPlan \in Seq(S) /\ Len(MetricsPlan) = 1 /\ MetricsPlan[1] = Snapshot
  <2>1. MetricsPlan = <<MetricsPlan[1]>> /\ MetricsPlan[1] \in S
    BY DEF MetricsPlan
  <2> HIDE DEF S
  <2> QED
    BY <2>1 DEF MetricsPlan, Snapshot
<1>4. /\ WriterPlan \in Seq(S) /\ Len(WriterPlan) = 3
      /\ WriterPlan[1] = <<"batch_writer", "buffered">>
      /\ WriterPlan[2] = Rows /\ WriterPlan[3] = Received
  <2>1. /\ WriterPlan = <<WriterPlan[1], WriterPlan[2], WriterPlan[3]>>
        /\ WriterPlan[1] \in S /\ WriterPlan[2] \in S /\ WriterPlan[3] \in S
    BY DEF WriterPlan
  <2> HIDE DEF S
  <2> QED
    BY <2>1 DEF WriterPlan, Rows, Received
<1>5. \A i \in 1..L : CachePlan[i] =
                      <<Nodes[(i + 1) \div 2], IF (i + 1) % 2 = 0 THEN "total" ELSE "counts">>
  <2> TAKE i \in 1..L
  <2>1. CachePlan[i] = NodePlan(Nodes[(i + 1) \div 2])[2 - (i % 2)]
    BY DEF CachePlan
  <2>2. CASE i % 2 = 1
    <3>1. (i + 1) % 2 = 0
      BY <1>1, <2>2
    <3> QED
      BY <2>1, <2>2, <3>1 DEF NodePlan
  <2>3. CASE i % 2 = 0
    <3>1. (i + 1) % 2 = 1
      BY <1>1, <2>3
    <3> QED
      BY <2>1, <2>3, <3>1 DEF NodePlan
  <2> QED
    BY <1>1, <2>2, <2>3
<1> HIDE DEF L, S
<1> DEFINE front == MetricsPlan \o CachePlan
<1>6. /\ front \in Seq(S) /\ Len(front) = L + 1 /\ front[1] = Snapshot
      /\ \A i \in 2..(L + 1) : front[i] = CachePlan[i - 1]
  <2>1. /\ front \in Seq(S) /\ Len(front) = Len(MetricsPlan) + Len(CachePlan)
        /\ \A i \in 1..(Len(MetricsPlan) + Len(CachePlan)) :
             front[i] = IF i <= Len(MetricsPlan) THEN MetricsPlan[i]
                        ELSE CachePlan[i - Len(MetricsPlan)]
    BY <1>2, <1>3, ConcatProperties, Zenon
  <2> HIDE DEF front
  <2> QED
    BY <1>1, <1>2, <1>3, <2>1
<1>7. /\ Plan \in Seq(S) /\ Len(Plan) = L + 4
      /\ \A i \in 1..(L + 4) : Plan[i] = IF i <= L + 1 THEN front[i] ELSE WriterPlan[i - (L + 1)]
  <2> HIDE DEF front
  <2>1. Plan = front \o WriterPlan
    BY DEF Plan, front
  <2>2. /\ Plan \in Seq(S) /\ Len(Plan) = Len(front) + Len(WriterPlan)
        /\ \A i \in 1..(Len(front) + Len(WriterPlan)) :
             Plan[i] = IF i <= Len(front) THEN front[i] ELSE WriterPlan[i - Len(front)]
    BY <1>4, <1>6, <2>1, ConcatProperties, Zenon
  <2> QED
    BY <1>1, <1>4, <1>6, <2>2
<1> HIDE DEF front
<1>8. DOMAIN Plan = 1..(L + 4)
  BY <1>1, <1>7
<1>9. ASSUME NEW i \in 2..(L + 1)
      PROVE  Plan[i] = <<Nodes[i \div 2], IF i % 2 = 0 THEN "total" ELSE "counts">>
  <2>1. i - 1 \in 1..L /\ (i - 1) + 1 = i /\ Plan[i] = CachePlan[i - 1]
    BY <1>1, <1>6, <1>7
  <2> QED
    BY <1>5, <2>1
<1>10. /\ Plan[1] = Snapshot /\ Plan[L + 2] = WriterPlan[1]
       /\ Plan[L + 3] = WriterPlan[2] /\ Plan[L + 4] = WriterPlan[3]
  BY <1>1, <1>6, <1>7
<1> QED
  BY <1>1, <1>4, <1>8, <1>9, <1>10

LEMMA PlanInjective ==
  ASSUME NEW i \in 1..Readings, NEW j \in 1..Readings, Plan[i] = Plan[j]
  PROVE  i = j
<1>1. \A k \in 1..Readings :
        \/ k = 1 \/ k \in 2..(Readings - 3) \/ k = Readings - 2 \/ k = Readings - 1 \/ k = Readings
  BY PlanReads
<1>2. \A k \in 1..Readings :
        /\ k = 1 <=> Plan[k][2] = "snapshot"
        /\ k = Readings - 2 <=> Plan[k][2] = "buffered"
        /\ k = Readings - 1 <=> Plan[k][2] = "rows"
        /\ k = Readings <=> Plan[k][2] = "received"
  BY <1>1, PlanReads DEF Snapshot, Rows, Received
<1>3. CASE i \notin 2..(Readings - 3) \/ j \notin 2..(Readings - 3)
  BY <1>1, <1>2, <1>3
<1>4. CASE i \in 2..(Readings - 3) /\ j \in 2..(Readings - 3)
  <2>1. /\ Plan[i] = <<Nodes[i \div 2], IF i % 2 = 0 THEN "total" ELSE "counts">>
        /\ Plan[j] = <<Nodes[j \div 2], IF j % 2 = 0 THEN "total" ELSE "counts">>
    BY <1>4, PlanReads
  <2>2. /\ Nodes[i \div 2] = Nodes[j \div 2]
        /\ (IF i % 2 = 0 THEN "total" ELSE "counts") = (IF j % 2 = 0 THEN "total" ELSE "counts")
    <3> DEFINE field(k) == IF k % 2 = 0 THEN "total" ELSE "counts"
    <3>1. <<Nodes[i \div 2], field(i)>> = <<Nodes[j \div 2], field(j)>>
      BY <2>1
    <3> HIDE DEF field
    <3>2. Nodes[i \div 2] = Nodes[j \div 2] /\ field(i) = field(j)
      BY <3>1
    <3> QED
      BY <3>2 DEF field
  <2>3. i \div 2 \in 1..Len(Nodes) /\ j \div 2 \in 1..Len(Nodes)
    BY <1>4, DashboardAssumption DEF Readings
  <2>4. i \div 2 = j \div 2
    BY <2>2, <2>3, DashboardAssumption DEF IsInjective
  <2>5. i % 2 = 0 <=> j % 2 = 0
    BY <2>2
  <2>6. /\ i = 2 * (i \div 2) + (i % 2) /\ i % 2 \in {0, 1}
        /\ j = 2 * (j \div 2) + (j % 2) /\ j % 2 \in {0, 1}
    BY <1>4, PlanReads
  <2> QED
    BY <2>3, <2>4, <2>5, <2>6
<1> QED
  BY <1>3, <1>4

--------------------------------------------------------------------------------
(* The counters.  What Metrics has counted, other sections have counted    *)
(* before it; the requests in between are those that threads are at.       *)

Doing(what) == {t \in Threads : request[t] = what}

Typed ==
  /\ IsFiniteSet(buffer) /\ IsFiniteSet(batch)
  /\ received \in Nat /\ rowsWritten \in Nat /\ blanks \in Nat
  /\ cacheHits \in Nat /\ cacheMisses \in Nat /\ searchRequests \in Nat
  /\ nodeHits \in [Names -> Nat] /\ nodeMisses \in [Names -> Nat]
  /\ request \in [Threads -> {"none", "hit", "miss", "search"}]

Books ==
  /\ \A what \in {"hit", "miss", "search"} : IsFiniteSet(Doing(what))
  /\ cacheHits + Cardinality(Doing("hit")) = Total(nodeHits, Names) + blanks
  /\ cacheMisses + Cardinality(Doing("miss")) = Total(nodeMisses, Names)
  /\ searchRequests + Cardinality(Doing("search")) = received
  /\ rowsWritten + Cardinality(batch) + Cardinality(buffer) <= received

(* Counters only grow. *)
Grow ==
  /\ \A n \in Names : nodeHits[n] <= nodeHits'[n] /\ nodeMisses[n] <= nodeMisses'[n]
  /\ received <= received'

(* A thread that takes a request up, and one that is done with it. *)
LEMMA TakesUp ==
  ASSUME Typed, NEW t \in Threads, NEW what \in {"hit", "miss", "search"},
         request[t] = "none", Goes(t, what),
         \A w \in {"hit", "miss", "search"} : IsFiniteSet(Doing(w))
  PROVE  /\ request' \in [Threads -> {"none", "hit", "miss", "search"}]
         /\ \A w \in {"hit", "miss", "search"} :
              /\ IsFiniteSet(Doing(w)') /\ Cardinality(Doing(w)) \in Nat
              /\ Cardinality(Doing(w)') = Cardinality(Doing(w)) + IF w = what THEN 1 ELSE 0
<1>1. request' = [request EXCEPT ![t] = what]
  BY DEF Goes
<1> SUFFICES ASSUME NEW w \in {"hit", "miss", "search"}
             PROVE  /\ IsFiniteSet(Doing(w)') /\ Cardinality(Doing(w)) \in Nat
                    /\ Cardinality(Doing(w)') = Cardinality(Doing(w)) + IF w = what THEN 1 ELSE 0
  BY <1>1 DEF Typed
<1>2. Doing(w)' = IF w = what THEN Doing(w) \cup {t} ELSE Doing(w)
  BY <1>1 DEF Doing, Typed
<1>3. t \notin Doing(w)
  BY DEF Doing
<1> QED
  BY <1>2, <1>3, FS_AddElement, FS_CardinalityType

LEMMA IsDone ==
  ASSUME Typed, NEW t \in Threads, NEW what \in {"hit", "miss", "search"},
         request[t] = what, Goes(t, "none"),
         \A w \in {"hit", "miss", "search"} : IsFiniteSet(Doing(w))
  PROVE  /\ request' \in [Threads -> {"none", "hit", "miss", "search"}]
         /\ \A w \in {"hit", "miss", "search"} :
              /\ IsFiniteSet(Doing(w)') /\ Cardinality(Doing(w)) \in Nat
              /\ Cardinality(Doing(w)') \in Nat
              /\ Cardinality(Doing(w)) = Cardinality(Doing(w)') + IF w = what THEN 1 ELSE 0
<1>1. request' = [request EXCEPT ![t] = "none"]
  BY DEF Goes
<1> SUFFICES ASSUME NEW w \in {"hit", "miss", "search"}
             PROVE  /\ IsFiniteSet(Doing(w)') /\ Cardinality(Doing(w)) \in Nat
                    /\ Cardinality(Doing(w)') \in Nat
                    /\ Cardinality(Doing(w)) = Cardinality(Doing(w)') + IF w = what THEN 1 ELSE 0
  BY <1>1 DEF Typed
<1>2. Doing(w)' = IF w = what THEN Doing(w) \ {t} ELSE Doing(w)
  BY <1>1 DEF Doing, Typed
<1>3. t \in Doing(w) <=> w = what
  BY DEF Doing
<1>4. IsFiniteSet(Doing(w)) /\ Cardinality(Doing(w)) \in Nat
  BY FS_CardinalityType
<1>5. /\ IsFiniteSet(Doing(w) \ {t}) /\ Cardinality(Doing(w) \ {t}) \in Nat
      /\ w = what => Cardinality(Doing(w) \ {t}) = Cardinality(Doing(w)) - 1
  BY <1>3, <1>4, FS_RemoveElement, FS_CardinalityType
<1> QED
  BY <1>2, <1>4, <1>5

LEMMA TotalIsNat ==
  ASSUME NEW f \in [Names -> Nat]
  PROVE  Total(f, Names) \in Nat
BY NodesFinite, TotalMonotone

LEMMA CountersInit ==
  ASSUME Init
  PROVE  Typed /\ Books
<1>1. Typed
  BY FS_EmptySet DEF Init, Typed, Metric!MetricsInit, Names
<1>2. Total(nodeHits, Names) = 0 /\ Total(nodeMisses, Names) = 0
  BY NodesFinite, TotalOfNone DEF Init, Names
<1>3. \A what \in {"hit", "miss", "search"} : Doing(what) = {}
  BY DEF Init, Doing
<1>4. \A what \in {"hit", "miss", "search"} :
        IsFiniteSet(Doing(what)) /\ Cardinality(Doing(what)) = 0
  BY <1>3, FS_EmptySet
<1> QED
  BY <1>1, <1>2, <1>4, FS_EmptySet DEF Init, Books, Metric!MetricsInit

(* Requests and the writer.  Each has one section to move. *)
LEMMA CountersStep ==
  ASSUME Typed, Books, [Next]_vars
  PROVE  Typed' /\ Books' /\ Grow
<1> USE DEF writerVars, metricsVars, nodeVars, pageVars
<1>1. /\ \A w \in {"hit", "miss", "search"} : IsFiniteSet(Doing(w)) /\ Cardinality(Doing(w)) \in Nat
      /\ Total(nodeHits, Names) \in Nat /\ Total(nodeMisses, Names) \in Nat
      /\ Cardinality(buffer) \in Nat /\ Cardinality(batch) \in Nat
  BY TotalIsNat, FS_CardinalityType DEF Typed, Books
<1>2. ASSUME UNCHANGED <<writerVars, metricsVars, nodeVars, request, blanks>>
      PROVE  Typed' /\ Books' /\ Grow
  BY <1>2 DEF Typed, Books, Grow, Doing
<1>3. ASSUME NEW t \in Threads, SuggestBlank(t) PROVE Typed' /\ Books' /\ Grow
  <2>1. /\ cacheHits' = cacheHits + 1 /\ blanks' = blanks + 1
        /\ UNCHANGED <<cacheMisses, searchRequests, writerVars, nodeVars, request>>
    BY <1>3 DEF SuggestBlank, Metric!RecordSuggest
  <2> QED
    BY <1>1, <2>1 DEF Typed, Books, Grow, Doing
<1>4. ASSUME NEW t \in Threads, RecordSuggest(t) PROVE Typed' /\ Books' /\ Grow
  <2>1. /\ cacheHits' = IF request[t] = "hit" THEN cacheHits + 1 ELSE cacheHits
        /\ cacheMisses' = IF request[t] = "hit" THEN cacheMisses ELSE cacheMisses + 1
        /\ UNCHANGED <<searchRequests, writerVars, nodeVars, blanks>>
        /\ Goes(t, "none") /\ request[t] \in {"hit", "miss"}
    BY <1>4 DEF RecordSuggest, Metric!RecordSuggest
  <2>2. /\ request' \in [Threads -> {"none", "hit", "miss", "search"}]
        /\ \A w \in {"hit", "miss", "search"} :
             /\ IsFiniteSet(Doing(w)') /\ Cardinality(Doing(w)') \in Nat
             /\ Cardinality(Doing(w)) = Cardinality(Doing(w)') + IF w = request[t] THEN 1 ELSE 0
    BY <1>1, <2>1, IsDone
  <2> QED
    BY <1>1, <2>1, <2>2 DEF Typed, Books, Grow
<1>5. ASSUME NEW t \in Threads, RecordSearch(t) PROVE Typed' /\ Books' /\ Grow
  <2>1. /\ searchRequests' = searchRequests + 1
        /\ UNCHANGED <<cacheHits, cacheMisses, writerVars, nodeVars, blanks>>
        /\ Goes(t, "none") /\ request[t] = "search"
    BY <1>5 DEF RecordSearch, Metric!RecordSearch
  <2>2. /\ request' \in [Threads -> {"none", "hit", "miss", "search"}]
        /\ \A w \in {"hit", "miss", "search"} :
             /\ IsFiniteSet(Doing(w)') /\ Cardinality(Doing(w)') \in Nat
             /\ Cardinality(Doing(w)) = Cardinality(Doing(w)') + IF w = "search" THEN 1 ELSE 0
    BY <1>1, <2>1, IsDone
  <2> QED
    BY <1>1, <2>1, <2>2 DEF Typed, Books, Grow
<1>6. ASSUME NEW t \in Threads, NEW n \in Names, Lookup(t, n) PROVE Typed' /\ Books' /\ Grow
  <2>1. /\ request[t] = "none"
        /\ UNCHANGED <<cacheHits, cacheMisses, searchRequests, writerVars, blanks>>
    BY <1>6 DEF Lookup, Free
  <2>2. CASE /\ nodeHits' = [nodeHits EXCEPT ![n] = @ + 1] /\ Goes(t, "hit")
             /\ UNCHANGED nodeMisses
    <3>1. /\ request' \in [Threads -> {"none", "hit", "miss", "search"}]
          /\ \A w \in {"hit", "miss", "search"} :
               /\ IsFiniteSet(Doing(w)')
               /\ Cardinality(Doing(w)') = Cardinality(Doing(w)) + IF w = "hit" THEN 1 ELSE 0
      BY <1>1, <2>1, <2>2, TakesUp
    <3>2. Total(nodeHits', Names) = Total(nodeHits, Names) + 1
      BY <2>2, NodesFinite, TotalOneMore DEF Typed
    <3>3. nodeHits' \in [Names -> Nat] /\ \A m \in Names : nodeHits[m] <= nodeHits'[m]
      BY <2>2 DEF Typed
    <3> QED
      BY <1>1, <2>1, <2>2, <3>1, <3>2, <3>3 DEF Typed, Books, Grow
  <2>3. CASE /\ nodeMisses' = [nodeMisses EXCEPT ![n] = @ + 1] /\ Goes(t, "miss")
             /\ UNCHANGED nodeHits
    <3>1. /\ request' \in [Threads -> {"none", "hit", "miss", "search"}]
          /\ \A w \in {"hit", "miss", "search"} :
               /\ IsFiniteSet(Doing(w)')
               /\ Cardinality(Doing(w)') = Cardinality(Doing(w)) + IF w = "miss" THEN 1 ELSE 0
      BY <1>1, <2>1, <2>3, TakesUp
    <3>2. Total(nodeMisses', Names) = Total(nodeMisses, Names) + 1
      BY <2>3, NodesFinite, TotalOneMore DEF Typed
    <3>3. nodeMisses' \in [Names -> Nat] /\ \A m \in Names : nodeMisses[m] <= nodeMisses'[m]
      BY <2>3 DEF Typed
    <3> QED
      BY <1>1, <2>1, <2>3, <3>1, <3>2, <3>3 DEF Typed, Books, Grow
  <2> QED
    BY <1>6, <2>2, <2>3 DEF Lookup
<1>7. ASSUME NEW t \in Threads, NEW q \in Queries, Enqueue(t, q) PROVE Typed' /\ Books' /\ Grow
  <2>1. /\ request[t] = "none" /\ Goes(t, "search")
        /\ buffer' = buffer \cup {q} /\ received' = received + 1
        /\ UNCHANGED <<batch, rowsWritten, metricsVars, nodeVars, blanks>>
    BY <1>7 DEF Enqueue, Free
  <2>2. /\ request' \in [Threads -> {"none", "hit", "miss", "search"}]
        /\ \A w \in {"hit", "miss", "search"} :
             /\ IsFiniteSet(Doing(w)')
             /\ Cardinality(Doing(w)') = Cardinality(Doing(w)) + IF w = "search" THEN 1 ELSE 0
    BY <1>1, <2>1, TakesUp
  <2>3. /\ IsFiniteSet(buffer') /\ Cardinality(buffer') \in Nat
        /\ Cardinality(buffer') <= Cardinality(buffer) + 1
    <3>1. IsFiniteSet(buffer)
      BY DEF Typed
    <3>2. /\ IsFiniteSet(buffer \cup {q})
          /\ Cardinality(buffer \cup {q}) =
               IF q \in buffer THEN Cardinality(buffer) ELSE Cardinality(buffer) + 1
      BY <3>1, FS_AddElement
    <3> QED
      BY <1>1, <2>1, <3>2
  <2> QED
    BY <1>1, <2>1, <2>2, <2>3 DEF Typed, Books, Grow
<1>8. CASE Drain
  <2>1. /\ batch = {} /\ batch' = buffer /\ buffer' = {}
        /\ UNCHANGED <<received, rowsWritten, metricsVars, nodeVars, request, blanks>>
    BY <1>8 DEF Drain
  <2> QED
    BY <1>1, <2>1, FS_EmptySet DEF Typed, Books, Grow, Doing
<1>9. CASE Account
  <2>1. /\ rowsWritten' = rowsWritten + Cardinality(batch) /\ batch' = {}
        /\ UNCHANGED <<buffer, received, metricsVars, nodeVars, request, blanks>>
    BY <1>9 DEF Account
  <2> QED
    BY <1>1, <2>1, FS_EmptySet DEF Typed, Books, Grow, Doing
<1>10. ASSUME NEW p \in Polls, Read(p) \/ AnswerEnds(p) PROVE Typed' /\ Books' /\ Grow
  BY <1>2, <1>10 DEF Read, AnswerEnds, AnswerArrives, AnswerFails
<1>11. CASE UNCHANGED vars
  BY <1>2, <1>11 DEF vars
<1> QED
  BY <1>3, <1>4, <1>5, <1>6, <1>7, <1>8, <1>9, <1>10, <1>11 DEF Next, RequestGoesOn, Names

--------------------------------------------------------------------------------
(* The answers.  While stats() reads, what it has not read yet is bounded  *)
(* from below by what it has, because counters only grow.                  *)

HitsOf(a, hits) ==
  [n \in Names |-> IF Counts(n) \in DOMAIN a THEN a[Counts(n)].hits ELSE hits[n]]
MissesOf(a, misses) ==
  [n \in Names |-> IF Counts(n) \in DOMAIN a THEN a[Counts(n)].misses ELSE misses[n]]
SearchesOf(a, count) == IF Received \in DOMAIN a THEN a[Received] ELSE count

InOrder(a) == \E k \in 0..Readings : DOMAIN a = {Plan[i] : i \in 1..k}
AnswerTyped(a) ==
  /\ Snapshot \in DOMAIN a =>
       /\ a[Snapshot].metrics.hits \in Nat /\ a[Snapshot].metrics.misses \in Nat
       /\ a[Snapshot].metrics.searches \in Nat /\ a[Snapshot].blanks \in Nat
  /\ \A n \in Names : Counts(n) \in DOMAIN a =>
       a[Counts(n)].hits \in Nat /\ a[Counts(n)].misses \in Nat
  /\ Rows \in DOMAIN a => a[Rows] \in Nat
  /\ Received \in DOMAIN a => a[Received] \in Nat
Sound(a, hits, misses, searches) ==
  /\ Snapshot \in DOMAIN a =>
       /\ a[Snapshot].metrics.hits <= Total(HitsOf(a, hits), Names) + a[Snapshot].blanks
       /\ a[Snapshot].metrics.misses <= Total(MissesOf(a, misses), Names)
       /\ a[Snapshot].metrics.searches <= SearchesOf(a, searches)
  /\ Rows \in DOMAIN a => a[Rows] <= SearchesOf(a, searches)
AnswerOK(a) == InOrder(a) /\ AnswerTyped(a) /\ Sound(a, nodeHits, nodeMisses, received)

(* What is sound stays sound while counters grow. *)
LEMMA SoundLater ==
  ASSUME NEW a, AnswerTyped(a),
         NEW h \in [Names -> Nat], NEW h2 \in [Names -> Nat], \A n \in Names : h[n] <= h2[n],
         NEW m \in [Names -> Nat], NEW m2 \in [Names -> Nat], \A n \in Names : m[n] <= m2[n],
         NEW s \in Nat, NEW s2 \in Nat, s <= s2,
         Sound(a, h, m, s)
  PROVE  Sound(a, h2, m2, s2)
<1>1. /\ HitsOf(a, h) \in [Names -> Nat] /\ HitsOf(a, h2) \in [Names -> Nat]
      /\ \A n \in Names : HitsOf(a, h)[n] <= HitsOf(a, h2)[n]
  BY DEF HitsOf, AnswerTyped
<1>2. /\ MissesOf(a, m) \in [Names -> Nat] /\ MissesOf(a, m2) \in [Names -> Nat]
      /\ \A n \in Names : MissesOf(a, m)[n] <= MissesOf(a, m2)[n]
  BY DEF MissesOf, AnswerTyped
<1>3. /\ Total(HitsOf(a, h), Names) \in Nat /\ Total(HitsOf(a, h2), Names) \in Nat
      /\ Total(HitsOf(a, h), Names) <= Total(HitsOf(a, h2), Names)
  BY <1>1, NodesFinite, TotalMonotone
<1>4. /\ Total(MissesOf(a, m), Names) \in Nat /\ Total(MissesOf(a, m2), Names) \in Nat
      /\ Total(MissesOf(a, m), Names) <= Total(MissesOf(a, m2), Names)
  BY <1>2, NodesFinite, TotalMonotone
<1>5. /\ SearchesOf(a, s) \in Nat /\ SearchesOf(a, s2) \in Nat
      /\ SearchesOf(a, s) <= SearchesOf(a, s2)
  BY DEF SearchesOf, AnswerTyped
<1> QED
  BY <1>3, <1>4, <1>5 DEF Sound, AnswerTyped

LEMMA Values ==
  /\ /\ Value("requests_and_latency", "snapshot").metrics.hits = cacheHits
     /\ Value("requests_and_latency", "snapshot").metrics.misses = cacheMisses
     /\ Value("requests_and_latency", "snapshot").metrics.searches = searchRequests
     /\ Value("requests_and_latency", "snapshot").blanks = blanks
  /\ \A n : /\ Value(n, "counts").hits = nodeHits[n]
            /\ Value(n, "counts").misses = nodeMisses[n]
  /\ Value("batch_writer", "rows") = rowsWritten
  /\ Value("batch_writer", "received") = received
<1>1. /\ Metric!Snapshot.hits = cacheHits /\ Metric!Snapshot.misses = cacheMisses
      /\ Metric!Snapshot.searches = searchRequests
  BY Zenon DEF Metric!Snapshot
<1>2. /\ Value("requests_and_latency", "snapshot") =
           [metrics |-> Metric!Snapshot, blanks |-> blanks]
      /\ \A n : Value(n, "counts") = [hits |-> nodeHits[n], misses |-> nodeMisses[n]]
      /\ Value("batch_writer", "rows") = rowsWritten
      /\ Value("batch_writer", "received") = received
  BY DEF Value
<1> QED
  BY <1>1, <1>2

(* The readings so far are a beginning of the plan, and the next is new. *)
LEMMA NextIsNew ==
  ASSUME NEW a, InOrder(a), DOMAIN a # ToSet(Plan)
  PROVE  \E k \in 0..(Readings - 1) :
           /\ Cardinality(DOMAIN a) = k /\ DOMAIN a = {Plan[i] : i \in 1..k}
           /\ Plan[k + 1] \notin DOMAIN a
<1>1. PICK k \in 0..Readings : DOMAIN a = {Plan[i] : i \in 1..k}
  BY DEF InOrder
<1>2. k # Readings
  BY <1>1, PlanReads DEF ToSet
<1>3. Cardinality(DOMAIN a) = k
  <2> DEFINE f == [i \in 1..k |-> Plan[i]]
  <2>1. \A i, j \in 1..k : Plan[i] = Plan[j] => i = j
    BY PlanReads, PlanInjective
  <2>2. f \in Surjection(1..k, DOMAIN a)
    BY <1>1 DEF Surjection
  <2>3. f \in Injection(1..k, DOMAIN a)
    BY <1>1, <2>1 DEF Injection, IsInjective
  <2>4. IsFiniteSet(1..k) /\ Cardinality(1..k) = k
    <3>1. k \in Nat
      BY PlanReads
    <3> QED
      BY <3>1, FS_Interval
  <2> HIDE DEF f
  <2> QED
    BY <2>2, <2>3, <2>4, FS_Surjection
<1>4. Plan[k + 1] \notin DOMAIN a
  <2> SUFFICES ASSUME NEW i \in 1..k, Plan[i] = Plan[k + 1] PROVE FALSE
    BY <1>1
  <2>1. i \in 1..Readings /\ k + 1 \in 1..Readings /\ i # k + 1
    BY <1>2, PlanReads
  <2> QED
    BY <2>1, PlanInjective
<1>5. k \in 0..(Readings - 1)
  BY <1>2, PlanReads
<1> QED
  BY <1>1, <1>3, <1>4, <1>5

(* What a reading is depends on its place in the plan. *)
LEMMA ReadingsKinds ==
  ASSUME NEW k \in 1..(Readings - 1)
  PROVE  LET next == Plan[k + 1]
         IN  /\ next # Snapshot
             /\ next = Rows => k = Readings - 2
             /\ next = Received => k = Readings - 1
             /\ Received \in {Plan[i] : i \in 1..k} => k = Readings
<1>1. k + 1 \in 1..Readings /\ 1 \in 1..Readings
      /\ Readings \in 1..Readings /\ Readings - 1 \in 1..Readings
  BY PlanReads
<1>2. /\ Plan[1] = Snapshot /\ Plan[Readings - 1] = Rows /\ Plan[Readings] = Received
      /\ Readings \in Nat
  BY PlanReads
<1>3. \A i \in 1..Readings : /\ Plan[i] = Snapshot => i = 1
                             /\ Plan[i] = Rows => i = Readings - 1
                             /\ Plan[i] = Received => i = Readings
  BY <1>1, <1>2, PlanInjective
<1>4. Received \in {Plan[i] : i \in 1..k} => k = Readings
  <2> SUFFICES ASSUME NEW i \in 1..k, Plan[i] = Received PROVE k = Readings
    OBVIOUS
  <2>1. i \in 1..Readings
    BY <1>2
  <2> QED
    BY <1>2, <1>3, <2>1
<1> QED
  BY <1>1, <1>2, <1>3, <1>4

(* The first reading: Metrics has counted nothing that the nodes and the   *)
(* writer have not.                                                        *)
LEMMA FirstReading ==
  ASSUME Typed, Books, NEW a, DOMAIN a = {}
  PROVE  LET b == Reads(a, Snapshot)
         IN  AnswerTyped(b) /\ Sound(b, nodeHits, nodeMisses, received)
<1> DEFINE b == Reads(a, Snapshot)
<1>1. DOMAIN b = {Snapshot} /\ b[Snapshot] = Value("requests_and_latency", "snapshot")
  BY DEF Reads, Snapshot
<1> HIDE DEF b
<1>2. /\ b[Snapshot].metrics.hits = cacheHits /\ b[Snapshot].metrics.misses = cacheMisses
      /\ b[Snapshot].metrics.searches = searchRequests /\ b[Snapshot].blanks = blanks
  BY <1>1, Values
<1>3. Rows # Snapshot /\ Received # Snapshot /\ \A n : Counts(n) # Snapshot
  BY DEF Rows, Received, Snapshot, Counts
<1>4. HitsOf(b, nodeHits) = nodeHits /\ MissesOf(b, nodeMisses) = nodeMisses
  BY <1>1, <1>3 DEF HitsOf, MissesOf, Typed
<1>5. /\ cacheHits <= Total(nodeHits, Names) + blanks
      /\ cacheMisses <= Total(nodeMisses, Names) /\ searchRequests <= received
  <2>1. /\ Total(nodeHits, Names) \in Nat /\ Total(nodeMisses, Names) \in Nat
        /\ \A what \in {"hit", "miss", "search"} : Cardinality(Doing(what)) \in Nat
    BY TotalIsNat, FS_CardinalityType DEF Typed, Books
  <2> QED
    BY <2>1 DEF Typed, Books
<1>6. AnswerTyped(b)
  BY <1>1, <1>2, <1>3 DEF AnswerTyped, Typed
<1>7. Sound(b, nodeHits, nodeMisses, received)
  BY <1>1, <1>2, <1>3, <1>4, <1>5 DEF Sound, SearchesOf
<1> QED
  BY <1>6, <1>7 DEF b

(* A later one reads what the bounds already went by. *)
LEMMA LaterReading ==
  ASSUME Typed, Books, NEW a, AnswerTyped(a), Sound(a, nodeHits, nodeMisses, received),
         NEW next, next # Snapshot, next \notin DOMAIN a,
         next = Rows => Received \notin DOMAIN a
  PROVE  LET b == Reads(a, next)
         IN  AnswerTyped(b) /\ Sound(b, nodeHits, nodeMisses, received)
<1> DEFINE b == Reads(a, next)
<1>1. /\ DOMAIN b = DOMAIN a \cup {next} /\ b[next] = Value(next[1], next[2])
      /\ \A r \in DOMAIN a : b[r] = a[r]
  BY DEF Reads
<1> HIDE DEF b
<1>2. \A n : next = Counts(n) => b[next].hits = nodeHits[n] /\ b[next].misses = nodeMisses[n]
  BY <1>1, Values DEF Counts
<1>3. (next = Rows => b[next] = rowsWritten) /\ (next = Received => b[next] = received)
  BY <1>1, Values DEF Rows, Received
<1>4. HitsOf(b, nodeHits) = HitsOf(a, nodeHits) /\ MissesOf(b, nodeMisses) = MissesOf(a, nodeMisses)
  <2>1. ASSUME NEW n \in Names
        PROVE  /\ (IF Counts(n) \in DOMAIN b THEN b[Counts(n)].hits ELSE nodeHits[n]) =
                    IF Counts(n) \in DOMAIN a THEN a[Counts(n)].hits ELSE nodeHits[n]
               /\ (IF Counts(n) \in DOMAIN b THEN b[Counts(n)].misses ELSE nodeMisses[n]) =
                    IF Counts(n) \in DOMAIN a THEN a[Counts(n)].misses ELSE nodeMisses[n]
    BY <1>1, <1>2
  <2> QED
    BY <2>1 DEF HitsOf, MissesOf
<1>5. SearchesOf(b, received) = SearchesOf(a, received)
  BY <1>1, <1>3 DEF SearchesOf
<1>6. Snapshot \in DOMAIN b <=> Snapshot \in DOMAIN a
  BY <1>1
<1>7. rowsWritten <= received
  <2>1. Cardinality(batch) \in Nat /\ Cardinality(buffer) \in Nat
    BY FS_CardinalityType DEF Typed
  <2> QED
    BY <2>1 DEF Typed, Books
<1>8. AnswerTyped(b)
  <2>1. \A n \in Names : nodeHits[n] \in Nat /\ nodeMisses[n] \in Nat
    BY DEF Typed
  <2>2. \A n \in Names : Counts(n) \in DOMAIN b => b[Counts(n)].hits \in Nat /\ b[Counts(n)].misses \in Nat
    BY <1>1, <1>2, <2>1 DEF AnswerTyped
  <2>3. /\ Rows \in DOMAIN b => b[Rows] \in Nat
        /\ Received \in DOMAIN b => b[Received] \in Nat
    BY <1>1, <1>3 DEF AnswerTyped, Typed
  <2> QED
    BY <1>1, <1>6, <2>2, <2>3 DEF AnswerTyped
<1>9. Rows \in DOMAIN b => b[Rows] <= SearchesOf(b, received)
  <2>1. CASE next = Rows
    BY <1>1, <1>3, <1>5, <1>7, <2>1 DEF SearchesOf
  <2>2. CASE next # Rows
    BY <1>1, <1>5, <2>2 DEF Sound
  <2> QED
    BY <2>1, <2>2
<1>10. Sound(b, nodeHits, nodeMisses, received)
  BY <1>1, <1>4, <1>5, <1>6, <1>9 DEF Sound
<1> QED
  BY <1>8, <1>10 DEF b

(* stats() goes on by one reading. *)
LEMMA ReadsOn ==
  ASSUME Typed, Books, NEW a, AnswerOK(a), DOMAIN a # ToSet(Plan)
  PROVE  AnswerOK(Reads(a, Plan[Cardinality(DOMAIN a) + 1]))
<1>1. PICK k \in 0..(Readings - 1) :
        /\ Cardinality(DOMAIN a) = k /\ DOMAIN a = {Plan[i] : i \in 1..k}
        /\ Plan[k + 1] \notin DOMAIN a
  BY NextIsNew DEF AnswerOK
<1> DEFINE next == Plan[k + 1]  b == Reads(a, next)
<1>2. Readings \in Nat /\ Plan[1] = Snapshot
  BY PlanReads
<1>3. InOrder(b)
  <2>1. DOMAIN b = DOMAIN a \cup {next}
    BY DEF Reads
  <2>2. 1..(k + 1) = (1..k) \cup {k + 1} /\ k + 1 \in 0..Readings
    BY <1>2
  <2>3. DOMAIN b = {Plan[i] : i \in 1..(k + 1)}
    BY <1>1, <2>1, <2>2
  <2> HIDE DEF b
  <2> QED
    BY <2>2, <2>3 DEF InOrder
<1>4. AnswerTyped(b) /\ Sound(b, nodeHits, nodeMisses, received)
  <2>1. CASE k = 0
    <3>1. DOMAIN a = {} /\ next = Snapshot
      BY <1>1, <1>2, <2>1
    <3> QED
      BY <3>1, FirstReading
  <2>2. CASE k # 0
    <3>1. k \in 1..(Readings - 1) /\ k # Readings
      BY <1>2, <2>2
    <3>2. next # Snapshot /\ next \notin DOMAIN a /\ Received \notin DOMAIN a
      BY <1>1, <3>1, ReadingsKinds
    <3> QED
      BY <3>2, LaterReading DEF AnswerOK
  <2> QED
    BY <2>1, <2>2
<1> QED
  BY <1>1, <1>3, <1>4 DEF AnswerOK

--------------------------------------------------------------------------------
(* The panel.                                                              *)

PanelOK ==
  /\ poll = [p \in Polls |-> poll[p]] /\ \A p \in Polls : AnswerOK(poll[p])
  /\ shown = <<>> \/ (DOMAIN shown = ToSet(Plan) /\ AnswerOK(shown))

LEMMA NothingRead == AnswerOK(<<>>)
<1>1. DOMAIN <<>> = {}
  OBVIOUS
<1>2. InOrder(<<>>)
  <2>1. 0 \in 0..Readings /\ {Plan[i] : i \in 1..0} = {}
    BY PlanReads
  <2> QED
    BY <1>1, <2>1 DEF InOrder
<1> QED
  BY <1>1, <1>2 DEF AnswerOK, AnswerTyped, Sound

LEMMA StaysOK ==
  ASSUME Typed, Typed', Grow, NEW a, AnswerOK(a)
  PROVE  /\ InOrder(a) /\ AnswerTyped(a)
         /\ Sound(a, nodeHits', nodeMisses', received')
BY SoundLater DEF AnswerOK, Typed, Grow

LEMMA PanelStep ==
  ASSUME Typed, Books, Typed', Grow, PanelOK, [Next]_vars
  PROVE  PanelOK'
<1> DEFINE Later(a) == /\ InOrder(a) /\ AnswerTyped(a)
                       /\ Sound(a, nodeHits', nodeMisses', received')
<1>1. \A a : AnswerOK(a) => Later(a)
  BY StaysOK
<1>2. SUFFICES /\ poll' = [p \in Polls |-> poll'[p]] /\ \A p \in Polls : Later(poll'[p])
               /\ shown' = <<>> \/ (DOMAIN shown' = ToSet(Plan) /\ Later(shown'))
  BY DEF PanelOK, AnswerOK
<1> HIDE DEF Later
<1>3. CASE UNCHANGED <<poll, shown>>
  BY <1>1, <1>3 DEF PanelOK
<1>4. ASSUME NEW p \in Polls, Read(p)
      PROVE  /\ poll' = [o \in Polls |-> poll'[o]] /\ \A o \in Polls : Later(poll'[o])
             /\ shown' = <<>> \/ (DOMAIN shown' = ToSet(Plan) /\ Later(shown'))
  <2>1. /\ DOMAIN poll[p] # ToSet(Plan) /\ UNCHANGED shown
        /\ poll' = [poll EXCEPT ![p] = Reads(poll[p], Plan[Cardinality(DOMAIN poll[p]) + 1])]
    BY <1>4 DEF Read, Answered
  <2>2. AnswerOK(Reads(poll[p], Plan[Cardinality(DOMAIN poll[p]) + 1]))
    BY <2>1, ReadsOn DEF PanelOK
  <2> QED
    BY <1>1, <2>1, <2>2 DEF PanelOK
<1>5. ASSUME NEW p \in Polls, AnswerEnds(p)
      PROVE  /\ poll' = [o \in Polls |-> poll'[o]] /\ \A o \in Polls : Later(poll'[o])
             /\ shown' = <<>> \/ (DOMAIN shown' = ToSet(Plan) /\ Later(shown'))
  <2>1. /\ poll' = [poll EXCEPT ![p] = <<>>]
        /\ \/ shown' = shown
           \/ shown' = poll[p] /\ DOMAIN poll[p] = ToSet(Plan)
    BY <1>5 DEF AnswerEnds, AnswerArrives, AnswerFails, Answered, Shows
  <2>2. AnswerOK(<<>>)
    BY NothingRead
  <2> QED
    BY <1>1, <2>1, <2>2 DEF PanelOK
<1> QED
  BY <1>3, <1>4, <1>5
     DEF Next, RequestGoesOn, SuggestBlank, RecordSuggest, RecordSearch, Lookup, Enqueue,
         Drain, Account, pageVars, vars

(* An answer that is complete adds up. *)
LEMMA CompleteAddsUp ==
  ASSUME NEW a, AnswerOK(a), DOMAIN a = ToSet(Plan)
  PROVE  /\ a[Snapshot].metrics.hits <= NodeHits(a) + a[Snapshot].blanks
         /\ a[Snapshot].metrics.misses <= NodeMisses(a)
         /\ a[Snapshot].metrics.searches <= a[Received]
         /\ a[Rows] <= a[Received]
<1>1. /\ Snapshot \in DOMAIN a /\ Rows \in DOMAIN a /\ Received \in DOMAIN a
  BY PlanReads DEF ToSet
<1>2. \A n \in Names : Counts(n) \in DOMAIN a
  <2> TAKE n \in Names
  <2>1. PICK j \in 1..Len(Nodes) : n = Nodes[j]
    BY DashboardAssumption DEF Names, ToSet
  <2>2. /\ 2 * j + 1 \in 2..(Readings - 3) /\ 2 * j + 1 \in 1..Readings
        /\ (2 * j + 1) \div 2 = j /\ (2 * j + 1) % 2 = 1
    BY DashboardAssumption DEF Readings
  <2>3. Plan[2 * j + 1] = Counts(n)
    <3> DEFINE i == 2 * j + 1
    <3>1. Plan[i] = <<Nodes[i \div 2], IF i % 2 = 0 THEN "total" ELSE "counts">>
      <4> HIDE DEF i
      <4>1. i \in 2..(Readings - 3)
        BY <2>2 DEF i
      <4> QED
        BY <4>1, PlanReads
    <3> HIDE DEF i
    <3>2. i \div 2 = j /\ i % 2 = 1
      BY <2>2 DEF i
    <3> QED
      BY <2>1, <3>1, <3>2 DEF Counts, i
  <2> QED
    BY <2>2, <2>3, PlanReads DEF ToSet
<1>3. NodeHits(a) = Total(HitsOf(a, nodeHits), Names)
  <2>1. HitsOf(a, nodeHits) = [n \in Names |-> a[Counts(n)].hits]
    BY <1>2 DEF HitsOf
  <2> QED
    BY <2>1, SumOfHits DEF Counts
<1>4. NodeMisses(a) = Total(MissesOf(a, nodeMisses), Names)
  <2>1. MissesOf(a, nodeMisses) = [n \in Names |-> a[Counts(n)].misses]
    BY <1>2 DEF MissesOf
  <2> QED
    BY <2>1, SumOfMisses DEF Counts
<1> QED
  BY <1>1, <1>3, <1>4 DEF AnswerOK, Sound, SearchesOf

(* The sections of an answer of stats() add up, whatever the number of     *)
(* nodes, threads and polls: although they are read at different moments,  *)
(* no section has counted a request as answered that another has not       *)
(* counted as done, and the savings of batching are not negative.          *)
THEOREM StatsAddUp == Spec => []SectionsAddUp
<1>1. Init => Typed /\ Books /\ PanelOK
  <2> SUFFICES ASSUME Init PROVE Typed /\ Books /\ PanelOK
    OBVIOUS
  <2>1. PanelOK
    BY NothingRead DEF Init, PanelOK
  <2> QED
    BY <2>1, CountersInit
<1>2. Typed /\ Books /\ PanelOK /\ [Next]_vars => (Typed /\ Books /\ PanelOK)'
  BY CountersStep, PanelStep
<1>3. PanelOK => SectionsAddUp
  <2> SUFFICES ASSUME PanelOK, NEW a \in Answers
               PROVE  LET reading == a[MetricsPlan[1]]
                          m == reading.metrics
                          searches == a[<<"batch_writer", "received">>]
                      IN  /\ m.hits <= NodeHits(a) + reading.blanks
                          /\ m.misses <= NodeMisses(a)
                          /\ m.searches <= searches
                          /\ a[<<"batch_writer", "rows">>] <= searches
    BY DEF SectionsAddUp
  <2>1. AnswerOK(a) /\ DOMAIN a = ToSet(Plan)
    BY DEF Answers, PanelOK, Answered
  <2>2. MetricsPlan[1] = Snapshot
    BY DEF MetricsPlan, Snapshot
  <2> QED
    BY <2>1, <2>2, CompleteAddsUp DEF Rows, Received
<1> QED
  BY <1>1, <1>2, <1>3, PTL DEF Spec

--------------------------------------------------------------------------------
(* Types, and the bounds of what is counted.                               *)

Waiting == {t \in Threads : request[t] \in {"hit", "miss"}}

Bounded ==
  /\ buffer \subseteq Queries /\ batch \subseteq Queries
  /\ received <= MaxSearches
  /\ Metric!MetricsTypeOK
  /\ blanks <= suggestRequests /\ blanks <= MaxSuggests
  /\ healthy \in BOOLEAN

(* A window that rolls keeps to its length. *)
LEMMA RolledType ==
  ASSUME NEW window \in Seq(Latencies), Len(window) <= LatencyWindow, NEW ms \in Latencies
  PROVE  /\ Metric!Rolled(window, ms) \in Seq(Latencies)
         /\ Len(Metric!Rolled(window, ms)) <= LatencyWindow
<1> DEFINE longer == Append(window, ms)
<1>1. LatencyWindow \in Nat \ {0}
  BY DashboardAssumption
<1>2. longer \in Seq(Latencies) /\ Len(longer) = Len(window) + 1 /\ Len(window) \in Nat
  BY AppendProperties, LenProperties
<1>3. longer # <<>>
  BY <1>2
<1>4. Tail(longer) \in Seq(Latencies) /\ Len(Tail(longer)) = Len(longer) - 1
  BY <1>2, <1>3, HeadTailProperties
<1> HIDE DEF longer
<1> QED
  BY <1>1, <1>2, <1>4 DEF Metric!Rolled, longer

LEMMA BoundedStep ==
  ASSUME Typed, Books, Bounded, [Next]_vars
  PROVE  Bounded'
<1> USE DEF writerVars, metricsVars, nodeVars, pageVars
<1>1. IsFiniteSet(Waiting) /\ Cardinality(Waiting) \in Nat
  <2>1. Waiting = Doing("hit") \cup Doing("miss")
    BY DEF Waiting, Doing
  <2>2. IsFiniteSet(Doing("hit")) /\ IsFiniteSet(Doing("miss"))
    BY DEF Books
  <2> QED
    BY <2>1, <2>2, FS_Union, FS_CardinalityType
<1>2. MaxSearches \in Nat /\ MaxSuggests \in Nat /\ received \in Nat /\ blanks \in Nat
  BY DashboardAssumption DEF Typed
<1>3. ASSUME NEW ms \in Latencies, NEW hit \in BOOLEAN, Metric!RecordSuggest(ms, hit)
      PROVE  Metric!MetricsTypeOK' /\ suggestRequests' = suggestRequests + 1
  BY <1>3, RolledType DEF Bounded, Metric!MetricsTypeOK, Metric!RecordSuggest
<1>4. ASSUME NEW t \in Threads, SuggestBlank(t) PROVE Bounded'
  <2>1. /\ suggestRequests + Cardinality(Waiting) < MaxSuggests /\ blanks' = blanks + 1
        /\ UNCHANGED <<writerVars, healthy>>
    BY <1>4 DEF SuggestBlank, Suggests, Waiting
  <2>2. Metric!MetricsTypeOK' /\ suggestRequests' = suggestRequests + 1
    BY <1>3, <1>4 DEF SuggestBlank
  <2>3. suggestRequests \in Nat
    BY DEF Bounded, Metric!MetricsTypeOK
  <2> QED
    BY <1>1, <1>2, <2>1, <2>2, <2>3 DEF Bounded
<1>5. ASSUME NEW t \in Threads, RecordSuggest(t) PROVE Bounded'
  <2>1. UNCHANGED <<writerVars, blanks, healthy>>
    BY <1>5 DEF RecordSuggest
  <2>2. Metric!MetricsTypeOK' /\ suggestRequests' = suggestRequests + 1
    BY <1>3, <1>5 DEF RecordSuggest
  <2>3. suggestRequests \in Nat
    BY DEF Bounded, Metric!MetricsTypeOK
  <2> QED
    BY <1>2, <2>1, <2>2, <2>3 DEF Bounded
<1>6. ASSUME NEW t \in Threads, RecordSearch(t) PROVE Bounded'
  BY <1>6 DEF RecordSearch, Metric!RecordSearch, Bounded, Metric!MetricsTypeOK
<1>7. ASSUME UNCHANGED <<metricsVars, blanks, healthy, received>>,
             buffer' \subseteq Queries, batch' \subseteq Queries
      PROVE  Bounded'
  BY <1>7 DEF Bounded, Metric!MetricsTypeOK
<1>8. ASSUME NEW t \in Threads, NEW n \in ToSet(Nodes), Lookup(t, n) PROVE Bounded'
  BY <1>7, <1>8 DEF Lookup, Bounded
<1>9. ASSUME NEW t \in Threads, NEW q \in Queries, Enqueue(t, q) PROVE Bounded'
  <2>1. /\ received < MaxSearches /\ received' = received + 1
        /\ buffer' = buffer \cup {q} /\ UNCHANGED <<batch, metricsVars, blanks, healthy>>
    BY <1>9 DEF Enqueue
  <2> QED
    BY <1>2, <2>1 DEF Bounded, Metric!MetricsTypeOK
<1>10. CASE Drain
  BY <1>7, <1>10 DEF Drain, Bounded
<1>11. CASE Account
  BY <1>7, <1>11 DEF Account, Bounded
<1>12. ASSUME NEW p \in Polls, Read(p) \/ AnswerEnds(p) PROVE Bounded'
  <2>1. healthy' \in BOOLEAN
    BY <1>12 DEF Read, AnswerEnds, AnswerArrives, AnswerFails, Bounded
  <2>2. UNCHANGED <<writerVars, metricsVars, blanks>>
    BY <1>12 DEF Read, AnswerEnds, AnswerArrives, AnswerFails
  <2> QED
    BY <2>1, <2>2 DEF Bounded, Metric!MetricsTypeOK
<1>13. CASE UNCHANGED vars
  BY <1>7, <1>13 DEF vars, Bounded
<1> QED
  BY <1>4, <1>5, <1>6, <1>8, <1>9, <1>10, <1>11, <1>12, <1>13 DEF Next, RequestGoesOn

(* What stats() has read is part of what there is to read. *)
LEMMA AnswerDomain ==
  ASSUME NEW a, AnswerOK(a)
  PROVE  DOMAIN a \subseteq ToSet(Plan)
<1>1. PICK k \in 0..Readings : DOMAIN a = {Plan[i] : i \in 1..k}
  BY DEF AnswerOK, InOrder
<1>2. Readings \in Nat /\ DOMAIN Plan = 1..Readings
  BY PlanReads
<1>3. ToSet(Plan) = {Plan[i] : i \in 1..Readings}
  BY <1>2 DEF ToSet
<1> QED
  BY <1>1, <1>2, <1>3

(* Every variable keeps its type and its bound: no more rows written than  *)
(* searches received, and no more latencies than the window holds.         *)
THEOREM TypesOfTheDashboard == Spec => []TypeOK
<1>1. Init => Typed /\ Books /\ PanelOK /\ Bounded
  <2> SUFFICES ASSUME Init PROVE Typed /\ Books /\ PanelOK /\ Bounded
    OBVIOUS
  <2>1. PanelOK
    BY NothingRead DEF Init, PanelOK
  <2>2. Bounded
    <3>1. /\ latencies = <<>> /\ suggestRequests = 0 /\ searchRequests = 0
          /\ cacheHits = 0 /\ cacheMisses = 0
      BY DEF Init, Metric!MetricsInit
    <3>2. Metric!MetricsTypeOK
      <4>1. <<>> \in Seq(Latencies) /\ Len(<<>>) = 0
        OBVIOUS
      <4> QED
        BY <3>1, <4>1, DashboardAssumption DEF Metric!MetricsTypeOK
    <3>3. /\ buffer = {} /\ batch = {} /\ received = 0 /\ blanks = 0
          /\ healthy = FALSE /\ healthy \in BOOLEAN
      BY DEF Init
    <3>4. MaxSearches \in Nat /\ MaxSuggests \in Nat
      BY DashboardAssumption
    <3>5. received <= MaxSearches /\ blanks <= suggestRequests /\ blanks <= MaxSuggests
      BY <3>1, <3>3, <3>4
    <3> QED
      BY <3>2, <3>3, <3>5 DEF Bounded
  <2> QED
    BY <2>1, <2>2, CountersInit
<1>2. Typed /\ Books /\ PanelOK /\ Bounded /\ [Next]_vars => (Typed /\ Books /\ PanelOK /\ Bounded)'
  BY CountersStep, PanelStep, BoundedStep
<1>3. Typed /\ Books /\ PanelOK /\ Bounded => TypeOK
  <2> SUFFICES ASSUME Typed, Books, PanelOK, Bounded PROVE TypeOK
    OBVIOUS
  <2>1. received \in 0..MaxSearches /\ rowsWritten \in 0..MaxSearches
    <3>1. Cardinality(buffer) \in Nat /\ Cardinality(batch) \in Nat
      BY FS_CardinalityType DEF Typed
    <3> QED
      BY <3>1, DashboardAssumption DEF Typed, Books, Bounded
  <2>2. blanks \in 0..MaxSuggests
    BY DashboardAssumption DEF Typed, Bounded
  <2>3. \A p \in Polls : DOMAIN poll[p] \subseteq ToSet(Plan)
    BY AnswerDomain DEF PanelOK
  <2>4. DOMAIN shown \in {{}, ToSet(Plan)}
    BY DEF PanelOK
  <2> QED
    BY <2>1, <2>2, <2>3, <2>4 DEF TypeOK, Typed, Bounded, Names
<1> QED
  BY <1>1, <1>2, <1>3, PTL DEF Spec

--------------------------------------------------------------------------------
(* The positions that snapshot() reports as p50, p95 and p99.              *)

(* Rounding moves by half a unit at most ... *)
LEMMA RoundedNear ==
  ASSUME NEW h \in Nat
  PROVE  /\ Rounded(h) \in Nat
         /\ 100 * Rounded(h) <= h + 50
         /\ h <= 100 * Rounded(h) + 50
PROOF BY DEF Rounded

(* ... and keeps the order. *)
LEMMA RoundedMonotone ==
  ASSUME NEW h \in Nat, NEW k \in Nat, h <= k
  PROVE  Rounded(h) <= Rounded(k)
PROOF BY DEF Rounded

(* A rank is a position of the window: sorted_vals[rank] never fails. *)
THEOREM RankInRange ==
  ASSUME NEW n \in Nat \ {0}, NEW pct \in {50, 95, 99}
  PROVE  Rank(pct, n) \in 0..(n - 1)
<1>1. pct * (n - 1) \in Nat
  OBVIOUS
<1>2. Rounded(pct * (n - 1)) \in Nat
  BY <1>1, RoundedNear
<1> QED
  BY <1>2 DEF Rank

(* The percentiles are in order: whatever the window holds, the panel      *)
(* never shows a p50 above the p95, or a p95 above the p99.                *)
THEOREM PercentilesInOrder ==
  ASSUME NEW n \in Nat \ {0}
  PROVE  Rank(50, n) <= Rank(95, n) /\ Rank(95, n) <= Rank(99, n)
<1>1. /\ 50 * (n - 1) \in Nat /\ 95 * (n - 1) \in Nat /\ 99 * (n - 1) \in Nat
      /\ 50 * (n - 1) <= 95 * (n - 1) /\ 95 * (n - 1) <= 99 * (n - 1)
  OBVIOUS
<1>2. /\ Rounded(50 * (n - 1)) <= Rounded(95 * (n - 1))
      /\ Rounded(95 * (n - 1)) <= Rounded(99 * (n - 1))
  BY <1>1, RoundedMonotone
<1>3. /\ Rounded(50 * (n - 1)) \in Nat /\ Rounded(95 * (n - 1)) \in Nat
      /\ Rounded(99 * (n - 1)) \in Nat
  BY <1>1, RoundedNear
<1> QED
  BY <1>2, <1>3 DEF Rank

(* "Nearest-rank percentile": the position is that of the nearest rank or  *)
(* a neighbour of it, so the latency shown is off by one sample at most.   *)
THEOREM RankNearNearest ==
  ASSUME NEW n \in Nat \ {0}, NEW pct \in {50, 95, 99}
  PROVE  /\ Rank(pct, n) <= NearestRank(pct, n) + 1
         /\ NearestRank(pct, n) <= Rank(pct, n) + 1
<1> DEFINE r == Rounded(pct * (n - 1))
<1>1. pct * (n - 1) \in Nat
  OBVIOUS
<1>2. r \in Nat /\ 100 * r <= pct * (n - 1) + 50 /\ pct * (n - 1) <= 100 * r + 50
  BY <1>1, RoundedNear
<1>3. Rank(pct, n) = IF r > n - 1 THEN n - 1 ELSE r
  BY <1>2 DEF Rank
<1> HIDE DEF r
<1> QED
  BY <1>2, <1>3 DEF NearestRank

(* So of any sorted window the three latencies shown are in order, and the *)
(* maximum beside them is the greatest.                                    *)
THEOREM LatenciesInOrder ==
  ASSUME NEW window \in Seq(Nat), window # <<>>,
         \A i, j \in 1..Len(window) : i <= j => window[i] <= window[j]
  PROVE  /\ Metric!PercentileOf(window, 50) <= Metric!PercentileOf(window, 95)
         /\ Metric!PercentileOf(window, 95) <= Metric!PercentileOf(window, 99)
         /\ Metric!PercentileOf(window, 99) <= window[Len(window)]
<1> DEFINE n == Len(window)
<1>1. n \in Nat \ {0}
  OBVIOUS
<1>2. \A pct \in {50, 95, 99} : Metric!PercentileOf(window, pct) = window[Rank(pct, n) + 1]
  BY DEF Metric!PercentileOf, Metric!Rank, Metric!Rounded, Rank, Rounded
<1>3. /\ Rank(50, n) + 1 \in 1..n /\ Rank(95, n) + 1 \in 1..n /\ Rank(99, n) + 1 \in 1..n
      /\ Rank(50, n) + 1 <= Rank(95, n) + 1 /\ Rank(95, n) + 1 <= Rank(99, n) + 1
      /\ Rank(99, n) + 1 <= n /\ n \in 1..n
  <2> HIDE DEF n
  <2>1. /\ Rank(50, n) \in 0..(n - 1) /\ Rank(95, n) \in 0..(n - 1) /\ Rank(99, n) \in 0..(n - 1)
    BY <1>1, RankInRange
  <2>2. Rank(50, n) <= Rank(95, n) /\ Rank(95, n) <= Rank(99, n)
    BY <1>1, PercentilesInOrder
  <2> QED
    BY <1>1, <2>1, <2>2
<1> QED
  BY <1>2, <1>3
================================================================================
