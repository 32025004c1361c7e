-------------------------- MODULE SuggestionTrieProofs --------------------------
(***************************************************************************)
(* That the lists of the trie are what lookups take them for, for every    *)
(* set of queries, every capacity and every sequence of offers with        *)
(* growing counts.                                                         *)
(*                                                                         *)
(* The lists are kept by offers alone, so the invariant has to say which   *)
(* of several queries with the same count is in a full list.  It is the    *)
(* one that reached its count first: the lists of all nodes are the first  *)
(* NodeCap of one and the same order, by count and then by the time of the *)
(* last offer (seniority).  From this follow the three properties.         *)
(***************************************************************************)
EXTENDS SuggestionTrie, Integers, FiniteSetTheorems, SequenceTheorems, TLAPS

--------------------------------------------------------------------------------
(* Induction over the numbers, for the loop of bulk_insert().              *)

Less == {ss \in Nat \X Nat : ss[1] < ss[2]}

LEMMA LeastNat ==
  ASSUME NEW S \in SUBSET Nat, S # {}
  PROVE  \E m \in S : \A k \in S : m <= k
<1>1. IsWellFoundedOn(Less, Nat)
  BY NatLessThanWellFounded DEF OpToRel, Less
<1>2. \E x \in S : \A y \in S : ~(<<y, x>> \in Less)
  BY <1>1, WFMin
<1>3. \A x, y \in Nat : <<y, x>> \in Less <=> y < x
  BY DEF Less
<1>4. PICK x \in S : \A y \in S : ~(<<y, x>> \in Less)
  BY <1>2
<1>5. \A y \in S : x <= y
  <2> TAKE y \in S
  <2>1. <<y, x>> \notin Less
    BY <1>4
  <2>2. x \in Nat /\ y \in Nat
    OBVIOUS
  <2>3. ~(y < x)
    BY <1>3, <2>1, <2>2
  <2> QED
    BY <2>2, <2>3
<1> QED
  BY <1>5

LEMMA UpTo ==
  ASSUME NEW n \in Nat, NEW S, 0 \in S, \A m \in 0..(n - 1) : m \in S => m + 1 \in S
  PROVE  0..n \subseteq S
<1> SUFFICES ASSUME (0..n) \ S # {} PROVE FALSE
  OBVIOUS
<1>1. PICK m \in (0..n) \ S : \A k \in (0..n) \ S : m <= k
  <2> DEFINE T == (0..n) \ S
  <2>1. T \in SUBSET Nat /\ T # {}
    OBVIOUS
  <2> HIDE DEF T
  <2>2. \E m \in T : \A k \in T : m <= k
    BY <2>1, LeastNat
  <2> QED
    BY <2>2 DEF T
<1>2. m # 0 /\ m - 1 \in 0..(n - 1) /\ m - 1 \in S
  BY <1>1
<1> QED
  BY <1>1, <1>2

(* A recursive function over 0..n exists. *)
Unrolls(g, X, base, n, step) ==
  g \in [0..n -> X] /\ g[0] = base /\ \A m \in 1..n : g[m] = step[<<m, g[m - 1]>>]

LEMMA Recursion ==
  ASSUME NEW X, NEW base \in X, NEW n \in Nat, NEW step \in [(1..n) \X X -> X]
  PROVE  \E g : Unrolls(g, X, base, n, step)
<1> DEFINE Good(g, k) == g[0] = base /\ \A m \in 1..k : g[m] = step[<<m, g[m - 1]>>]
           S == {k \in 0..n : \E g \in [0..k -> X] : Good(g, k)}
<1>1. 0 \in S
  <2> DEFINE g0 == [i \in 0..0 |-> base]
  <2>1. g0 \in [0..0 -> X] /\ Good(g0, 0) /\ 0 \in 0..n
    OBVIOUS
  <2> HIDE DEF g0, Good
  <2> QED
    BY <2>1
<1>2. ASSUME NEW k \in 0..(n - 1), k \in S PROVE k + 1 \in S
  <2>1. PICK g \in [0..k -> X] : Good(g, k)
    BY <1>2
  <2> DEFINE h == [i \in 0..(k + 1) |-> IF i = k + 1 THEN step[<<k + 1, g[k]>>] ELSE g[i]]
  <2>2. k \in Nat /\ k + 1 \in 1..n /\ g[k] \in X
    BY <2>1
  <2>3. step[<<k + 1, g[k]>>] \in X
    BY <2>2
  <2>4. h \in [0..(k + 1) -> X]
    BY <2>2, <2>3
  <2>5. /\ h[0] = g[0] /\ h[k + 1] = step[<<k + 1, g[k]>>]
        /\ \A i \in 0..k : h[i] = g[i]
    BY <2>2
  <2> HIDE DEF h
  <2>6. ASSUME NEW m \in 1..(k + 1) PROVE h[m] = step[<<m, h[m - 1]>>]
    <3>1. CASE m = k + 1
      <4>1. m - 1 = k /\ k \in 0..k
        BY <2>2, <3>1
      <4> QED
        BY <2>5, <3>1, <4>1
    <3>2. CASE m # k + 1
      <4>1. m \in 1..k /\ m - 1 \in 0..k /\ m \in 0..k
        BY <2>2, <3>2
      <4> QED
        BY <2>1, <2>5, <4>1
    <3> QED
      BY <3>1, <3>2
  <2>7. Good(h, k + 1)
    BY <2>1, <2>5, <2>6
  <2> QED
    BY <2>2, <2>4, <2>7
<1>3. n \in S
  <2> HIDE DEF S
  <2>1. 0..n \subseteq S
    BY <1>1, <1>2, UpTo
  <2> QED
    BY <2>1
<1> QED
  BY <1>3 DEF Unrolls

(* The loop of bulk_insert() makes one offer after the other. *)
LEMMA OfferAllLoops ==
  ASSUME NEW X, NEW t \in X, NEW f, NEW order, Len(order) \in Nat,
         \A u \in X, n \in 1..Len(order) : WalkOffer(u, order[n], f[order[n]]) \in X
  PROVE  \E after \in [0..Len(order) -> X] :
           /\ after[0] = t /\ OfferAll(t, f, order) = after[Len(order)]
           /\ \A n \in 1..Len(order) : after[n] = WalkOffer(after[n - 1], order[n], f[order[n]])
<1> DEFINE N == Len(order)
           Body(g) == [n \in 0..N |->
                         IF n = 0 THEN t ELSE WalkOffer(g[n - 1], order[n], f[order[n]])]
           step == [a \in (1..N) \X X |-> WalkOffer(a[2], order[a[1]], f[order[a[1]]])]
           after == CHOOSE g : g = Body(g)
<1>1. OfferAll(t, f, order) = after[N]
  BY Zenon DEF OfferAll
<1>2. step \in [(1..N) \X X -> X]
  <2>1. \A a \in (1..N) \X X : WalkOffer(a[2], order[a[1]], f[order[a[1]]]) \in X
    OBVIOUS
  <2> QED
    BY <2>1
<1>3. PICK g \in [0..N -> X] : g[0] = t /\ \A n \in 1..N : g[n] = step[<<n, g[n - 1]>>]
  <2>1. N \in Nat
    OBVIOUS
  <2> HIDE DEF N, step
  <2>2. \E g : Unrolls(g, X, t, N, step)
    BY <1>2, <2>1, Recursion
  <2> QED
    BY <2>2 DEF Unrolls
<1>4. \A n \in 1..N : g[n] = WalkOffer(g[n - 1], order[n], f[order[n]])
  <2> TAKE n \in 1..N
  <2>1. g[n - 1] \in X
    BY <1>3
  <2>2. <<n, g[n - 1]>> \in (1..N) \X X
    BY <2>1
  <2>3. step[<<n, g[n - 1]>>] = WalkOffer(g[n - 1], order[n], f[order[n]])
    BY <2>2
  <2> QED
    BY <1>3, <2>3
<1>5. g = Body(g)
  BY <1>3, <1>4
<1>6. after = Body(after)
  <2> HIDE DEF Body
  <2> QED
    BY <1>5
<1> HIDE DEF after
<1>7. after[0] = t /\ \A n \in 1..N : after[n] = WalkOffer(after[n - 1], order[n], f[order[n]])
  BY <1>6
<1>8. after \in [0..N -> X]
  <2> DEFINE S == {n \in 0..N : after[n] \in X}
  <2>1. 0 \in S
    BY <1>7
  <2>2. ASSUME NEW m \in 0..(N - 1), m \in S PROVE m + 1 \in S
    <3>1. m + 1 \in 1..N /\ (m + 1) - 1 = m /\ m + 1 \in 0..N
      OBVIOUS
    <3>2. after[m + 1] = WalkOffer(after[m], order[m + 1], f[order[m + 1]])
      BY <1>7, <3>1
    <3> QED
      BY <2>2, <3>1, <3>2
  <2>3. 0..N \subseteq S
    <3> HIDE DEF S
    <3> QED
      BY <2>1, <2>2, UpTo
  <2>4. after = [n \in 0..N |-> after[n]]
    BY <1>6
  <2> QED
    BY <2>3, <2>4
<1> QED
  BY <1>1, <1>7, <1>8

--------------------------------------------------------------------------------
(* Sorting.                                                                *)

(* Entry i stands before entry j once a list is sorted by score. *)
First(score, i, j) == score[i] > score[j] \/ (score[i] = score[j] /\ i < j)

Permuted(score, list, w, T) ==
  /\ w \in Seq(T) /\ Len(w) = Len(list)
  /\ \E perm \in [DOMAIN list -> DOMAIN list] :
       /\ \A k \in DOMAIN list : w[k] = list[perm[k]]
       /\ \A k, l \in DOMAIN list : k < l => First(score, perm[k], perm[l])
       /\ \A i \in DOMAIN list : \E k \in DOMAIN list : perm[k] = i

(* list.sort() is a permutation in that order, whatever the list holds. *)
LEMMA SortedByPermutes ==
  ASSUME NEW T, NEW list \in Seq(T), NEW score \in [DOMAIN list -> Nat]
  PROVE  Permuted(score, list, SortedBy(score, list), T)
<1> DEFINE n == Len(list)
           D == DOMAIN list
           Ahead(i) == {j \in D : j = i \/ First(score, j, i)}
           rank == [i \in D |-> Rank(score, i)]
<1>1. n \in Nat /\ D = 1..n /\ \A i \in D : list[i] \in T /\ score[i] \in Nat
  BY ElementOfSeq
<1>2. IsFiniteSet(D) /\ Cardinality(D) = n
  <2> HIDE DEF n
  <2>1. IsFiniteSet(1..n) /\ Cardinality(1..n) = n
    BY <1>1, FS_Interval
  <2> QED
    BY <1>1, <2>1
<1>3. \A i \in D : Rank(score, i) = Cardinality(Ahead(i))
  <2> TAKE i \in D
  <2>1. Ahead(i) = {j \in D : score[j] > score[i] \/ (score[j] = score[i] /\ j <= i)}
    BY <1>1 DEF First
  <2> HIDE DEF Ahead
  <2> QED
    BY <2>1 DEF Rank
<1>4. \A i \in D : i \in Ahead(i) /\ Ahead(i) \subseteq D
  OBVIOUS
<1>5. \A i, j \in D : i # j => First(score, i, j) \/ First(score, j, i)
  BY <1>1 DEF First
<1>6. \A i, j \in D : First(score, i, j) => Ahead(i) \subseteq Ahead(j) /\ j \notin Ahead(i)
  BY <1>1 DEF First
<1> HIDE DEF Ahead, D, n
<1>7. \A i \in D : Rank(score, i) \in 1..n
  <2> TAKE i \in D
  <2>1. IsFiniteSet(Ahead(i)) /\ Cardinality(Ahead(i)) <= n
    BY <1>2, <1>4, FS_Subset
  <2>2. Cardinality(Ahead(i)) \in Nat /\ Cardinality(Ahead(i)) # 0
    BY <1>4, <2>1, FS_CardinalityType, FS_EmptySet
  <2> QED
    BY <1>1, <1>3, <2>1, <2>2
<1>8. \A i, j \in D : First(score, i, j) => Rank(score, i) < Rank(score, j)
  <2> SUFFICES ASSUME NEW i \in D, NEW j \in D, First(score, i, j)
               PROVE  Rank(score, i) < Rank(score, j)
    OBVIOUS
  <2>1. IsFiniteSet(Ahead(j))
    BY <1>2, <1>4, FS_Subset
  <2>2. Cardinality(Ahead(i)) <= Cardinality(Ahead(j))
        /\ (Cardinality(Ahead(j)) = Cardinality(Ahead(i)) => Ahead(j) = Ahead(i))
    BY <1>6, <2>1, FS_Subset
  <2>3. Ahead(j) # Ahead(i)
    BY <1>4, <1>6
  <2> QED
    BY <1>3, <1>7, <2>2, <2>3
<1>9. \A i, j \in D : Rank(score, i) = Rank(score, j) => i = j
  BY <1>5, <1>7, <1>8
<1>10. rank \in Injection(D, D)
  BY <1>1, <1>7, <1>9 DEF Injection, IsInjective
<1>11. rank \in Surjection(D, D)
  BY <1>2, <1>10, FS_Injection
<1>12. \A k \in D : \E i \in D : Rank(score, i) = k
  BY <1>11 DEF Surjection
<1> DEFINE perm == [k \in D |-> CHOOSE i \in D : Rank(score, i) = k]
<1>13. perm \in [D -> D] /\ \A k \in D : Rank(score, perm[k]) = k
  BY <1>12
<1>14. SortedBy(score, list) = [k \in D |-> list[perm[k]]]
  BY DEF SortedBy, D
<1> HIDE DEF perm
<1>15. SortedBy(score, list) \in Seq(T) /\ Len(SortedBy(score, list)) = n
  <2>1. \A k \in 1..n : list[perm[k]] \in T
    BY <1>1, <1>13
  <2>2. SortedBy(score, list) \in [1..n -> T]
    BY <1>1, <1>14, <2>1
  <2> QED
    BY <1>1, <2>2
<1>16. \A k, l \in D : k < l => First(score, perm[k], perm[l])
  <2> SUFFICES ASSUME NEW k \in D, NEW l \in D, k < l PROVE First(score, perm[k], perm[l])
    OBVIOUS
  <2>1. perm[k] # perm[l] /\ ~First(score, perm[l], perm[k])
    BY <1>1, <1>8, <1>13
  <2> QED
    BY <1>5, <1>13, <2>1
<1>17. \A i \in D : \E k \in D : perm[k] = i
  <2> TAKE i \in D
  <2>1. Rank(score, i) \in D /\ Rank(score, perm[Rank(score, i)]) = Rank(score, i)
    BY <1>1, <1>7, <1>13
  <2>2. perm[Rank(score, i)] = i
    BY <1>9, <1>13, <2>1
  <2> QED
    BY <2>1, <2>2
<1>18. \A k \in D : SortedBy(score, list)[k] = list[perm[k]]
  BY <1>14
<1> QED
  BY <1>13, <1>15, <1>16, <1>17, <1>18 DEF Permuted, D, n

(* Entry i stands before entry j once list is sorted. *)
Before(list, i, j) ==
  list[i].count > list[j].count \/ (list[i].count = list[j].count /\ i < j)

LEMMA SortedProperties ==
  ASSUME NEW list \in Seq(Entry)
  PROVE  /\ Sorted(list) \in Seq(Entry) /\ Len(Sorted(list)) = Len(list)
         /\ \E perm \in [DOMAIN list -> DOMAIN list] :
              /\ \A k \in DOMAIN list : Sorted(list)[k] = list[perm[k]]
              /\ \A k, l \in DOMAIN list : k < l => Before(list, perm[k], perm[l])
              /\ \A i \in DOMAIN list : \E k \in DOMAIN list : perm[k] = i
<1> DEFINE score == [i \in DOMAIN list |-> list[i].count]
<1>1. score \in [DOMAIN list -> Nat]
  <2>1. \A i \in DOMAIN list : list[i] \in Entry
    BY ElementOfSeq
  <2> QED
    BY <2>1 DEF Entry
<1>2. Sorted(list) = SortedBy(score, list)
  BY DEF Sorted
<1>3. \A i, j \in DOMAIN list : First(score, i, j) <=> Before(list, i, j)
  BY DEF First, Before
<1> HIDE DEF score
<1>4. Permuted(score, list, SortedBy(score, list), Entry)
  BY <1>1, SortedByPermutes
<1>5. PICK perm \in [DOMAIN list -> DOMAIN list] :
        /\ \A k \in DOMAIN list : SortedBy(score, list)[k] = list[perm[k]]
        /\ \A k, l \in DOMAIN list : k < l => First(score, perm[k], perm[l])
        /\ \A i \in DOMAIN list : \E k \in DOMAIN list : perm[k] = i
  BY <1>4 DEF Permuted
<1>6. \A k, l \in DOMAIN list : k < l => Before(list, perm[k], perm[l])
  BY <1>3, <1>5
<1>7. Sorted(list) \in Seq(Entry) /\ Len(Sorted(list)) = Len(list)
  BY <1>2, <1>4 DEF Permuted
<1>8. /\ \A k \in DOMAIN list : Sorted(list)[k] = list[perm[k]]
      /\ \A k, l \in DOMAIN list : k < l => Before(list, perm[k], perm[l])
      /\ \A i \in DOMAIN list : \E k \in DOMAIN list : perm[k] = i
  BY <1>2, <1>5, <1>6
<1> QED
  BY <1>7, <1>8, Zenon

--------------------------------------------------------------------------------
(* Prefixes.                                                               *)

LEMMA PrefixElements ==
  ASSUME NEW A, NEW B, NEW s \in Seq(A), NEW t \in Seq(B)
  PROVE  IsPrefix(s, t) <=> Len(s) <= Len(t) /\ \A i \in 1..Len(s) : s[i] = t[i]
<1> SUFFICES ASSUME Len(s) <= Len(t)
             PROVE  SubSeq(s, 1, Len(s)) = SubSeq(t, 1, Len(s)) <=> \A i \in 1..Len(s) : s[i] = t[i]
  BY DEF IsPrefix
<1> DEFINE n == Len(s)
<1>1. n \in Nat /\ Len(t) \in Nat /\ n <= Len(t)
  OBVIOUS
<1>2. SubSeq(s, 1, n) = [i \in 1..n |-> s[i]]
  BY <1>1
<1>3. SubSeq(t, 1, n) = [i \in 1..n |-> t[i]]
  BY <1>1
<1> HIDE DEF n
<1>4. [i \in 1..n |-> s[i]] = [i \in 1..n |-> t[i]] <=> \A i \in 1..n : s[i] = t[i]
  <2> DEFINE a == [i \in 1..n |-> s[i]]
             b == [i \in 1..n |-> t[i]]
  <2>1. \A i \in 1..n : a[i] = s[i] /\ b[i] = t[i]
    OBVIOUS
  <2>2. a = b => \A i \in 1..n : s[i] = t[i]
    <3> HIDE DEF a, b
    <3> QED
      BY <2>1
  <2> QED
    BY <2>2
<1> QED
  BY <1>2, <1>3, <1>4 DEF n

LEMMA QueryIsSequence == \A q \in Queries : q \in Seq(Range(q))
  BY TrieAssumption

LEMMA PathIsSequence == \A p \in Paths : \E A : p \in Seq(A)
<1> TAKE p \in Paths
<1>0. PICK q \in Queries : p \in Prefixes(q)
  BY DEF Paths
<1>1. PICK l \in 0..Len(q) : p = SubSeq(q, 1, l)
  BY <1>0 DEF Prefixes
<1>2. q \in Seq(Range(q))
  BY QueryIsSequence
<1> DEFINE A == Range(q)
<1>3. q \in Seq(A)
  BY <1>2
<1> HIDE DEF A
<1>4. p \in Seq(A)
  BY <1>1, <1>3, SubSeqProperties
<1> QED
  BY <1>4

LEMMA PrefixTransitive ==
  ASSUME NEW p \in Paths, NEW r \in Paths, NEW q \in Queries, IsPrefix(p, r), IsPrefix(r, q)
  PROVE  IsPrefix(p, q)
<1>1. PICK A : p \in Seq(A)
  BY PathIsSequence
<1>2. PICK B : r \in Seq(B)
  BY PathIsSequence
<1> DEFINE C == Range(q)
<1>3. q \in Seq(C)
  BY QueryIsSequence
<1> HIDE DEF C
<1>4. Len(p) <= Len(r) /\ \A i \in 1..Len(p) : p[i] = r[i]
  BY <1>1, <1>2, PrefixElements
<1>5. Len(r) <= Len(q) /\ \A i \in 1..Len(r) : r[i] = q[i]
  BY <1>2, <1>3, PrefixElements
<1>6. Len(p) \in Nat /\ Len(r) \in Nat /\ Len(q) \in Nat
  BY <1>1, <1>2, <1>3
<1>7. Len(p) <= Len(q) /\ \A i \in 1..Len(p) : p[i] = q[i]
  BY <1>4, <1>5, <1>6
<1> QED
  BY <1>1, <1>3, <1>7, PrefixElements

--------------------------------------------------------------------------------
(* One list.                                                               *)

Below(f, p) == {q \in DOMAIN f : IsPrefix(p, q)}
QueriesOf(list) == {list[i].query : i \in DOMAIN list}

LEMMA SameQueries ==
  ASSUME NEW v, NEW w, DOMAIN v = DOMAIN w, \A i \in DOMAIN v : v[i].query = w[i].query
  PROVE  QueriesOf(v) = QueriesOf(w)
<1>1. QueriesOf(v) = {w[i].query : i \in DOMAIN v}
  BY DEF QueriesOf
<1> QED
  BY <1>1 DEF QueriesOf

(* x comes before y, by counts f and, among equals, by seniority s. *)
Ahead(f, s, x, y) == f[x] > f[y] \/ (f[x] = f[y] /\ s[x] < s[y])

(* list has the first NodeCap completions of p in that order. *)
BestList(f, s, p, list) ==
  /\ list \in Seq(Entry) /\ Len(list) <= NodeCap
  /\ \A i \in DOMAIN list : list[i].query \in Below(f, p) /\ list[i].count = f[list[i].query]
  /\ \A i, j \in DOMAIN list : i < j => Ahead(f, s, list[i].query, list[j].query)
  /\ \A q \in Below(f, p) \ QueriesOf(list) :
       Len(list) = NodeCap /\ \A i \in DOMAIN list : Ahead(f, s, list[i].query, q)

(* It is enough to have them in a list that sorts that way. *)
SortsToBest(f, s, p, w) ==
  /\ w \in Seq(Entry) /\ Len(w) <= NodeCap
  /\ \A i \in DOMAIN w : w[i].query \in Below(f, p) /\ w[i].count = f[w[i].query]
  /\ \A i, j \in DOMAIN w : Before(w, i, j) => Ahead(f, s, w[i].query, w[j].query)
  /\ \A q \in Below(f, p) \ QueriesOf(w) :
       Len(w) = NodeCap /\ \A i \in DOMAIN w : Ahead(f, s, w[i].query, q)

LEMMA SortedIsBest ==
  ASSUME NEW f, NEW s, NEW p, NEW w, SortsToBest(f, s, p, w)
  PROVE  BestList(f, s, p, Sorted(w)) /\ QueriesOf(Sorted(w)) = QueriesOf(w)
<1> USE DEF SortsToBest
<1> DEFINE v == Sorted(w)
<1>1. v \in Seq(Entry) /\ Len(v) = Len(w) /\ DOMAIN v = DOMAIN w
  BY SortedProperties
<1>2. PICK perm \in [DOMAIN w -> DOMAIN w] :
        /\ \A k \in DOMAIN w : v[k] = w[perm[k]]
        /\ \A k, l \in DOMAIN w : k < l => Before(w, perm[k], perm[l])
        /\ \A i \in DOMAIN w : \E k \in DOMAIN w : perm[k] = i
  BY SortedProperties
<1> HIDE DEF v
<1>3. QueriesOf(v) = QueriesOf(w)
  <2>1. \A k \in DOMAIN v : \E i \in DOMAIN w : v[k].query = w[i].query
    BY <1>1, <1>2
  <2>2. \A i \in DOMAIN w : \E k \in DOMAIN v : v[k].query = w[i].query
    BY <1>1, <1>2
  <2> QED
    BY <2>1, <2>2 DEF QueriesOf
<1>4. \A i \in DOMAIN v : v[i].query \in Below(f, p) /\ v[i].count = f[v[i].query]
  BY <1>1, <1>2
<1>5. \A i, j \in DOMAIN v : i < j => Ahead(f, s, v[i].query, v[j].query)
  <2> SUFFICES ASSUME NEW i \in DOMAIN w, NEW j \in DOMAIN w, i < j
               PROVE  Ahead(f, s, v[i].query, v[j].query)
    BY <1>1
  <2>1. Before(w, perm[i], perm[j]) /\ perm[i] \in DOMAIN w /\ perm[j] \in DOMAIN w
    BY <1>2
  <2>2. Ahead(f, s, w[perm[i]].query, w[perm[j]].query)
    BY <2>1
  <2> QED
    BY <1>2, <2>2
<1>6. \A q \in Below(f, p) \ QueriesOf(v) :
        Len(v) = NodeCap /\ \A i \in DOMAIN v : Ahead(f, s, v[i].query, q)
  BY <1>1, <1>2, <1>3
<1> QED
  BY <1>1, <1>3, <1>4, <1>5, <1>6 DEF BestList, v

(* f with the new value c for q. *)
Grown(f, q, c) == [r \in DOMAIN f \cup {q} |-> IF r = q THEN c ELSE f[r]]

(* A list that has not reached NodeCap has all there is. *)
LEMMA NotFullIsAll ==
  ASSUME NEW f, NEW s, NEW p, NEW list, BestList(f, s, p, list), Len(list) < NodeCap
  PROVE  Below(f, p) \subseteq QueriesOf(list)
BY DEF BestList

(* An offer of a query with a greater count than before keeps the list the *)
(* best one, with the query the youngest among its equals; and it takes    *)
(* out no query but one with a smaller count, for the one that is offered. *)
LEMMA OfferKeepsBest ==
  ASSUME NEW D \in SUBSET Queries, NEW f \in [D -> Nat], NEW m \in Nat, NEW s \in [D -> 0..m],
         NEW p, NEW list, BestList(f, s, p, list),
         NEW q \in Queries, IsPrefix(p, q), NEW c \in Nat, q \in D => c > f[q]
  PROVE  /\ BestList(Grown(f, q, c), Grown(s, q, m + 1), p, Offer(list, q, c))
         /\ \A r \in QueriesOf(list) \ QueriesOf(Offer(list, q, c)) :
              q \notin QueriesOf(list) /\ q \in QueriesOf(Offer(list, q, c)) /\ c > f[r]
<1> DEFINE n == Len(list)
           e == [query |-> q, count |-> c]
           g == Grown(f, q, c)
           z == Grown(s, q, m + 1)
<1>0. /\ g = [r \in D \cup {q} |-> IF r = q THEN c ELSE f[r]]
      /\ z = [r \in D \cup {q} |-> IF r = q THEN m + 1 ELSE s[r]]
  BY DEF Grown
<1> HIDE DEF g, z
<1>1. /\ list \in Seq(Entry) /\ n \in Nat /\ n <= NodeCap /\ DOMAIN list = 1..n
      /\ \A i \in 1..n : list[i] \in Entry /\ list[i].query \in D /\ list[i].count = f[list[i].query]
      /\ \A i \in 1..n : IsPrefix(p, list[i].query)
      /\ \A i, j \in 1..n : i < j => Ahead(f, s, list[i].query, list[j].query)
      /\ NodeCap \in Nat \ {0}
  <2>1. list \in Seq(Entry) /\ n <= NodeCap
    BY DEF BestList
  <2>2. n \in Nat /\ DOMAIN list = 1..n /\ \A i \in 1..n : list[i] \in Entry
    BY <2>1, ElementOfSeq
  <2>3. DOMAIN f = D
    OBVIOUS
  <2>4. \A i \in 1..n : /\ list[i].query \in D /\ list[i].count = f[list[i].query]
                        /\ IsPrefix(p, list[i].query)
    BY <2>2, <2>3 DEF BestList, Below
  <2> QED
    BY <2>1, <2>2, <2>4, TrieAssumption DEF BestList
<1>2. e \in Entry /\ e.query = q /\ e.count = c
  BY DEF Entry
<1>3. Below(g, p) = Below(f, p) \cup {q}
  BY <1>0 DEF Below
<1>4. /\ \A r \in D : f[r] \in Nat /\ s[r] \in Nat /\ s[r] < m + 1
      /\ g[q] = c /\ z[q] = m + 1
      /\ \A r \in D : r # q => g[r] = f[r] /\ z[r] = s[r]
  BY <1>0
<1>5. \A x, y \in D : x # q /\ y # q => (Ahead(g, z, x, y) <=> Ahead(f, s, x, y))
  BY <1>4 DEF Ahead
<1>6. \A x \in D : x # q => /\ c > f[x] => Ahead(g, z, q, x)
                            /\ f[x] >= c => Ahead(g, z, x, q)
  BY <1>4 DEF Ahead
<1>7. \A x, y \in D : Ahead(f, s, x, y) => f[x] >= f[y] /\ x # y
  BY <1>4 DEF Ahead
<1>8. \A x \in D : x \in Below(f, p) <=> IsPrefix(p, x)
  BY DEF Below
<1>9. Below(f, p) \subseteq D
  BY DEF Below
<1>10. \A i, j \in 1..n : Before(list, i, j) => Ahead(f, s, list[i].query, list[j].query)
  <2> SUFFICES ASSUME NEW i \in 1..n, NEW j \in 1..n, Before(list, i, j)
               PROVE  Ahead(f, s, list[i].query, list[j].query)
    OBVIOUS
  <2>1. list[i].count = f[list[i].query] /\ list[j].count = f[list[j].query]
    BY <1>1
  <2>2. CASE list[i].count > list[j].count
    BY <2>1, <2>2 DEF Ahead
  <2>3. CASE list[i].count = list[j].count /\ i < j
    BY <1>1, <2>3
  <2> QED
    BY <2>2, <2>3 DEF Before
<1>11. \A i, j \in 1..n : list[i].query = list[j].query => i = j
  <2> SUFFICES ASSUME NEW i \in 1..n, NEW j \in 1..n, i # j PROVE list[i].query # list[j].query
    OBVIOUS
  <2>1. i < j \/ j < i
    OBVIOUS
  <2> QED
    BY <1>1, <1>7, <2>1
<1>12. \A r \in Below(f, p) \ QueriesOf(list) :
         n = NodeCap /\ \A i \in 1..n : Ahead(f, s, list[i].query, r)
  BY <1>1 DEF BestList
<1> HIDE DEF n, e
<1>13. CASE Holds(list, q)
  <2> DEFINE k == Place(list, q)
             w == ReplaceAt(list, k, e)
  <2>1. k \in 1..n /\ list[k].query = q
    BY <1>1, <1>13 DEF Holds, Place
  <2>2. Offer(list, q, c) = Sorted(w)
    BY <1>13, <1>2 DEF Offer, Updated, e
  <2> HIDE DEF k
  <2>3. /\ w \in Seq(Entry) /\ Len(w) = n /\ DOMAIN w = 1..n
        /\ w[k] = e /\ \A i \in 1..n : i # k => w[i] = list[i] /\ w[i].query # q
    BY <1>1, <1>2, <1>11, <2>1 DEF ReplaceAt, n
  <2> HIDE DEF w
  <2>4. q \in D /\ c > f[q]
    BY <1>1, <2>1
  <2>5. \A i \in 1..n : w[i].query = list[i].query
    BY <1>2, <2>1, <2>3
  <2>6. QueriesOf(w) = QueriesOf(list)
    BY <1>1, <2>3, <2>5, SameQueries
  <2>7. \A i \in DOMAIN w : w[i].query \in Below(g, p) /\ w[i].count = g[w[i].query]
    BY <1>1, <1>2, <1>3, <1>4, <1>8, <2>1, <2>3, <2>5
  <2>8. ASSUME NEW i \in DOMAIN w, NEW j \in DOMAIN w, Before(w, i, j)
        PROVE  Ahead(g, z, w[i].query, w[j].query)
    <3>1. i \in 1..n /\ j \in 1..n /\ w[i].query \in D /\ w[j].query \in D
      BY <1>1, <2>3, <2>5
    <3>2. CASE i # k /\ j # k
      <4>1. Before(list, i, j)
        BY <2>3, <2>8, <3>1, <3>2 DEF Before
      <4> QED
        BY <1>1, <1>5, <1>10, <2>3, <3>1, <3>2, <4>1
    <3>3. CASE i = k /\ j # k
      <4>1. w[j].count = f[w[j].query] /\ w[i].count = c /\ w[i].query = q /\ w[j].query # q
        BY <1>1, <1>2, <2>3, <3>1, <3>3
      <4>2. CASE c > f[w[j].query]
        BY <1>6, <3>1, <4>1, <4>2
      <4>3. CASE c = f[w[j].query] /\ i < j
        <5>1. Ahead(f, s, q, w[j].query)
          BY <1>1, <2>1, <2>5, <3>1, <3>3, <4>3
        <5> QED
          BY <1>4, <1>7, <2>4, <3>1, <4>3, <5>1
      <4> QED
        BY <2>8, <4>1, <4>2, <4>3 DEF Before
    <3>4. CASE i # k /\ j = k
      <4>1. w[i].count = f[w[i].query] /\ w[j].count = c /\ w[j].query = q /\ w[i].query # q
        BY <1>1, <1>2, <2>3, <3>1, <3>4
      <4>2. f[w[i].query] >= c
        BY <1>4, <2>8, <3>1, <4>1 DEF Before
      <4> QED
        BY <1>6, <3>1, <4>1, <4>2
    <3>5. CASE i = k /\ j = k
      <4>1. w[i].count = c /\ i \in Nat
        BY <1>2, <2>3, <3>1, <3>5
      <4> QED
        BY <2>8, <3>5, <4>1 DEF Before
    <3> QED
      BY <3>2, <3>3, <3>4, <3>5
  <2>9. ASSUME NEW r \in Below(g, p) \ QueriesOf(w)
        PROVE  Len(w) = NodeCap /\ \A i \in DOMAIN w : Ahead(g, z, w[i].query, r)
    <3>1. q \in QueriesOf(list)
      BY <1>1, <2>1 DEF QueriesOf
    <3>2. r # q /\ r \in Below(f, p) \ QueriesOf(list) /\ r \in D
      BY <1>3, <1>9, <2>6, <2>9, <3>1
    <3>3. n = NodeCap /\ \A i \in 1..n : Ahead(f, s, list[i].query, r)
      BY <1>12, <3>2
    <3>4. ASSUME NEW i \in 1..n PROVE Ahead(g, z, w[i].query, r)
      <4>1. CASE i = k
        <5>1. Ahead(f, s, q, r) /\ w[i].query = q
          BY <2>1, <2>5, <3>3, <4>1
        <5>2. c > f[r]
          BY <1>4, <1>7, <2>4, <3>2, <5>1
        <5> QED
          BY <1>6, <3>2, <5>1, <5>2
      <4>2. CASE i # k
        BY <1>1, <1>5, <2>3, <2>5, <3>2, <3>3, <4>2
      <4> QED
        BY <4>1, <4>2
    <3> QED
      BY <2>3, <3>3, <3>4
  <2>10. Len(w) <= NodeCap
    BY <1>1, <2>3
  <2>11. SortsToBest(g, z, p, w)
    BY <2>3, <2>7, <2>8, <2>9, <2>10 DEF SortsToBest
  <2>12. BestList(g, z, p, Sorted(w)) /\ QueriesOf(Sorted(w)) = QueriesOf(w)
    BY <2>11, SortedIsBest
  <2> QED
    BY <2>2, <2>6, <2>12 DEF g, z
<1>14. ASSUME NEW N \in 1..(n + 1), N <= NodeCap, NEW w \in Seq(Entry), Len(w) = N, w[N] = e,
              \A i \in 1..(N - 1) : w[i] = list[i],
              ~Holds(list, q),
              \A r \in Below(g, p) \ QueriesOf(w) :
                N = NodeCap /\ \A i \in 1..N : Ahead(g, z, w[i].query, r)
       PROVE  /\ SortsToBest(g, z, p, w)
              /\ \A i \in 1..(N - 1) : list[i].query \in QueriesOf(w)
              /\ q \in QueriesOf(w)
  <2>1. /\ DOMAIN w = 1..N /\ N \in 1..N /\ \A i \in 1..N : i # N => i \in 1..(N - 1) /\ i \in 1..n
        /\ \A i \in 1..(N - 1) : i \in 1..n /\ i \in 1..N
    BY <1>1, <1>14 DEF n
  <2>2. \A i \in 1..n : list[i].query # q
    BY <1>1, <1>14 DEF Holds
  <2>3. \A i \in 1..N : i # N => /\ w[i] = list[i] /\ w[i].query # q /\ w[i].query \in D
                                 /\ w[i].count = f[w[i].query] /\ IsPrefix(p, w[i].query)
    BY <1>1, <1>14, <2>1, <2>2
  <2>4. \A i \in DOMAIN w : w[i].query \in Below(g, p) /\ w[i].count = g[w[i].query]
    BY <1>2, <1>3, <1>4, <1>8, <1>14, <2>1, <2>3
  <2>5. ASSUME NEW i \in DOMAIN w, NEW j \in DOMAIN w, Before(w, i, j)
        PROVE  Ahead(g, z, w[i].query, w[j].query)
    <3>1. CASE i # N /\ j # N
      <4>1. i \in 1..n /\ j \in 1..n /\ Before(list, i, j)
        BY <2>1, <2>3, <2>5, <3>1 DEF Before
      <4> QED
        BY <1>5, <1>10, <2>1, <2>3, <3>1, <4>1
    <3>2. CASE i = N /\ j # N
      <4>1. w[i].count = c /\ w[j].count = f[w[j].query] /\ ~(i < j)
        BY <1>2, <1>14, <2>1, <2>3, <3>2
      <4>2. c > f[w[j].query]
        BY <2>5, <4>1 DEF Before
      <4> QED
        BY <1>2, <1>6, <1>14, <2>1, <2>3, <3>2, <4>2
    <3>3. CASE i # N /\ j = N
      <4>1. w[i].count = f[w[i].query] /\ w[j].count = c
        BY <1>2, <1>14, <2>1, <2>3, <3>3
      <4>2. f[w[i].query] >= c
        BY <1>4, <2>1, <2>3, <2>5, <3>3, <4>1 DEF Before
      <4> QED
        BY <1>2, <1>6, <1>14, <2>1, <2>3, <3>3, <4>2
    <3>4. CASE i = N /\ j = N
      <4>1. w[i].count = c /\ ~(i < j)
        BY <1>2, <1>14, <2>1, <3>4
      <4> QED
        BY <2>5, <3>4, <4>1 DEF Before
    <3> QED
      BY <3>1, <3>2, <3>3, <3>4
  <2>6. SortsToBest(g, z, p, w)
    BY <1>14, <2>1, <2>4, <2>5 DEF SortsToBest
  <2>7. \A i \in 1..(N - 1) : list[i].query \in QueriesOf(w)
    BY <2>1, <2>3, <1>14 DEF QueriesOf
  <2>8. q \in QueriesOf(w)
    BY <1>2, <1>14, <2>1 DEF QueriesOf
  <2> QED
    BY <2>6, <2>7, <2>8
<1>15. CASE ~Holds(list, q) /\ Room(list)
  <2> DEFINE w == Append(list, e)
  <2>1. Offer(list, q, c) = Sorted(w)
    BY <1>15 DEF Offer, e
  <2>2. /\ w \in Seq(Entry) /\ Len(w) = n + 1 /\ w[n + 1] = e
        /\ \A i \in 1..n : w[i] = list[i]
    BY <1>1, <1>2, AppendProperties DEF n
  <2>3. n < NodeCap
    BY <1>15 DEF Room, n
  <2> HIDE DEF w
  <2>4. DOMAIN w = 1..(n + 1)
    BY <2>2
  <2>5. QueriesOf(w) = QueriesOf(list) \cup {q}
    <3>1. \A i \in 1..(n + 1) : i = n + 1 \/ i \in 1..n
      BY <1>1
    <3>2. \A i \in 1..(n + 1) : w[i].query \in QueriesOf(list) \cup {q}
      BY <1>1, <1>2, <2>2, <3>1 DEF QueriesOf
    <3>3. \A i \in 1..n : list[i].query \in QueriesOf(w)
      <4>1. \A i \in 1..n : i \in DOMAIN w /\ w[i].query = list[i].query
        BY <1>1, <2>2, <2>4
      <4> QED
        BY <4>1 DEF QueriesOf
    <3>4. q \in QueriesOf(w)
      <4>1. n + 1 \in DOMAIN w /\ w[n + 1].query = q
        BY <1>1, <1>2, <2>2, <2>4
      <4> QED
        BY <4>1 DEF QueriesOf
    <3> QED
      BY <1>1, <2>4, <3>2, <3>3, <3>4 DEF QueriesOf
  <2>6. Below(f, p) \subseteq QueriesOf(list)
    BY <2>3, NotFullIsAll DEF n
  <2>7. Below(g, p) \ QueriesOf(w) = {}
    BY <1>3, <2>5, <2>6
  <2>8. SortsToBest(g, z, p, w)
    <3>1. n + 1 \in 1..(n + 1) /\ n + 1 <= NodeCap /\ (n + 1) - 1 = n
      BY <1>1, <2>3
    <3>2. ~Holds(list, q)
      BY <1>15
    <3> QED
      BY <1>14, <2>2, <2>7, <3>1, <3>2
  <2>9. BestList(g, z, p, Sorted(w)) /\ QueriesOf(Sorted(w)) = QueriesOf(w)
    BY <2>8, SortedIsBest
  <2> QED
    BY <2>1, <2>5, <2>9 DEF g, z
<1>16. ASSUME ~Holds(list, q), ~Room(list)
       PROVE  n = NodeCap /\ n \in 1..n /\ n - 1 \in Nat /\ Last(list) = list[n]
  <2>1. ~(n < NodeCap)
    BY <1>16 DEF Room, n
  <2>2. n = NodeCap
    BY <1>1, <2>1
  <2>3. n \in 1..n /\ n - 1 \in Nat
    BY <1>1, <2>2
  <2> QED
    BY <2>2, <2>3 DEF Last, n
<1>17. CASE ~Holds(list, q) /\ ~Room(list) /\ Beats(c, list)
  <2> DEFINE w == ReplaceAt(list, n, e)
             y == list[n].query
  <2>1. Offer(list, q, c) = Sorted(w)
    BY <1>17 DEF Offer, e, n
  <2>2. n = NodeCap /\ n \in 1..n /\ n - 1 \in Nat /\ c > list[n].count
    BY <1>16, <1>17 DEF Beats
  <2>3. /\ w \in Seq(Entry) /\ Len(w) = n /\ w[n] = e
        /\ \A i \in 1..(n - 1) : w[i] = list[i]
    BY <1>1, <1>2, <2>2 DEF ReplaceAt, n
  <2> HIDE DEF w
  <2>4. DOMAIN w = 1..n /\ q \notin QueriesOf(list) /\ y \in D /\ c > f[y]
    BY <1>1, <1>17, <2>2, <2>3 DEF Holds, QueriesOf
  <2>5. QueriesOf(list) \subseteq QueriesOf(w) \cup {y}
    <3>1. \A i \in 1..n : i # n => i \in 1..(n - 1) /\ i \in DOMAIN w
      BY <1>1, <2>4
    <3>2. \A i \in 1..n : i # n => w[i].query = list[i].query /\ i \in DOMAIN w
      BY <2>3, <3>1
    <3>3. \A i \in 1..n : list[i].query \in QueriesOf(w) \cup {y}
      BY <3>2 DEF QueriesOf
    <3>4. \A i \in DOMAIN list : list[i].query \in QueriesOf(w) \cup {y}
      BY <1>1, <3>3
    <3> HIDE DEF y
    <3> QED
      BY <3>4 DEF QueriesOf
  <2>6. q \in QueriesOf(w)
    BY <1>2, <2>2, <2>3, <2>4 DEF QueriesOf
  <2>7. ASSUME NEW r \in Below(g, p) \ QueriesOf(w)
        PROVE  n = NodeCap /\ \A i \in 1..n : Ahead(g, z, w[i].query, r)
    <3>1. r # q /\ r \in D /\ r \in Below(f, p)
      BY <1>3, <1>9, <2>6, <2>7
    <3>2. /\ \A i \in 1..(n - 1) : Ahead(f, s, list[i].query, r)
          /\ f[y] >= f[r]
      <4>1. CASE r \in QueriesOf(list)
        <5>1. r = y
          BY <2>5, <2>7, <4>1
        <5>2. \A i \in 1..(n - 1) : i \in 1..n /\ i < n
          BY <1>1
        <5> QED
          BY <1>1, <1>4, <2>2, <3>1, <5>1, <5>2
      <4>2. CASE r \notin QueriesOf(list)
        <5>1. \A i \in 1..n : Ahead(f, s, list[i].query, r)
          BY <1>12, <3>1, <4>2
        <5>2. \A i \in 1..(n - 1) : i \in 1..n
          BY <1>1
        <5> QED
          BY <1>7, <2>2, <2>4, <3>1, <5>1, <5>2
      <4> QED
        BY <4>1, <4>2
    <3>3. c > f[r]
      BY <1>4, <2>4, <3>1, <3>2
    <3>4. ASSUME NEW i \in 1..n PROVE Ahead(g, z, w[i].query, r)
      <4>1. CASE i = n
        BY <1>2, <1>6, <2>3, <3>1, <3>3, <4>1
      <4>2. CASE i # n
        <5>1. i \in 1..(n - 1) /\ w[i] = list[i]
          BY <1>1, <2>3, <4>2
        <5>2. list[i].query # q /\ list[i].query \in D
          BY <1>1, <1>17 DEF Holds
        <5> QED
          BY <1>5, <3>1, <3>2, <5>1, <5>2
      <4> QED
        BY <4>1, <4>2
    <3> QED
      BY <2>2, <3>4
  <2>8. SortsToBest(g, z, p, w)
    <3>1. n \in 1..(n + 1) /\ n <= NodeCap /\ ~Holds(list, q)
      BY <1>1, <1>17, <2>2
    <3> QED
      BY <1>14, <2>3, <2>7, <3>1
  <2>9. BestList(g, z, p, Sorted(w)) /\ QueriesOf(Sorted(w)) = QueriesOf(w)
    BY <2>8, SortedIsBest
  <2>10. \A r \in QueriesOf(list) \ QueriesOf(w) : r = y
    BY <2>5
  <2> QED
    BY <2>1, <2>4, <2>6, <2>9, <2>10 DEF g, z
<1>18. CASE ~Holds(list, q) /\ ~Room(list) /\ ~Beats(c, list)
  <2>1. Offer(list, q, c) = list
    BY <1>18 DEF Offer
  <2>2. n = NodeCap /\ n \in 1..n /\ list[n].count >= c
    BY <1>1, <1>16, <1>18 DEF Beats, Entry
  <2>3. \A i \in 1..n : list[i].query # q /\ list[i].query \in D
    BY <1>1, <1>18 DEF Holds
  <2>4. \A i \in 1..n : f[list[i].query] >= c
    <3> TAKE i \in 1..n
    <3>1. CASE i = n
      BY <1>1, <2>2, <3>1
    <3>2. CASE i # n
      <4>1. i < n
        BY <1>1, <3>2
      <4>2. f[list[i].query] >= f[list[n].query]
        BY <1>1, <1>7, <2>2, <2>3, <4>1
      <4> QED
        BY <1>1, <1>4, <2>2, <2>3, <4>2
    <3> QED
      BY <3>1, <3>2
  <2>5. \A i \in DOMAIN list : list[i].query \in Below(g, p) /\ list[i].count = g[list[i].query]
    BY <1>1, <1>3, <1>4, <1>8, <2>3
  <2>6. \A i, j \in DOMAIN list : i < j => Ahead(g, z, list[i].query, list[j].query)
    BY <1>1, <1>5, <2>3
  <2>7. ASSUME NEW r \in Below(g, p) \ QueriesOf(list)
        PROVE  Len(list) = NodeCap /\ \A i \in DOMAIN list : Ahead(g, z, list[i].query, r)
    <3>1. CASE r = q
      BY <1>1, <1>6, <2>2, <2>3, <2>4, <3>1 DEF n
    <3>2. CASE r # q
      <4>1. r \in Below(f, p) \ QueriesOf(list) /\ r \in D
        BY <1>3, <1>9, <2>7, <3>2
      <4> QED
        BY <1>1, <1>5, <1>12, <2>2, <2>3, <3>2, <4>1 DEF n
    <3> QED
      BY <3>1, <3>2
  <2>8. BestList(g, z, p, list)
    BY <1>1, <2>5, <2>6, <2>7 DEF BestList, n
  <2> QED
    BY <2>1, <2>8 DEF g, z
<1> QED
  BY <1>13, <1>15, <1>17, <1>18

--------------------------------------------------------------------------------
(* All lists.                                                              *)

RankedBy(f, s, t) ==
  t \in [Paths -> Seq(Entry)] /\ \A p \in Paths : BestList(f, s, p, t[p])

Ranked(f, t) == \E m \in Nat : \E s \in [DOMAIN f -> 0..m] : RankedBy(f, s, t)

EmptyTrie == [p \in Paths |-> <<>>]

LEMMA EmptyRanked ==
  ASSUME NEW f, DOMAIN f = {}
  PROVE  Ranked(f, EmptyTrie)
<1>1. PICK s \in [DOMAIN f -> 0..0] : TRUE
  BY [x \in DOMAIN f |-> 0] \in [DOMAIN f -> 0..0]
<1>2. <<>> \in Seq(Entry) /\ Len(<<>>) = 0 /\ DOMAIN <<>> = {}
  OBVIOUS
<1>3. ASSUME NEW p \in Paths PROVE BestList(f, s, p, <<>>)
  BY <1>2, TrieAssumption DEF BestList, Below
<1>4. RankedBy(f, s, EmptyTrie)
  BY <1>2, <1>3 DEF RankedBy, EmptyTrie
<1> QED
  BY <1>1, <1>4 DEF Ranked

(* A list of a node that is not on the query's path. *)
LEMMA OtherListStays ==
  ASSUME NEW D \in SUBSET Queries, NEW f \in [D -> Nat], NEW m \in Nat, NEW s \in [D -> 0..m],
         NEW p, NEW list, BestList(f, s, p, list),
         NEW q \in Queries, ~IsPrefix(p, q), NEW c \in Nat
  PROVE  BestList(Grown(f, q, c), Grown(s, q, m + 1), p, list)
<1> DEFINE g == Grown(f, q, c)
           z == Grown(s, q, m + 1)
<1>0. /\ g = [r \in D \cup {q} |-> IF r = q THEN c ELSE f[r]]
      /\ z = [r \in D \cup {q} |-> IF r = q THEN m + 1 ELSE s[r]]
  BY DEF Grown
<1> HIDE DEF g, z
<1>1. Below(g, p) = Below(f, p) /\ q \notin Below(f, p) /\ Below(f, p) \subseteq D
  BY <1>0 DEF Below
<1>2. \A r \in Below(f, p) : g[r] = f[r] /\ z[r] = s[r]
  BY <1>0, <1>1
<1>3. \A x, y \in Below(f, p) : Ahead(g, z, x, y) <=> Ahead(f, s, x, y)
  BY <1>2 DEF Ahead
<1>4. \A i \in DOMAIN list : list[i].query \in Below(f, p) /\ list[i].count = f[list[i].query]
  BY DEF BestList
<1>5. \A i \in DOMAIN list : list[i].query \in Below(g, p) /\ list[i].count = g[list[i].query]
  BY <1>1, <1>2, <1>4
<1>6. \A i, j \in DOMAIN list : i < j => Ahead(g, z, list[i].query, list[j].query)
  BY <1>3, <1>4 DEF BestList
<1>7. \A r \in Below(g, p) \ QueriesOf(list) :
        Len(list) = NodeCap /\ \A i \in DOMAIN list : Ahead(g, z, list[i].query, r)
  BY <1>1, <1>3, <1>4 DEF BestList
<1> QED
  BY <1>5, <1>6, <1>7 DEF BestList, g, z

(* _walk_offer(): every list stays the best, and what goes from a list     *)
(* goes for the query that is offered, which has a greater count.          *)
LEMMA WalkOfferRanked ==
  ASSUME NEW f, DOMAIN f \subseteq Queries, f \in [DOMAIN f -> Nat], NEW t, Ranked(f, t),
         NEW q \in Queries, NEW c \in Nat, q \in DOMAIN f => c > f[q]
  PROVE  /\ Ranked(Grown(f, q, c), WalkOffer(t, q, c))
         /\ \A p \in Paths : \A r \in QueriesOf(t[p]) \ QueriesOf(WalkOffer(t, q, c)[p]) :
              /\ q \notin QueriesOf(t[p]) /\ q \in QueriesOf(WalkOffer(t, q, c)[p]) /\ c > f[r]
<1>1. PICK m \in Nat : \E s \in [DOMAIN f -> 0..m] : RankedBy(f, s, t)
  BY DEF Ranked
<1>2. PICK s \in [DOMAIN f -> 0..m] : RankedBy(f, s, t)
  BY <1>1
<1> DEFINE D == DOMAIN f
           g == Grown(f, q, c)
           z == Grown(s, q, m + 1)
           u == WalkOffer(t, q, c)
<1>3. \A p \in Paths : u[p] = IF IsPrefix(p, q) THEN Offer(t[p], q, c) ELSE t[p]
  BY DEF WalkOffer
<1>4. DOMAIN g = D \cup {q} /\ z \in [D \cup {q} -> 0..(m + 1)]
  BY DEF Grown
<1>5. D \in SUBSET Queries /\ f \in [D -> Nat] /\ s \in [D -> 0..m] /\ (q \in D => c > f[q])
  OBVIOUS
<1>6. u = [p \in Paths |-> u[p]]
  BY DEF WalkOffer
<1> HIDE DEF D, u
<1>7. ASSUME NEW p \in Paths
      PROVE  /\ BestList(g, z, p, u[p])
             /\ \A r \in QueriesOf(t[p]) \ QueriesOf(u[p]) :
                  q \notin QueriesOf(t[p]) /\ q \in QueriesOf(u[p]) /\ c > f[r]
  <2> DEFINE list == t[p]
  <2>1. BestList(f, s, p, list)
    BY <1>2 DEF RankedBy
  <2>2. CASE IsPrefix(p, q)
    <3>1. u[p] = Offer(list, q, c)
      BY <1>3, <2>2
    <3> HIDE DEF list
    <3>2. /\ BestList(Grown(f, q, c), Grown(s, q, m + 1), p, Offer(list, q, c))
          /\ \A r \in QueriesOf(list) \ QueriesOf(Offer(list, q, c)) :
               q \notin QueriesOf(list) /\ q \in QueriesOf(Offer(list, q, c)) /\ c > f[r]
      BY <1>5, <2>1, <2>2, OfferKeepsBest
    <3> QED
      BY <3>1, <3>2 DEF list
  <2>3. CASE ~IsPrefix(p, q)
    <3>1. u[p] = list
      BY <1>3, <2>3
    <3> HIDE DEF list
    <3>2. BestList(Grown(f, q, c), Grown(s, q, m + 1), p, list)
      BY <1>5, <2>1, <2>3, OtherListStays
    <3> QED
      BY <3>1, <3>2 DEF list
  <2> QED
    BY <2>2, <2>3
<1>8. u \in [Paths -> Seq(Entry)]
  BY <1>6, <1>7 DEF BestList
<1>9. RankedBy(g, z, u)
  BY <1>7, <1>8 DEF RankedBy
<1>10. Ranked(g, u)
  BY <1>4, <1>9 DEF Ranked
<1> QED
  BY <1>7, <1>10 DEF g, u, D

(* bulk_insert() into an empty trie, the rows in any order. *)
LEMMA OrderProperties ==
  ASSUME NEW S, IsFiniteSet(S), NEW order \in SetToSeqs(S)
  PROVE  /\ Len(order) \in Nat /\ order \in [1..Len(order) -> S]
         /\ \A i, j \in 1..Len(order) : i # j => order[i] # order[j]
         /\ {order[i] : i \in 1..Len(order)} = S
<1> DEFINE n == Cardinality(S)
           D == 1..n
<1>1. n \in Nat
  BY FS_CardinalityType
<1>2. order \in [D -> S] /\ \A i, j \in D : i # j => order[i] # order[j]
  BY DEF SetToSeqs
<1>3. IsFiniteSet(D) /\ Cardinality(D) = n
  BY <1>1, FS_Interval
<1> HIDE DEF D
<1>4. order \in Injection(D, S)
  BY <1>2 DEF Injection, IsInjective
<1>5. order \in Surjection(D, S)
  BY <1>3, <1>4, FS_Injection
<1>6. \A x \in S : \E i \in D : order[i] = x
  BY <1>5 DEF Surjection
<1>7. {order[i] : i \in D} = S
  BY <1>2, <1>6
<1>8. Len(order) = n
  BY <1>1, <1>2 DEF D
<1> QED
  BY <1>1, <1>2, <1>7, <1>8 DEF D

LEMMA OfferType ==
  ASSUME NEW list \in Seq(Entry), NEW q \in Queries, NEW c \in Nat
  PROVE  Offer(list, q, c) \in Seq(Entry)
<1> DEFINE e == [query |-> q, count |-> c]
<1>1. e \in Entry /\ e.query = q
  BY DEF Entry
<1>2. Len(list) \in Nat /\ DOMAIN list = 1..Len(list) /\ NodeCap \in Nat \ {0}
  BY TrieAssumption
<1> HIDE DEF e
<1>3. \A i \in DOMAIN list : ReplaceAt(list, i, e) \in Seq(Entry)
  BY <1>1 DEF ReplaceAt
<1>4. Holds(list, q) => Place(list, q) \in DOMAIN list
  BY DEF Holds, Place
<1>5. ~Room(list) => Len(list) \in DOMAIN list
  BY <1>2 DEF Room
<1>6. CASE Holds(list, q)
  <2>1. Offer(list, q, c) = Sorted(ReplaceAt(list, Place(list, q), e))
    BY <1>1, <1>6 DEF Offer, Updated, e
  <2> QED
    BY <1>3, <1>4, <1>6, <2>1, SortedProperties
<1>7. CASE ~Holds(list, q) /\ Room(list)
  <2>1. Offer(list, q, c) = Sorted(Append(list, e)) /\ Append(list, e) \in Seq(Entry)
    BY <1>1, <1>7, AppendProperties DEF Offer, e
  <2> QED
    BY <2>1, SortedProperties
<1>8. CASE ~Holds(list, q) /\ ~Room(list)
  <2>1. Offer(list, q, c) = list \/ Offer(list, q, c) = Sorted(ReplaceAt(list, Len(list), e))
    BY <1>8 DEF Offer, e
  <2> QED
    BY <1>3, <1>5, <1>8, <2>1, SortedProperties
<1> QED
  BY <1>6, <1>7, <1>8

LEMMA BulkRanked ==
  ASSUME NEW S \in SUBSET Queries, NEW f \in [S -> Nat], NEW order \in SetToSeqs(S)
  PROVE  Ranked(f, OfferAll(EmptyTrie, f, order))
<1> DEFINE N == Len(order)
           X == [Paths -> Seq(Entry)]
           Part(n) == [q \in {order[i] : i \in 1..n} |-> f[q]]
<1>1. /\ N \in Nat /\ order \in [1..N -> S] /\ {order[i] : i \in 1..N} = S
      /\ \A i, j \in 1..N : i # j => order[i] # order[j]
  <2>1. IsFiniteSet(S)
    BY TrieAssumption, FS_Subset
  <2> QED
    BY <2>1, OrderProperties
<1>2. \A n \in 1..N : order[n] \in Queries /\ f[order[n]] \in Nat
  BY <1>1
<1>3. ASSUME NEW u \in X, NEW n \in 1..N PROVE WalkOffer(u, order[n], f[order[n]]) \in X
  <2>1. \A p \in Paths : u[p] \in Seq(Entry)
    OBVIOUS
  <2>2. \A p \in Paths : Offer(u[p], order[n], f[order[n]]) \in Seq(Entry)
    BY <1>2, <2>1, OfferType
  <2> QED
    BY <2>1, <2>2 DEF WalkOffer
<1>4. EmptyTrie \in X
  BY DEF EmptyTrie
<1> HIDE DEF X
<1>5. PICK after \in [0..N -> X] :
        /\ after[0] = EmptyTrie /\ OfferAll(EmptyTrie, f, order) = after[N]
        /\ \A n \in 1..N : after[n] = WalkOffer(after[n - 1], order[n], f[order[n]])
  <2>1. \A u \in X, n \in 1..Len(order) : WalkOffer(u, order[n], f[order[n]]) \in X
    BY <1>3
  <2>2. \E after \in [0..Len(order) -> X] :
          /\ after[0] = EmptyTrie /\ OfferAll(EmptyTrie, f, order) = after[Len(order)]
          /\ \A n \in 1..Len(order) : after[n] = WalkOffer(after[n - 1], order[n], f[order[n]])
    <3> DEFINE t == EmptyTrie
    <3>1. t \in X /\ Len(order) \in Nat
      BY <1>1, <1>4
    <3> HIDE DEF t
    <3> QED
      BY <2>1, <3>1, OfferAllLoops DEF t
  <2> QED
    BY <2>2
<1> DEFINE Done == {n \in 0..N : Ranked(Part(n), after[n])}
<1>6. 0 \in Done
  <2>1. DOMAIN Part(0) = {}
    OBVIOUS
  <2> HIDE DEF Part
  <2>2. Ranked(Part(0), after[0])
    BY <1>5, <2>1, EmptyRanked
  <2> QED
    BY <1>1, <2>2
<1>7. ASSUME NEW n \in 0..(N - 1), n \in Done PROVE n + 1 \in Done
  <2> DEFINE q == order[n + 1]
             c == f[q]
             part == Part(n)
  <2>1. n + 1 \in 1..N /\ (n + 1) - 1 = n /\ n + 1 \in 0..N
    BY <1>1
  <2>2. q \in Queries /\ c \in Nat /\ q \in S
    BY <1>1, <1>2, <2>1
  <2>3. \A i \in 1..n : i \in 1..N /\ order[i] # q /\ order[i] \in S
    BY <1>1, <2>1
  <2>4. DOMAIN part = {order[i] : i \in 1..n} /\ DOMAIN part \subseteq Queries
        /\ q \notin DOMAIN part /\ part \in [DOMAIN part -> Nat]
    BY <2>3
  <2>5. Part(n + 1) = Grown(part, q, c)
    <3>1. {order[i] : i \in 1..(n + 1)} = {order[i] : i \in 1..n} \cup {q}
      <4>1. \A i \in 1..(n + 1) : i = n + 1 \/ i \in 1..n
        BY <2>1
      <4>2. \A i \in 1..n : i \in 1..(n + 1)
        BY <2>1
      <4>3. n + 1 \in 1..(n + 1)
        BY <2>1
      <4> QED
        BY <4>1, <4>2, <4>3
    <3>2. \A r \in DOMAIN part : part[r] = f[r]
      OBVIOUS
    <3>3. Part(n + 1) = [r \in DOMAIN part \cup {q} |-> f[r]]
      BY <2>4, <3>1
    <3> HIDE DEF part
    <3> QED
      BY <2>4, <3>2, <3>3 DEF Grown
  <2>6. after[n + 1] = WalkOffer(after[n], q, c)
    BY <1>5, <2>1
  <2>7. Ranked(part, after[n])
    BY <1>7
  <2> HIDE DEF part, q, c, Part
  <2>8. Ranked(Grown(part, q, c), WalkOffer(after[n], q, c))
    BY <2>2, <2>4, <2>7, WalkOfferRanked
  <2> QED
    BY <2>1, <2>5, <2>6, <2>8
<1>8. N \in Done
  <2> HIDE DEF Done
  <2>1. 0..N \subseteq Done
    BY <1>1, <1>6, <1>7, UpTo
  <2> QED
    BY <1>1, <2>1
<1>9. Part(N) = f
  BY <1>1
<1> QED
  BY <1>5, <1>8, <1>9

--------------------------------------------------------------------------------
(* What such lists are good for.                                           *)

LEMMA MinOfTwo ==
  ASSUME NEW a \in Int, NEW b \in Int
  PROVE  Min({a, b}) = IF a <= b THEN a ELSE b
BY DEF Min

LEMMA BestListCounted ==
  ASSUME NEW f, DOMAIN f \subseteq Queries, f \in [DOMAIN f -> Nat], NEW m \in Nat,
         NEW s \in [DOMAIN f -> 0..m], NEW p, NEW list, BestList(f, s, p, list)
  PROVE  /\ \A i, j \in DOMAIN list : i < j => f[list[i].query] >= f[list[j].query]
         /\ IsFiniteSet(QueriesOf(list)) /\ Cardinality(QueriesOf(list)) = Len(list)
         /\ QueriesOf(list) \subseteq Below(f, p) /\ Below(f, p) \subseteq DOMAIN f
<1> DEFINE n == Len(list)
           D == DOMAIN list
           of == [i \in D |-> list[i].query]
           Q == QueriesOf(list)
<1>1. /\ n \in Nat /\ D = 1..n
      /\ \A i \in D : list[i].query \in Below(f, p)
      /\ \A i, j \in D : i < j => Ahead(f, s, list[i].query, list[j].query)
  BY DEF BestList
<1>2. Below(f, p) \subseteq DOMAIN f /\ \A x \in DOMAIN f : f[x] \in Nat /\ s[x] \in Nat
  BY DEF Below
<1>3. \A x, y \in DOMAIN f : Ahead(f, s, x, y) => f[x] >= f[y] /\ x # y
  BY <1>2 DEF Ahead
<1>4. \A i, j \in D : i < j => f[list[i].query] >= f[list[j].query] /\ list[i].query # list[j].query
  BY <1>1, <1>2, <1>3
<1>5. \A i, j \in D : i # j => i < j \/ j < i
  BY <1>1
<1>6. of \in [D -> Q]
  BY DEF QueriesOf
<1>7. \A i, j \in D : of[i] = of[j] => i = j
  BY <1>4, <1>5
<1>8. \A x \in Q : \E i \in D : of[i] = x
  BY DEF QueriesOf
<1> HIDE DEF of
<1>9. of \in Bijection(D, Q)
  BY <1>6, <1>7, <1>8 DEF Bijection, Injection, Surjection, IsInjective
<1>10. IsFiniteSet(D) /\ Cardinality(D) = n
  <2>0. n \in Nat
    BY <1>1
  <2>0a. ~(Below(f, p) \subseteq QueriesOf(list)) => n = NodeCap
    BY <1>3 DEF BestList
  <2> HIDE DEF n
  <2>1. IsFiniteSet(1..n) /\ Cardinality(1..n) = n
    BY <2>0, FS_Interval
  <2> QED
    BY <1>1, <2>1
<1>11. ExistsBijection(D, Q)
  BY <1>9 DEF ExistsBijection
<1>12. IsFiniteSet(Q) /\ Cardinality(Q) = n
  BY <1>10, <1>11, FS_Bijection
<1> QED
  BY <1>1, <1>2, <1>4, <1>12 DEF QueriesOf

(* Every list is a correct top NodeCap of the subtree below it. *)
LEMMA RankedIsBest ==
  ASSUME NEW f, DOMAIN f \subseteq Queries, f \in [DOMAIN f -> Nat], NEW t, Ranked(f, t),
         NEW p \in Paths
  PROVE  BestOf(f, p, t[p]) /\ t[p] \in Seq(Entry) /\ Len(t[p]) <= NodeCap
<1>1. PICK m \in Nat : \E s \in [DOMAIN f -> 0..m] : RankedBy(f, s, t)
  BY DEF Ranked
<1>2. PICK s \in [DOMAIN f -> 0..m] : RankedBy(f, s, t)
  BY <1>1
<1> DEFINE list == t[p]
           n == Len(list)
<1>3. BestList(f, s, p, list)
  BY <1>2 DEF RankedBy
<1> HIDE DEF list
<1>4. /\ \A i, j \in DOMAIN list : i < j => f[list[i].query] >= f[list[j].query]
      /\ IsFiniteSet(QueriesOf(list)) /\ Cardinality(QueriesOf(list)) = n
      /\ QueriesOf(list) \subseteq Below(f, p) /\ Below(f, p) \subseteq DOMAIN f
  BY <1>3, BestListCounted
<1>5. /\ list \in Seq(Entry) /\ n \in Nat /\ n <= NodeCap /\ DOMAIN list = 1..n
      /\ NodeCap \in Nat
      /\ \A i \in DOMAIN list : list[i].query \in Below(f, p) /\ list[i].count = f[list[i].query]
  BY <1>3, TrieAssumption DEF BestList
<1>6. \A i, j \in DOMAIN list : i < j => list[i].count >= list[j].count
  BY <1>4, <1>5
<1>7. IsFiniteSet(Below(f, p)) /\ Cardinality(Below(f, p)) \in Nat
      /\ n <= Cardinality(Below(f, p))
  <2>1. IsFiniteSet(Below(f, p))
    BY <1>4, TrieAssumption, FS_Subset
  <2> QED
    BY <1>4, <2>1, FS_Subset, FS_CardinalityType
<1>8. n = Min({NodeCap, Cardinality(Below(f, p))})
  <2>1. \A b \in Nat : Min({NodeCap, b}) = IF NodeCap <= b THEN NodeCap ELSE b
    BY <1>5, MinOfTwo
  <2>2. ~(Below(f, p) \subseteq QueriesOf(list)) => n = NodeCap
    BY <1>3 DEF BestList
  <2> HIDE DEF n
  <2>3. CASE Below(f, p) \subseteq QueriesOf(list)
    <3>1. Below(f, p) = QueriesOf(list)
      BY <1>4, <2>3
    <3>2. Cardinality(Below(f, p)) = n
      BY <1>4, <3>1
    <3>3. n \in Nat /\ n <= NodeCap /\ NodeCap \in Nat
      BY <1>5
    <3> QED
      BY <2>1, <3>2, <3>3
  <2>4. CASE ~(Below(f, p) \subseteq QueriesOf(list))
    <3>1. n = NodeCap
      BY <2>2, <2>4
    <3> QED
      BY <1>7, <2>1, <3>1
  <2> QED
    BY <2>3, <2>4
<1>9. \A q \in Below(f, p) \ QueriesOf(list) : \A i \in DOMAIN list : f[q] <= list[i].count
  <2> SUFFICES ASSUME NEW q \in Below(f, p) \ QueriesOf(list), NEW i \in DOMAIN list
               PROVE  f[q] <= list[i].count
    OBVIOUS
  <2>1. Ahead(f, s, list[i].query, q)
    BY <1>3 DEF BestList
  <2>2. f[q] \in Nat /\ f[list[i].query] \in Nat /\ list[i].count = f[list[i].query]
    BY <1>4, <1>5
  <2> QED
    BY <2>1, <2>2 DEF Ahead
<1> QED
  BY <1>4, <1>5, <1>6, <1>8, <1>9 DEF BestOf, Below, QueriesOf, list

(* Further down a query's path it is listed too: what is ahead of it there *)
(* is ahead of it here as well, and there is no room here for all of that. *)
LEMMA RankedAlongPath ==
  ASSUME NEW f, DOMAIN f \subseteq Queries, f \in [DOMAIN f -> Nat], NEW t, Ranked(f, t),
         NEW p \in Paths, NEW r \in Paths, NEW q \in QueriesOf(t[p]),
         IsPrefix(p, r), IsPrefix(r, q)
  PROVE  q \in QueriesOf(t[r])
<1>1. PICK m \in Nat : \E s \in [DOMAIN f -> 0..m] : RankedBy(f, s, t)
  BY DEF Ranked
<1>2. PICK s \in [DOMAIN f -> 0..m] : RankedBy(f, s, t)
  BY <1>1
<1> DEFINE P == t[p]
           R == t[r]
<1>3. BestList(f, s, p, P) /\ BestList(f, s, r, R)
  BY <1>2 DEF RankedBy
<1> HIDE DEF P, R
<1>4. /\ IsFiniteSet(QueriesOf(P)) /\ Cardinality(QueriesOf(P)) = Len(P)
      /\ QueriesOf(P) \subseteq Below(f, p) /\ Below(f, p) \subseteq DOMAIN f
  BY <1>3, BestListCounted
<1>5. /\ IsFiniteSet(QueriesOf(R)) /\ Cardinality(QueriesOf(R)) = Len(R)
      /\ QueriesOf(R) \subseteq Below(f, r) /\ Below(f, r) \subseteq DOMAIN f
  BY <1>3, BestListCounted
<1>6. q \in QueriesOf(P) /\ q \in DOMAIN f /\ q \in Queries
  BY <1>4 DEF P
<1> SUFFICES ASSUME q \notin QueriesOf(R) PROVE FALSE
  BY DEF R
<1>7. q \in Below(f, r) \ QueriesOf(R)
  BY <1>6 DEF Below
<1>8. Len(R) = NodeCap /\ \A i \in DOMAIN R : Ahead(f, s, R[i].query, q)
  BY <1>3, <1>7 DEF BestList
<1>9. ASSUME NEW w \in QueriesOf(R) PROVE w \in QueriesOf(P)
  <2>1. Ahead(f, s, w, q)
    BY <1>8 DEF QueriesOf
  <2>2. w \in Below(f, p)
    <3>1. w \in DOMAIN f /\ w \in Queries /\ IsPrefix(r, w)
      BY <1>5 DEF Below
    <3>2. IsPrefix(p, w)
      BY <3>1, PrefixTransitive
    <3> QED
      BY <3>1, <3>2 DEF Below
  <2>3. SUFFICES ASSUME w \notin QueriesOf(P) PROVE FALSE
    OBVIOUS
  <2>4. \A i \in DOMAIN P : Ahead(f, s, P[i].query, w)
    BY <1>3, <2>2, <2>3 DEF BestList
  <2>5. Ahead(f, s, q, w)
    BY <1>6, <2>4 DEF QueriesOf
  <2>6. f[q] \in Nat /\ f[w] \in Nat /\ s[q] \in Nat /\ s[w] \in Nat
    BY <1>5, <1>6
  <2> QED
    BY <2>1, <2>5, <2>6 DEF Ahead
<1>10. QueriesOf(R) \cup {q} \subseteq QueriesOf(P)
  BY <1>6, <1>9
<1>11. Cardinality(QueriesOf(R) \cup {q}) = NodeCap + 1
  BY <1>5, <1>7, <1>8, FS_AddElement
<1>12. Cardinality(QueriesOf(R) \cup {q}) <= Len(P)
  BY <1>4, <1>10, FS_Subset
<1>13. Len(P) <= NodeCap /\ Len(P) \in Nat /\ NodeCap \in Nat
  BY <1>3, TrieAssumption DEF BestList
<1> QED
  BY <1>11, <1>12, <1>13

--------------------------------------------------------------------------------
(* The invariant of the trie, and what its operations need to keep it.     *)

TrieInv ==
  /\ Indexed \subseteq Queries /\ count \in [Indexed -> Nat]
  /\ size \in Nat /\ built \in BOOLEAN
  /\ Ranked(count, top)
  /\ ~built => Indexed = {} /\ top = EmptyTrie

LEMMA TrieInvMeans == TrieInv => TrieTypeOK /\ TopIsBest /\ ListedAlongPath
<1> SUFFICES ASSUME TrieInv PROVE TrieTypeOK /\ TopIsBest /\ ListedAlongPath
  OBVIOUS
<1>1. DOMAIN count \subseteq Queries /\ count \in [DOMAIN count -> Nat] /\ Ranked(count, top)
  BY DEF TrieInv, Indexed
<1>2. \A p \in Paths : BestOf(count, p, top[p]) /\ Len(top[p]) <= NodeCap
  BY <1>1, RankedIsBest
<1>3. top \in [Paths -> Seq(Entry)]
  BY <1>1 DEF Ranked, RankedBy
<1>4. TopIsBest
  BY <1>2 DEF TopIsBest
<1>5. TrieTypeOK
  BY <1>2, <1>3 DEF TrieTypeOK, TrieInv
<1>6. \A p \in Paths : Listed(p) = QueriesOf(top[p])
  BY DEF Listed, QueriesOf
<1>7. ASSUME NEW p \in Paths, NEW r \in Paths, NEW q \in Listed(p), IsPrefix(p, r), IsPrefix(r, q)
      PROVE  q \in Listed(r)
  BY <1>1, <1>6, <1>7, RankedAlongPath
<1>8. ListedAlongPath
  BY <1>7 DEF ListedAlongPath
<1> QED
  BY <1>4, <1>5, <1>8

LEMMA TrieInitInv == TrieInit => TrieInv
<1> SUFFICES ASSUME TrieInit PROVE TrieInv
  OBVIOUS
<1>1. Indexed = {} /\ top = EmptyTrie /\ size = 0 /\ built = FALSE /\ count = <<>>
  BY DEF TrieInit, EmptyTrie, Indexed
<1>2. Ranked(count, top)
  BY <1>1, EmptyRanked DEF Indexed
<1>3. count \in [Indexed -> Nat]
  BY <1>1 DEF Indexed
<1> QED
  BY <1>1, <1>2, <1>3 DEF TrieInv

LEMMA BulkInsertInv ==
  ASSUME TrieInv, NEW S \in SUBSET Queries, NEW f \in [S -> Nat], NEW order \in SetToSeqs(S),
         BulkInsert(f, order)
  PROVE  TrieInv' /\ count' = f /\ built' = TRUE /\ Indexed = {}
<1>1. ~built /\ built' = TRUE /\ count' = f /\ top = EmptyTrie /\ Indexed = {}
  BY DEF BulkInsert, TrieInv
<1>2. top' = OfferAll(EmptyTrie, f, order) /\ size' = size + Len(order)
  BY <1>1 DEF BulkInsert
<1>3. Ranked(f, OfferAll(EmptyTrie, f, order))
  BY BulkRanked
<1>4. Len(order) \in Nat
  <2>1. IsFiniteSet(S)
    BY TrieAssumption, FS_Subset
  <2> QED
    BY <2>1, OrderProperties
<1>5. size' \in Nat
  BY <1>2, <1>4 DEF TrieInv
<1>6. Indexed' = S /\ count' \in [Indexed' -> Nat]
  BY <1>1 DEF Indexed
<1>7. Ranked(count', top')
  BY <1>1, <1>2, <1>3
<1> QED
  BY <1>1, <1>5, <1>6, <1>7 DEF TrieInv

(* One offer to a trie that was built, by insert() or update(). *)
LEMMA OfferInv ==
  ASSUME TrieInv, NEW q \in Queries, NEW c \in Nat, q \in Indexed => c > count[q],
         top' = WalkOffer(top, q, c), count' = Grown(count, q, c),
         built, built' = built, size' \in Nat
  PROVE  /\ TrieInv'
         /\ \A p \in Paths : \A r \in Listed(p) \ Listed(p)' :
              \E x \in Listed(p)' \ Listed(p) : count'[x] > count[r]
<1>1. DOMAIN count \subseteq Queries /\ count \in [DOMAIN count -> Nat] /\ Ranked(count, top)
  BY DEF TrieInv, Indexed
<1>2. /\ Ranked(Grown(count, q, c), WalkOffer(top, q, c))
      /\ \A p \in Paths : \A r \in QueriesOf(top[p]) \ QueriesOf(WalkOffer(top, q, c)[p]) :
           q \notin QueriesOf(top[p]) /\ q \in QueriesOf(WalkOffer(top, q, c)[p]) /\ c > count[r]
  BY <1>1, WalkOfferRanked DEF Indexed
<1>3. Indexed' = Indexed \cup {q} /\ count' \in [Indexed' -> Nat] /\ count'[q] = c
  BY <1>1 DEF Grown, Indexed
<1>4. TrieInv'
  BY <1>2, <1>3 DEF TrieInv
<1>5. \A p \in Paths : Listed(p) = QueriesOf(top[p]) /\ Listed(p)' = QueriesOf(top'[p])
  BY DEF Listed, QueriesOf
<1> QED
  BY <1>2, <1>3, <1>4, <1>5

LEMMA InsertInv ==
  ASSUME TrieInv, NEW q \in Queries, NEW c \in Nat, q \in Indexed => c > count[q], Insert(q, c)
  PROVE  /\ TrieInv' /\ built /\ built' /\ count' = Grown(count, q, c)
         /\ \A p \in Paths : \A r \in Listed(p) \ Listed(p)' :
              \E x \in Listed(p)' \ Listed(p) : count'[x] > count[r]
<1>1. top' = WalkOffer(top, q, c) /\ built /\ built' = built /\ count' = Grown(count, q, c)
  BY DEF Insert, Grown, Indexed
<1>2. size' \in Nat
  BY DEF Insert, TrieInv
<1> QED
  BY <1>1, <1>2, OfferInv

LEMMA UpdateInv ==
  ASSUME TrieInv, NEW q \in Indexed, NEW c \in Nat, c > count[q], Update(q, c)
  PROVE  /\ TrieInv'
         /\ \A p \in Paths : \A r \in Listed(p) \ Listed(p)' :
              \E x \in Listed(p)' \ Listed(p) : count'[x] > count[r]
<1>1. q \in Queries
  BY DEF TrieInv
<1>2. top' = WalkOffer(top, q, c) /\ built /\ built' = built /\ size' \in Nat
  BY DEF Update, TrieInv
<1>3. count' = Grown(count, q, c)
  BY DEF Update, Grown, Indexed, TrieInv
<1> QED
  BY <1>1, <1>2, <1>3, OfferInv

(* An index on its own, under every sequence of growing counts. *)
LEMMA TrieNextInv == TrieInv /\ [TrieNext]_trieVars => TrieInv'
<1> SUFFICES ASSUME TrieInv, [TrieNext]_trieVars PROVE TrieInv'
  OBVIOUS
<1>1. ASSUME NEW S \in SUBSET Queries, NEW f \in [S -> 0..MaxCount], NEW order \in SetToSeqs(S),
             BulkInsert(f, order)
      PROVE  TrieInv'
  <2>1. f \in [S -> Nat]
    BY TrieAssumption
  <2> QED
    BY <1>1, <2>1, BulkInsertInv
<1>2. ASSUME NEW q \in Queries, NEW c \in 1..MaxCount, Grows(q, c), Insert(q, c) PROVE TrieInv'
  BY <1>2, InsertInv, TrieAssumption DEF Grows
<1>3. ASSUME NEW q \in Indexed, NEW c \in 1..MaxCount, Grows(q, c), Update(q, c) PROVE TrieInv'
  BY <1>3, UpdateInv, TrieAssumption DEF Grows
<1>4. CASE UNCHANGED trieVars
  BY <1>4 DEF trieVars, TrieInv, Indexed
<1> QED
  BY <1>1, <1>2, <1>3, <1>4 DEF TrieNext

(* The trie of app/trie.py, used alone: as long as counts only grow, every *)
(* node's list is a correct top NodeCap of its subtree, and typing on      *)
(* loses no suggestion that still matches.                                 *)
THEOREM ListsOfTheTrie == TrieSpec => [](TrieTypeOK /\ TopIsBest /\ ListedAlongPath)
BY TrieInitInv, TrieNextInv, TrieInvMeans, PTL DEF TrieSpec
================================================================================
