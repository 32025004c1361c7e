----------------------------- MODULE SuggestionTrie -----------------------------
(***************************************************************************)
(* app/trie.py: a prefix tree in which every node keeps the best NodeCap   *)
(* completions of its prefix, maintained by offering each (count, query)   *)
(* to every node on the query's path.  A lookup returns the list of one    *)
(* node and never looks at the subtree below it.                           *)
(*                                                                         *)
(* A query is a sequence of characters and a node is the path that leads   *)
(* to it.  Every public operation runs under one lock, so it is one step.  *)
(***************************************************************************)
EXTENDS Naturals, FiniteSets, SequencesExt

CONSTANTS
  Queries,   \* normalized queries: non-empty sequences of characters
  NodeCap,   \* node_cap
  MaxCount   \* bound of the model: the greatest count of a query

ASSUME TrieAssumption ==
  /\ IsFiniteSet(Queries)
  /\ \A q \in Queries : q \in Seq(Range(q)) /\ q # <<>>
  /\ NodeCap \in Nat \ {0}
  /\ MaxCount \in Nat

VARIABLES
  top,     \* path -> the node's list; a node exists once its list is not empty
  size,    \* size
  count,   \* history: the count each indexed query was last offered with
  built    \* has bulk_insert() run?

trieVars == <<top, size, count, built>>

Paths == UNION {Prefixes(q) : q \in Queries}
Entry == [query : Queries, count : Nat]

Indexed == DOMAIN count
Completions(p) == {q \in Indexed : IsPrefix(p, q)}
Listed(p) == {top[p][i].query : i \in DOMAIN top[p]}

TrieTypeOK ==
  /\ top \in [Paths -> Seq(Entry)] /\ \A p \in Paths : Len(top[p]) <= NodeCap
  /\ size \in Nat
  /\ Indexed \subseteq Queries /\ count \in [Indexed -> Nat]
  /\ built \in BOOLEAN

TrieInit ==
  /\ top = [p \in Paths |-> <<>>]
  /\ size = 0
  /\ count = <<>>
  /\ built = FALSE

--------------------------------------------------------------------------------
(* The algorithm.                                                          *)

(* list.sort(key=score, reverse=True) is stable in both directions: an     *)
(* entry is preceded by those with a greater score and by those of the     *)
(* same score that stood before it.                                        *)
Rank(score, i) ==
  Cardinality({j \in DOMAIN score : score[j] > score[i] \/ (score[j] = score[i] /\ j <= i)})
SortedBy(score, list) ==
  [k \in DOMAIN list |-> list[CHOOSE i \in DOMAIN list : Rank(score, i) = k]]
Sorted(list) == SortedBy([i \in DOMAIN list |-> list[i].count], list)

Holds(list, q) == \E i \in DOMAIN list : list[i].query = q
Place(list, q) == CHOOSE i \in DOMAIN list : list[i].query = q

(* Plausible bugs, for the mutation runs: an update in place that does not *)
(* sort again, and a challenger that displaces an incumbent of the same    *)
(* count.                                                                  *)
UpdatedInPlace(list, entry) == ReplaceAt(list, Place(list, entry.query), entry)
BeatsOrTies(c, list) == c >= Last(list).count

Updated(list, entry) == Sorted(ReplaceAt(list, Place(list, entry.query), entry))
Room(list) == Len(list) < NodeCap
Beats(c, list) == c > Last(list).count

(* _offer(): what the list of a node becomes. *)
Offer(list, q, c) ==
  LET entry == [query |-> q, count |-> c]
  IN  IF Holds(list, q) THEN Updated(list, entry)
      ELSE IF Room(list) THEN Sorted(Append(list, entry))
      ELSE IF Beats(c, list) THEN Sorted(ReplaceAt(list, Len(list), entry))
      ELSE list

(* Plausible bug: the loop over the characters misses the last node. *)
WalkOfferStopsShort(t, q, c) ==
  [p \in Paths |-> IF IsStrictPrefix(p, q) THEN Offer(t[p], q, c) ELSE t[p]]

(* _walk_offer(): the offer reaches the root and every node on q's path. *)
WalkOffer(t, q, c) ==
  [p \in Paths |-> IF IsPrefix(p, q) THEN Offer(t[p], q, c) ELSE t[p]]

(* _find(): the root is always there, any other node once it was offered   *)
(* something.                                                              *)
Found(t, p) == p = <<>> \/ (p \in Paths /\ t[p] # <<>>)

(* candidates_for_prefix() and top_for_prefix(). *)
Candidates(t, p) == IF Found(t, p) THEN t[p] ELSE <<>>
TopForPrefix(t, p, k) == SubSeq(Candidates(t, p), 1, Min({k, Len(Candidates(t, p))}))

--------------------------------------------------------------------------------
(* The operations.                                                         *)

(* The loop of bulk_insert(), row by row. *)
OfferAll(t, f, order) ==
  LET after[n \in 0..Len(order)] ==
        IF n = 0 THEN t ELSE WalkOffer(after[n - 1], order[n], f[order[n]])
  IN  after[Len(order)]

(* bulk_insert() of the rows of the store, f in the given order, before    *)
(* anything else.  Rows are distinct: query is the table's primary key.    *)
BulkInsert(f, order) ==
  /\ ~built
  /\ built' = TRUE
  /\ top' = OfferAll(top, f, order)
  /\ size' = size + Len(order)
  /\ count' = f

(* insert(): a query with its new authoritative count. *)
Insert(q, c) ==
  /\ built
  /\ top' = WalkOffer(top, q, c)
  /\ size' = IF Found(top, q) THEN size ELSE size + 1
  /\ count' = [r \in Indexed \cup {q} |-> IF r = q THEN c ELSE count[r]]
  /\ UNCHANGED built

(* update(): the same for a query known to be there.  Only tests and tools *)
(* would call it, the service always inserts.                              *)
Update(q, c) ==
  /\ built
  /\ top' = WalkOffer(top, q, c)
  /\ count' = [count EXCEPT ![q] = c]
  /\ UNCHANGED <<size, built>>

(* Counts only ever increase: a search can only add to a query's count.    *)
Grows(q, c) == q \in Indexed => c > count[q]

TrieNext ==
  \/ \E S \in SUBSET Queries : \E f \in [S -> 0..MaxCount], order \in SetToSeqs(S) :
       BulkInsert(f, order)
  \/ \E q \in Queries, c \in 1..MaxCount : Grows(q, c) /\ Insert(q, c)
  \/ \E q \in Indexed, c \in 1..MaxCount : Grows(q, c) /\ Update(q, c)

TrieSpec == TrieInit /\ [][TrieNext]_trieVars

--------------------------------------------------------------------------------
(* Properties.                                                             *)

(* The list of a node is a correct top NodeCap of the subtree below it,    *)
(* which no lookup searches: its entries are completions of the prefix     *)
(* with their latest counts, each once, in descending order, as many as    *)
(* there are up to NodeCap, and no completion left out has a greater count *)
(* than one that is in.                                                    *)
BestOf(f, p, list) ==
  LET all == {q \in DOMAIN f : IsPrefix(p, q)}
      listed == {list[i].query : i \in DOMAIN list}
  IN  /\ \A i \in DOMAIN list : list[i].query \in all /\ list[i].count = f[list[i].query]
      /\ \A i, j \in DOMAIN list : i < j => list[i].count >= list[j].count
      /\ Cardinality(listed) = Len(list)
      /\ Len(list) = Min({NodeCap, Cardinality(all)})
      /\ \A q \in all \ listed : \A i \in DOMAIN list : f[q] <= list[i].count

TopIsBest == \A p \in Paths : BestOf(count, p, top[p])

(* Typing on never loses a suggestion that still matches: what a node      *)
(* lists, every node further down the query's path lists too.              *)
ListedAlongPath ==
  \A p, r \in Paths : \A q \in Listed(p) :
    IsPrefix(p, r) /\ IsPrefix(r, q) => q \in Listed(r)

(* A query is displaced only by one searched more often, so a tie does not *)
(* make suggestions flicker while the process lives.                       *)
DisplacedOnlyByGreater ==
  [][built' =>
     \A p \in Paths : \A q \in Listed(p) \ Listed(p)' :
       \E r \in Listed(p)' \ Listed(p) : count'[r] > count[q]]_trieVars

(* "self.size = 0  # number of distinct queries indexed": what /stats      *)
(* reports as queries_indexed.                                             *)
SizeIsQueriesIndexed == built => size = Cardinality(Indexed)
================================================================================
