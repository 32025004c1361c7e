---------------------------- MODULE TypeaheadService ----------------------------
(***************************************************************************)
(* app/service.py and the lifespan of app/main.py: the request flows       *)
(* suggest() and search(), the flush callback that carries counts from the *)
(* batch writer to the store, the index and the cache, and the process     *)
(* that starts, stops and crashes around them.                             *)
(*                                                                         *)
(* The service is a composition: the writer thread is BatchWriter, the     *)
(* index SuggestionTrie, the cache what DistributedCache implements, a     *)
(* LossyCache.  A step of the service is one step of one of them, together *)
(* with the service's own.  Between two steps any other thread may run.    *)
(***************************************************************************)
EXTENDS Integers, FiniteSets, SequencesExt

CONSTANTS
  Queries,         \* normalized queries: non-empty sequences of characters
  Dataset,         \* the rows of the store at first: query -> count
  Senders,         \* request threads
  MaxSize,         \* batch_max_size
  NodeCap,         \* trie_node_cap
  Limit,           \* suggest_limit
  CountScore,      \* count -> rank_count_weight * log1p(count)
  RecencyWeight,   \* rank_recency_weight
  Asked,           \* bound of the model: the cache keys users ask for
  MaxSearches,     \* bound of the model: searches
  MaxScore,        \* bound of the model: recency scores above it are not told apart
  MaxScored,       \* bound of the model: counts above it have the same score
  MaxCrashes,      \* bound of the model: crashes
  FlushMayFail,    \* may apply_batch() raise?
  JoinMayTimeOut   \* may the last flush outlive join(timeout=5.0)?

VARIABLES
  (* batch_writer *)
  buffer, flushNow, stopFlag, received, rowsWritten, flushCount, lastFlushRows,
  sender, writer, final, batch, main, accepted, delivered, dropped,
  (* trie *)
  top, size, count, built,
  (* cache *)
  held, putting, reply,
  (* the service's own *)
  store,      \* table queries of the database file: query -> count
  pending,    \* rows a failed apply_batch() left uncommitted: query -> delta
  closed,     \* has shutdown() closed the store?
  recent,     \* recency: query -> score
  request,    \* where each request thread is in suggest() or search()
  flush,      \* where the writer thread is in _on_flush()
  (* history *)
  recorded,   \* searches answered "recorded", over all processes
  lost,       \* of those, the ones a process took with it when it ended
  crashes,
  overtaken,  \* threads whose list was computed before its key was invalidated
  tainted     \* keys held with such a list

Prefixed == (UNION {Prefixes(q) : q \in Queries}) \ {<<>>}
Modes == {"popularity", "recency"}
Keys == Modes \X Prefixed
Lists == Seq([query : Queries, count : Nat])
           \cup Seq([query : Queries, count : Nat, recent_score : Nat])

ASSUME ServiceAssumption ==
  /\ IsFiniteSet(Queries) /\ \A q \in Queries : q \in Seq(Range(q)) /\ q # <<>>
  /\ DOMAIN Dataset \subseteq Queries /\ Dataset \in [DOMAIN Dataset -> Nat]
  /\ MaxSize \in Int /\ NodeCap \in Nat \ {0} /\ Limit \in Nat
  /\ CountScore \in [0..MaxScored -> Nat] /\ RecencyWeight \in Nat
  /\ Asked \subseteq Keys
  /\ {MaxSearches, MaxScore, MaxScored, MaxCrashes} \subseteq Nat
  /\ {FlushMayFail, JoinMayTimeOut} \subseteq BOOLEAN

Writer == INSTANCE BatchWriter WITH CallbackMayRaise <- TRUE
Index == INSTANCE SuggestionTrie WITH MaxCount <- MaxSearches
Cache == INSTANCE LossyCache WITH Threads <- Senders, Values <- Lists

writerVars == <<buffer, flushNow, stopFlag, received, rowsWritten, flushCount,
                lastFlushRows, sender, writer, final, batch, main, accepted,
                delivered, dropped>>
indexVars == <<top, size, count, built>>
cacheVars == <<held, putting, reply>>
history == <<recorded, lost, crashes, overtaken, tainted>>
storeVars == <<store, pending, closed>>
own == <<storeVars, recent, request, flush>>
vars == <<writerVars, indexVars, cacheVars, own, history>>

CountIn(f, q) == IF q \in DOMAIN f THEN f[q] ELSE 0
Durable == [q \in Queries |-> CountIn(store, q) - CountIn(Dataset, q)]
None == [q \in Queries |-> 0]
AtRest == [at |-> "apply", rows |-> <<>>, keys |-> <<>>]

TypeOK ==
  /\ Writer!TypeOK /\ Index!TrieTypeOK
  /\ DOMAIN store \subseteq Queries /\ store \in [DOMAIN store -> Nat]
  /\ DOMAIN held \subseteq Keys
  /\ pending \in [Queries -> Nat] /\ closed \in BOOLEAN
  /\ recent \in [Queries -> Nat]
  /\ \A t \in Senders :
       request[t].at \in {"idle", "compute", "rank", "fill", "enqueue"}
  /\ flush.at \in {"apply", "refresh", "invalidate"}
  /\ recorded \in [Queries -> Nat] /\ lost \in [Queries -> Nat]
  /\ crashes \in 0..MaxCrashes
  /\ overtaken \subseteq Senders /\ tainted \subseteq DOMAIN held

(* What get() reads: the open transaction is that of its own connection. *)
Visible(q) == CountIn(store, q) + pending[q]

Idle == [at |-> "idle"]

Init ==
  /\ Writer!Init /\ Index!TrieInit /\ Cache!Init
  /\ store = Dataset /\ pending = None /\ closed = FALSE
  /\ recent = None
  /\ request = [t \in Senders |-> Idle]
  /\ flush = AtRest
  /\ recorded = None /\ lost = None /\ crashes = 0
  /\ overtaken = {} /\ tainted = {}

Free(t) == request[t] = Idle /\ sender[t] = "idle"
Goes(t, r) == request' = [request EXCEPT ![t] = r]

--------------------------------------------------------------------------------
(* Plausible bugs: faulty variants of the definitions they are named       *)
(* after, used by the mutation runs only.                                  *)

(* search() that puts the new count into the index itself, to be quicker. *)
EnqueueAndIndex(t) ==
  /\ request[t].at = "enqueue"
  /\ Writer!Enqueue(t, request[t].query)
  /\ Index!Insert(request[t].query, CountIn(count, request[t].query) + 1)
  /\ recorded' = [recorded EXCEPT ![request[t].query] = @ + 1]
  /\ Goes(t, Idle)
  /\ UNCHANGED <<cacheVars, storeVars, recent, flush, lost, crashes, overtaken, tainted>>

(* Entries that live until something pushes them out. *)
ExpireNever(k) == FALSE

(* Only one of the two modes. *)
KeysOfPopularity(q) == [i \in DOMAIN q |-> <<"popularity", SubSeq(q, 1, i)>>]

(* A batch applied again although its transaction had been committed. *)
AddedTwice(q) == CountIn(store, q) + 2 * batch[q]

(* The delta goes to the index instead of the new count. *)
NewCountIsDelta(q) == batch[q]

(* shutdown() that closes the store before the writer is done. *)
MayCloseEarly == main = "joining"

(* The best completion taken for the query itself. *)
LookupCountOfBest(q) ==
  LET best == Index!TopForPrefix(top, q, 1)
  IN  IF best # <<>> THEN best[1].count ELSE Visible(q)

--------------------------------------------------------------------------------
(* suggest().  The empty prefix is answered before any of this.            *)

(* cache.get() finds the list: the request is answered from the cache. *)
SuggestHit(t, k) ==
  /\ main = "serving" /\ Free(t)
  /\ Cache!Hit(t, k)
  /\ UNCHANGED <<writerVars, indexVars, own, history>>

(* cache.get() finds nothing: on to the index. *)
SuggestMiss(t, k) ==
  /\ main = "serving" /\ Free(t)
  /\ Cache!Miss(t, k)
  /\ Goes(t, [at |-> "compute", key |-> k])
  /\ tainted' = tainted \ {k}
  /\ UNCHANGED <<writerVars, indexVars, storeVars, recent, flush,
                 recorded, lost, crashes, overtaken>>

(* trie.top_for_prefix(): the list as it is now. *)
Compute(t) ==
  /\ request[t].at = "compute" /\ request[t].key[1] = "popularity"
  /\ Cache!BeginPut(t, request[t].key, Index!TopForPrefix(top, request[t].key[2], Limit))
  /\ Goes(t, [at |-> "fill"])
  /\ overtaken' = overtaken \ {t}
  /\ UNCHANGED <<writerVars, indexVars, storeVars, recent, flush,
                 recorded, lost, crashes, tainted>>

(* _rank_with_recency(): trie.candidates_for_prefix() first ...            *)
ReadCandidates(t) ==
  /\ request[t].at = "compute" /\ request[t].key[1] = "recency"
  /\ Goes(t, [at |-> "rank", key |-> request[t].key,
              candidates |-> Index!Candidates(top, request[t].key[2])])
  /\ overtaken' = overtaken \ {t}
  /\ UNCHANGED <<writerVars, indexVars, cacheVars, storeVars, recent, flush,
                 recorded, lost, crashes, tainted>>

(* ... then recency.current_many(), and a stable sort by blended_score(). *)
Blended(e) == CountScore[Min({e.count, MaxScored})] + RecencyWeight * e.recent_score
RankByScore(list) == Index!SortedBy([i \in DOMAIN list |-> Blended(list[i])], list)

CurrentMany(list) ==
  [i \in DOMAIN list |-> [query |-> list[i].query, count |-> list[i].count,
                          recent_score |-> recent[list[i].query]]]

ReadRecency(t) ==
  /\ request[t].at = "rank"
  /\ LET ranked == RankByScore(CurrentMany(request[t].candidates))
     IN  Cache!BeginPut(t, request[t].key, SubSeq(ranked, 1, Min({Limit, Len(ranked)})))
  /\ Goes(t, [at |-> "fill"])
  /\ UNCHANGED <<writerVars, indexVars, storeVars, recent, flush, history>>

(* cache.set(), and the answer. *)
Fill(t) ==
  /\ request[t].at = "fill"
  /\ Cache!Put(t)
  /\ Goes(t, Idle)
  /\ tainted' = (IF t \in overtaken THEN tainted \cup {putting[t].key}
                                    ELSE tainted \ {putting[t].key}) \cap DOMAIN held'
  /\ overtaken' = overtaken \ {t}
  /\ UNCHANGED <<writerVars, indexVars, storeVars, recent, flush,
                 recorded, lost, crashes>>

--------------------------------------------------------------------------------
(* search().  A blank query is answered before any of this.                *)

Searches == MapThenSumSet(LAMBDA q : recorded[q], Queries)
Requested == Cardinality({t \in Senders : request[t].at = "enqueue"})

(* recency.record(): the score goes up at once. *)
Record(q) == recent' = [recent EXCEPT ![q] = Min({@ + 1, MaxScore})]

Search(t, q) ==
  /\ main = "serving" /\ Free(t)
  /\ Searches + Requested < MaxSearches
  /\ Record(q)
  /\ Goes(t, [at |-> "enqueue", query |-> q])
  /\ UNCHANGED <<writerVars, indexVars, cacheVars, storeVars, flush, history>>

(* batch_writer.enqueue(), and the answer "recorded". *)
Enqueue(t) ==
  /\ request[t].at = "enqueue"
  /\ Writer!Enqueue(t, request[t].query)
  /\ recorded' = [recorded EXCEPT ![request[t].query] = @ + 1]
  /\ Goes(t, Idle)
  /\ UNCHANGED <<indexVars, cacheVars, storeVars, recent, flush,
                 lost, crashes, overtaken, tainted>>

Trip(t) ==
  /\ Writer!Trip(t)
  /\ UNCHANGED <<indexVars, cacheVars, own, history>>

--------------------------------------------------------------------------------
(* Time: scores decay, entries expire.                                     *)

Fade(q) ==
  /\ recent[q] > 0
  /\ recent' = [recent EXCEPT ![q] = @ - 1]
  /\ UNCHANGED <<writerVars, indexVars, cacheVars, storeVars, request,
                 flush, history>>

Expire(k) ==
  /\ k \in DOMAIN held
  /\ Cache!Invalidate(k)
  /\ tainted' = tainted \ {k}
  /\ UNCHANGED <<writerVars, indexVars, own, recorded, lost, crashes, overtaken>>

--------------------------------------------------------------------------------
(* The writer thread, which calls _on_flush() from _flush().               *)

WriterLoop ==
  /\ Writer!WriterStep \/ Writer!WakeOnTimer
  /\ UNCHANGED <<indexVars, cacheVars, own, history>>

(* Both keys of every prefix, query after query, shorter prefixes first.   *)
KeysOf(q) ==
  FlattenSeq([i \in DOMAIN q |-> <<<<"popularity", SubSeq(q, 1, i)>>,
                                   <<"recency", SubSeq(q, 1, i)>>>>])

Added(q) == CountIn(store, q) + batch[q]
Committed == [q \in DOMAIN store \cup Writer!Keys(batch) |-> Added(q)]
NewCount(q) == store[q]

(* store.apply_batch(): one transaction adds the deltas, inserting the     *)
(* rows it does not find.  The counts it reads back come in an order of    *)
(* SQLite's choosing; the rest of _on_flush() keeps to that order.         *)
ApplyBatch ==
  /\ writer = "callback" /\ flush.at = "apply" /\ ~closed
  /\ store' = Committed
  /\ \E rows \in SetToSeqs(Writer!Keys(batch)) :
       flush' = [at |-> "refresh", rows |-> rows,
                 keys |-> FlattenSeq([i \in DOMAIN rows |-> KeysOf(rows[i])])]
  /\ UNCHANGED <<writerVars, indexVars, cacheVars, pending, closed, recent, request, history>>

(* apply_batch() raises because the connection is closed.                  *)
ApplyToClosed ==
  /\ flush.at = "apply" /\ closed
  /\ Writer!CallbackRaises
  /\ UNCHANGED <<indexVars, cacheVars, own, history>>

(* It raises in executemany() or in commit().  SQLite may have rolled the  *)
(* transaction back; if it has not, the rows written so far stay in the    *)
(* open transaction of the connection.                                     *)
ApplyFails ==
  /\ FlushMayFail /\ flush.at = "apply" /\ ~closed
  /\ Writer!CallbackRaises
  /\ \E rows \in SUBSET Writer!Keys(batch) :
       pending' = [q \in Queries |-> IF q \in rows THEN batch[q] ELSE 0]
  /\ UNCHANGED <<indexVars, cacheVars, store, closed, recent, request, flush, history>>

(* It raises after the commit, in reading the counts back. *)
ReadBackFails ==
  /\ FlushMayFail /\ flush.at = "apply" /\ ~closed
  /\ Writer!CallbackRaises
  /\ store' = Committed
  /\ UNCHANGED <<indexVars, cacheVars, pending, closed, recent, request, flush, history>>

(* trie.insert() of one query with its new count. *)
Refresh ==
  /\ flush.at = "refresh"
  /\ Index!Insert(Head(flush.rows), NewCount(Head(flush.rows)))
  /\ flush' = [flush EXCEPT !.rows = Tail(@),
                            !.at = IF Len(flush.rows) > 1 THEN "refresh" ELSE "invalidate"]
  /\ UNCHANGED <<writerVars, cacheVars, storeVars, recent, request, history>>

(* A round of cache.invalidate_keys(). *)
Fills(t, k) ==
  \/ request[t].at = "rank" /\ request[t].key = k
  \/ request[t].at = "fill" /\ putting[t].key = k

InvalidateKey ==
  /\ flush.at = "invalidate" /\ flush.keys # <<>>
  /\ LET k == Head(flush.keys)
     IN  /\ Cache!Invalidate(k)
         /\ overtaken' = overtaken \cup {t \in Senders : Fills(t, k)}
         /\ tainted' = tainted \ {k}
  /\ flush' = [flush EXCEPT !.keys = Tail(@)]
  /\ UNCHANGED <<writerVars, indexVars, storeVars, recent, request,
                 recorded, lost, crashes>>

(* _on_flush() returns to _flush(). *)
FlushReturns ==
  /\ flush.at = "invalidate" /\ flush.keys = <<>>
  /\ Writer!CallbackReturns
  /\ flush' = AtRest
  /\ UNCHANGED <<indexVars, cacheVars, storeVars, recent, request, history>>

--------------------------------------------------------------------------------
(* The process.                                                            *)

(* build_index_from_store(), rows in an order of SQLite's choosing.        *)
IterAll == SetToSeqs(DOMAIN store)
BuildIndex ==
  /\ main = "starting"
  /\ \E order \in IterAll : Index!BulkInsert(store, order)
  /\ UNCHANGED <<writerVars, cacheVars, own, history>>

Start ==
  /\ built
  /\ Writer!Start
  /\ UNCHANGED <<indexVars, cacheVars, own, history>>

(* batch_writer.stop(), once every request has been answered. *)
Stop ==
  /\ \/ Writer!StopSet /\ \A t \in Senders : Free(t)
     \/ Writer!StopTrip \/ Writer!JoinReturns \/ Writer!JoinTimesOut
  /\ UNCHANGED <<indexVars, cacheVars, own, history>>

MayClose == Writer!StopReturned

(* store.close() waits for the lock that apply_batch() holds.  Closing a   *)
(* connection rolls its open transaction back.                             *)
CloseStore ==
  /\ MayClose /\ ~closed
  /\ ~(writer = "callback" /\ flush.at = "apply")
  /\ closed' = TRUE /\ pending' = None
  /\ UNCHANGED <<writerVars, indexVars, cacheVars, store, recent, request,
                 flush, history>>

(* The process ends, by a crash at any moment or after its shutdown (a     *)
(* writer still flushing is a daemon thread), and another one opens the    *)
(* database file: what was committed is all there is.                      *)
ProcessEnds ==
  /\ crashes < MaxCrashes
  /\ crashes' = crashes + 1
  /\ buffer' = None /\ batch' = None
  /\ accepted' = None /\ delivered' = None /\ dropped' = None
  /\ received' = 0 /\ rowsWritten' = 0 /\ flushCount' = 0 /\ lastFlushRows' = 0
  /\ flushNow' = FALSE /\ stopFlag' = FALSE /\ final' = FALSE
  /\ sender' = [t \in Senders |-> "idle"]
  /\ writer' = "unstarted" /\ main' = "starting"
  /\ top' = [p \in Index!Paths |-> <<>>] /\ size' = 0 /\ count' = <<>> /\ built' = FALSE
  /\ held' = <<>> /\ putting' = <<>> /\ reply' = <<>>
  /\ pending' = None /\ closed' = FALSE /\ recent' = None /\ flush' = AtRest
  /\ request' = [t \in Senders |-> Idle]
  /\ lost' = [q \in Queries |-> recorded[q] - Durable[q]]
  /\ overtaken' = {} /\ tainted' = {}
  /\ UNCHANGED <<store, recorded>>

--------------------------------------------------------------------------------

RequestStep(t) == Compute(t) \/ ReadCandidates(t) \/ ReadRecency(t) \/ Fill(t)
                    \/ Enqueue(t) \/ Trip(t)
FlushStep == ApplyBatch \/ Refresh \/ InvalidateKey \/ FlushReturns

Next ==
  \/ \E t \in Senders, k \in Asked : SuggestHit(t, k) \/ SuggestMiss(t, k)
  \/ \E t \in Senders, q \in Queries : Search(t, q)
  \/ \E t \in Senders : RequestStep(t)
  \/ \E q \in Queries : Fade(q)
  \/ \E k \in Keys : Expire(k)
  \/ WriterLoop \/ FlushStep \/ ApplyToClosed \/ ApplyFails \/ ReadBackFails
  \/ BuildIndex \/ Start \/ Stop \/ CloseStore \/ ProcessEnds

Spec == Init /\ [][Next]_vars

(* Threads run, the interval elapses and entries reach their ttl; requests *)
(* come or do not come.                                                    *)
FairSpec ==
  /\ Spec
  /\ \A t \in Senders : WF_vars(RequestStep(t))
  /\ WF_vars(WriterLoop) /\ WF_vars(FlushStep)
  /\ WF_vars(BuildIndex) /\ WF_vars(Start)
  /\ \A k \in Keys : WF_vars(Expire(k))

--------------------------------------------------------------------------------
(* Properties.                                                             *)

(* The index never drifts from the disk: whenever no flush is between its  *)
(* commit and its last insert, every node of the trie lists the best       *)
(* queries of its prefix with the counts the store holds, after a crash    *)
(* and a restart too; or, if the counts of a batch could not be read back, *)
(* with those it held before that batch, of which nothing is mixed in.     *)
BeforeDropped == [q \in DOMAIN count |-> store[q] - dropped[q]]
IndexServes(f) == \A p \in Index!Paths : Index!BestOf(f, p, top[p])
IndexServesDisk ==
  built /\ flush.at # "refresh" =>
    IndexServes(store) \/ (writer = "dead" /\ IndexServes(BeforeDropped))

(* No count is shown before it is durable: what any thread is about to     *)
(* answer or cache, and what the cache may answer, is at most what a       *)
(* restart would read from the database.                                   *)
Durably(list) == \A i \in DOMAIN list : list[i].count <= CountIn(store, list[i].query)
ShownCountsDurable ==
  /\ \A k \in DOMAIN held : Durably(held[k])
  /\ \A t \in DOMAIN putting : Durably(putting[t].value)
  /\ \A t \in DOMAIN reply : Durably(reply[t])

(* Is the list under k what the index would answer?  In recency mode, as   *)
(* far as counts go: the scores have moved on since.                       *)
Current(k) ==
  IF k[1] = "popularity"
  THEN held[k] = Index!TopForPrefix(top, k[2], Limit)
  ELSE /\ Len(held[k]) = Min({Limit, Len(Index!Candidates(top, k[2]))})
       /\ \A i \in DOMAIN held[k] :
         \E j \in DOMAIN top[k[2]] : top[k[2]][j].query = held[k][i].query
                                     /\ top[k[2]][j].count = held[k][i].count

BeingInvalidated(k) ==
  \/ flush.at = "refresh"
  \/ \E i \in DOMAIN flush.keys : flush.keys[i] = k

(* A cached list is stale only while the flush that made it so has yet to  *)
(* reach its key, or if an invalidation of the key overtook the request    *)
(* that had computed it.                                                   *)
StaleOnlyIfOvertaken ==
  \A k \in DOMAIN held : Current(k) \/ BeingInvalidated(k) \/ k \in tainted

(* trending()'s _lookup_count() tries the trie first and the store next:   *)
(* either way the count is at least what suggestions show and counts no    *)
(* search that nobody made, and it is at most what is durable, unless the  *)
(* rows of a failed transaction are still there to be read; such rows are  *)
(* the last ones of this process.                                          *)
LookupCount(q) ==
  LET best == Index!TopForPrefix(top, q, 1)
  IN  IF best # <<>> /\ best[1].query = q THEN best[1].count ELSE Visible(q)
LookupBetween ==
  built => \A q \in Queries :
    /\ CountIn(count, q) <= LookupCount(q)
    /\ LookupCount(q) <= CountIn(Dataset, q) + recorded[q]
    /\ LookupCount(q) <= CountIn(store, q) \/ writer = "dead"

(* "a graceful shutdown loses nothing", all the way to the database: once  *)
(* the store is closed, it has every search this process has recorded,     *)
(* provided join() has waited for the writer: when it gives up on a flush  *)
(* the store is closed before the last one, which then has no connection.  *)
ShutdownLosesNothing ==
  closed =>
    \/ \A q \in Queries : Durable[q] + lost[q] = recorded[q]
    \/ main = "timedOut" /\ writer # "done"

(* Over any number of crashes and restarts, a recorded search settles once *)
(* at most, in the database or in the losses.                              *)
Ledger == INSTANCE CountLedger WITH accepted <- recorded, durable <- Durable
LedgerSpec == Ledger!Spec

(* Every recorded search comes to be seen: from some time on the index and *)
(* every cached list that has the query count it, whatever fills were      *)
(* overtaken on the way.                                                   *)
Seen(q, n) ==
  /\ CountIn(count, q) >= CountIn(Dataset, q) + n
  /\ \A k \in DOMAIN held : \A i \in DOMAIN held[k] :
       held[k][i].query = q => held[k][i].count >= CountIn(Dataset, q) + n
EverySearchSeen ==
  [](main # "timedOut") =>
  \A q \in Queries : \A n \in 1..MaxSearches : (recorded[q] >= n) ~> []Seen(q, n)
================================================================================
