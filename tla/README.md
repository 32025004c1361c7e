# Typeahead search: TLA+ models, checks and proofs

The repository is a search-suggestion service: a FastAPI process (`src/app`) that
answers `GET /suggest` from an in-memory trie behind a simulated distributed
cache, records `POST /search` through a buffered batch writer into SQLite, and a
page (`src/static`) that calls both. These modules model the concurrent and
stateful core of that process. Definitions are translated from the source files
and keep their names where TLA+ allows it; `PROJECT.json` maps each of them to its
lines.

## 1. The system

| Component | Source | State | Operations |
| --- | --- | --- | --- |
| Batch writer | `app/batch_writer.py` | `_buffer` (query -> delta) under `_lock`, events `_stop` and `_flush_now`, one daemon thread, counters | `enqueue`, `_drain`, `_flush`, `_run`, `start`, `stop`, `stats` |
| Suggestion trie | `app/trie.py` | tree of nodes, each with a capped list `top`; `size`; one lock | `bulk_insert`, `insert`, `update`, `top_for_prefix`, `candidates_for_prefix` |
| Distributed cache | `app/distributed_cache.py` | per node an ordered dict key -> (value, expiry) and counters, one lock per node | `get`, `set`, `invalidate`, `invalidate_keys`, `peek_status`, `stats` |
| Hash ring | `app/consistent_hash.py` | `_ring` (point -> node), `_sorted_points`, `_nodes`; no lock | `add_node`, `remove_node`, `get_node`, `locate`, `key_distribution` |
| Primary store | `app/store.py` | SQLite table `queries`, one connection under a `Lock`, counters | `bulk_load_csv`, `iter_all`, `get`, `apply_batch`, `close` |
| Recency tracker, ranking | `app/ranking.py` | query -> (score, last_ts) under a lock, decayed lazily | `record`, `current`, `current_many`, `trending`, `blended_score` |
| Typeahead service | `app/service.py` | the components above | `suggest`, `search`, `trending`, `_on_flush`, `build_index_from_store`, `start`, `shutdown`, views |
| Lifespan and routes | `app/main.py` | the service | load or generate the dataset, build, start, serve, shut down; HTTP routes |
| Metrics | `app/metrics.py` | counters and a rolling latency window, one lock | `record_suggest`, `record_search`, `snapshot` |
| Search page | `static/app.js` | `seq`, selected item, list, mode, timers | debounce, `fetchSuggestions`, keyboard, `submitSearch`, polling |
| Configuration, generator, benchmark | `app/config.py`, `scripts/` | none | constants; offline tools |

**How they interact.** Request threads call `suggest` and `search`. `search` raises
the recency score, then enqueues. The writer thread drains the buffer and calls
`TypeaheadService._on_flush(batch)`, which applies the batch to the store in one
transaction, reads the new counts back, inserts them into the trie, and
invalidates both cache keys (popularity and recency mode) of every prefix of every
query in the batch. `suggest` asks the cache; on a miss it computes the list from
the trie (and, in recency mode, from the tracker) and stores it under the key with
a ttl. Each component has its own lock; no lock spans two of them.

**What is hard.** Everything happens between two of those locks: a list computed
before an invalidation and stored after it; a wake-up of the writer set just
before the writer clears it; a clock read before a lock is awaited; a callback
that raises after the batch has left the buffer; a `join` with a timeout followed by
the closing of the connection; a crash between commit, index and cache. The
`hazards` of `PROJECT.json` list each of them at its line, with the properties that
watch it.

**What makes each component correct.** The writer: no search lost or counted
twice on its way, no lost wake-up, a final flush that comes last, progress
without the timer for a full buffer and for `stop`. The trie: each node's list is
a correct top K of a subtree that no lookup searches. The cache: every entry
accounted for, least recently used first out, nothing served past its ttl, a hit returns
what was stored last. The service: the index agrees with the database, nothing is
shown that a restart would take back, cached lists are stale only for known
reasons and not for ever, a recorded search settles exactly once. The ring: removing a
node moves that node's keys only. The store: an interrupted ingestion is noticed.
The tracker: a score is never more than its searches add up to, and what is hot
loses its place to searches alone. The counters: one answer of `stats()` adds up
although its sections are of different moments. The page: a list on screen belongs to
what is in the box, and the panel comes right in the end.

## 2. The modules

| Module | Models |
| --- | --- |
| `CountLedger` | abstract: a search is accepted once and settles at most once, durable or lost |
| `BatchWriter` | `batch_writer.py`, thread by thread |
| `BatchWriterProofs` | theorems about it |
| `SuggestionTrie` | `trie.py`; the algorithm as operators, the public operations as actions |
| `SuggestionTrieProofs` | theorems about it, and the lemmas about its operators that the next two rest on |
| `Startup` | the lifespan of `main.py`: dataset file, ingestion, index, flushes, and a process that dies in between; extends `SuggestionTrie` |
| `StartupProofs` | theorems about it |
| `LossyCache` | abstract: a read returns the last value stored or nothing; entries vanish at any time |
| `DistributedCache` | `distributed_cache.py`, with the clock read outside the lock; implements `LossyCache` |
| `ConsistentHashRing` | `consistent_hash.py` as pure functions of a ring |
| `CacheOnRing` | the cache and the ring that routes its keys |
| `CacheOnRingProofs` | theorems about the ring, the cache and the two together |
| `TypeaheadService` | `service.py`, the lifespan and the process, composing `BatchWriter`, `SuggestionTrie` and `LossyCache` by `INSTANCE` |
| `TypeaheadServiceProofs` | theorems about it; instantiates the proofs about the writer and the trie |
| `RecencyTracker` | the decayed scores of `ranking.py`, with the clock read outside the lock |
| `RecencyTrackerProofs` | theorems about it |
| `Percentile` | `_percentile()` of `metrics.py` as a pure function |
| `Metrics` | `metrics.py`; extends `Percentile` |
| `Dashboard` | `stats()`, the requests and the flush that move what it reads, and the panel that polls it; instantiates `Metrics` |
| `DashboardProofs` | theorems about `stats()`, its sums and its percentiles |
| `SearchUI` | the search box of `static/app.js` |
| `SearchUIProofs` | theorems about it |
| `MC*` | model values, small instances and symmetry for TLC |

**Steps.** An action is one critical section, one operation on a
`threading.Event`, or one access to state that only one thread touches; between
two actions any other thread may run. A thread's position is a variable (`writer`,
`sender`, `main`, `call`, `request`, `flush`). History variables (`accepted`,
`delivered`, `dropped`, `count`, `added`, `served`, `newer`, `recorded`, `lost`,
`overtaken`, `tainted`, `flushed`, `interrupted`, `failed`, `left`, `exact`, `latest`,
`blanks`, and `shown` of `SearchUI`) are not in the code; no guard reads one, except that `BatchWriter`, `SuggestionTrie` and
`TypeaheadService` use `accepted`, `count` and `recorded` to bound inputs. The bounds
are `MaxSearches`, `MaxSuggests`, `MaxCount`, `MaxClock`, `MaxCalls`, `MaxScore`, `MaxAge`,
`MaxLag`, `MaxCrashes`, `MaxFetches` and
`Polls`; `MaxScored` is the count above which the popularity score of `TypeaheadService`
no longer grows.

**BatchWriter.** `Enqueue` is the critical section of `enqueue()`, `Trip` the
`_flush_now.set()` behind it, outside the lock. `TestStop`, `WakeOnEvent`,
`WakeOnTimer`, `Clear`, `Drain`, `DrainNothing`, `CallbackReturns`,
`CallbackRaises` and `Account` are the steps of `_run()` and `_flush()`; `final` says
whether the writer is in the flush after the loop. `Start`, `StopSet`, `StopTrip`,
`JoinReturns` and `JoinTimesOut` are the main thread. `join(timeout=5.0)` times out
only while the writer is in the callback: no other step does I/O. `stop()` is called
when every request has been answered, as the server does before it runs the
shutdown half of the lifespan.

**SuggestionTrie.** A query is a sequence of characters, a node the path that
leads to it. `Offer`, `WalkOffer`, `TopForPrefix` and `Candidates` are the code's
methods of these names; `Sorted` is the stable sort by count. Counts of a query
only grow, which is what the service does (it inserts counts it read back after
adding to them) and what the offer algorithm needs.

**Startup.** `Open` is `is_empty()` and the decision to generate; `WriteRow` and
`GenerateReturns` are the generator, which writes the file in place and through a buffer, so
`ProcessEnds` leaves it with any number of whole rows and possibly a part of the next.
`FileRows` is what `csv.DictReader` makes of it and `Cuts` what the loader takes such a part
for: a query cut short with count 0, or the query with the leading digits of its count, or 0.
Only queries of the model are left over; where each prefix of one is another, as in the runs,
that is every part of a row. `LoadChunk` is one
transaction of `bulk_load_csv()`, `LoadReturns` its end; `BuildIndex`, `ApplyBatch` and
`Refresh` are what the service does with table and trie from then on, a flush of one
query at a time; `ProcessEnds` is a crash at any of these steps and the start of the
next process with the files as they are. Searches that were still buffered are the
subject of the writer and of the service and not counted here.

**DistributedCache.** `GetReadsClock` and `SetReadsClock` are `time.time()`, taken
before the node's lock; `GetAbsent`, `GetExpired`, `GetHit` and `SetStores` are what
happens under it. The list of a node is in the order of the `OrderedDict`. The
owner of a key is the constant `Owner`: the service makes the ring once and never
changes it. `CacheOnRing` makes the ring that `DistributedCache.__init__()` makes, and
`EntriesSurviveScaling` ties `Owner` to it: every entry lies where the ring looks for
its key.

**ConsistentHashRing.** `AddNode`, `RemoveNode` and `GetNode` are the methods of these
names; a ring is a record of `_nodes` and `_ring`, and `_sorted_points` is the domain of
the latter, as it is after every method. Points of different virtual nodes are
different. The program never adds or removes a node after construction; that it may
is the module's reason to exist, so the runs and proofs cover it.

**TypeaheadService.** `SuggestHit`, `SuggestMiss`, `Compute` (popularity) or
`ReadCandidates` and `ReadRecency` (recency), `Fill` are `suggest()`; `Search`,
`Enqueue`, `Trip` are `search()`; `ApplyBatch`, `Refresh` (one per query),
`InvalidateKey` (one per key), `FlushReturns` are `_on_flush()`. `apply_batch()` may also
raise: in its transaction (`ApplyFails`; SQLite may have rolled it back, or any of its
rows are left in the open transaction of the shared connection, `pending`, where
`get()` reads them until the connection is closed), in reading the counts back
after the commit (`ReadBackFails`), or because the connection is closed
(`ApplyToClosed`). `LookupCount` is `_lookup_count()` of `trending()`. `BuildIndex`, `Start`, `Stop`, `CloseStore` are the
lifespan; `ProcessEnds` is a crash at any moment, or the end of the process, and
the start of the next one on the same database file. `Expire` and `Fade` are time.

**RecencyTracker.** `RecordReadsClock` and `TrendingReadsClock` are `time.time()`, before
the lock; `Record` and `Trending` what follows under it. Time is relative: `last_ts` is
represented by its age, which `Tick` raises, so the model has no last moment. The decay
is a constant operator with the properties of `exp(-lambda * dt)` that matter
(`TrackerAssumption`): less with time, in two stretches as in one, and scores fade
in proportion. `exact` is what all searches of a query add up to by now, `latest` the age of
the reading recorded last. Sorting and cutting the answer of `trending()` changes no
state and is left out.

**Metrics and Dashboard.** A suggest request counts at its cache node (`Lookup`) and
then in `Metrics` (`RecordSuggest`), an empty prefix only there (`SuggestBlank`); a
search counts at the writer (`Enqueue`) and then in `Metrics` (`RecordSearch`). `Drain` and
`Account` are the flush as far as the writer's counters go; when it wakes up is the
business of `BatchWriter`. `Plan` lists the readings of `stats()` in their order, and
`Read` takes the next one; what is read consecutively from one node once `size()` has
had the lock is one reading. `AnswerArrives` and `AnswerFails` are the two ends of
`loadStats()`, which uses no token. A flush that fails and a process that stops are
not in this module.

**SearchUI.** Handlers of the page run one at a time, so one is one step, except that
`fetchSuggestions()` has an `await`: `Fetches` is what precedes it, `AnswerArrives` and
`AnswerFails` what follows, at any later time and in any order. `OnInput`,
`OnInputBlank` and `DebounceFires` are the debounced input event; `ArrowDown`, `ArrowUp`,
`ArrowDownFetches`, `Escape`, `EnterSelected`, `SubmitForm`, `Hover`, `ClickItem`,
`ClickChip`, `ClickOutside`, `Focus` and `SetMode` the other events of the box.
`submitSearch()` posts its query without waiting for anything the box needs. A text
stands for all that `normalize()` maps to it, and what the service answers to a text
and a mode does not change while the page is open.

**Abstractions.** In `TypeaheadService` recency scores are small numbers that a search
raises and time lowers, equal above `MaxScore`; how they decay is the subject of
`RecencyTracker`, where scores are whole multiples of a unit and halve at ticks. A crash is a crash
of the process: with WAL and `synchronous=NORMAL`, which `store.py` sets, a power
failure can lose committed transactions too. The order of rows that SQLite reads
or reads back is arbitrary. Blank queries and empty prefixes are answered by early
returns that touch no state but `Metrics`' and appear in `Dashboard` only. The debug views
and logging change nothing the models hold.

## 3. The runs

Every run is exhaustive for its instance. Everything a passing run checks is also proved
for every value of the constants (section 4), but for what is about liveness. Three runs
list a type invariant; those of the other modules hold in their runs too, and all are proved.

| Run | Instance | Shows |
| --- | --- | --- |
| `bw` | 3 queries, 2 senders, trigger at 2, 4 searches, callbacks that raise, joins that time out, fair | `TypeOK`, `SearchesConserved`, `SizeTriggerArmed`, `GrowsOnlyBehindWriter`, `RowsNeverExceedSearches`, `GracefulStopLosesNothing`; `FullBufferDrained`, `StopCompletes`, `FlushedWhileAlive`; implements `CountLedger` |
| `bw_window` | the smallest instance that shows it | refutes `EverySearchFlushed` (section 5) |
| `index` | 4 queries over a branching tree, lists of 2, 28 datasets of 3 rows, chunks of 2, counts to 3, 1 crash | `TopIsBest`, `ListedAlongPath`, `DisplacedOnlyByGreater`, `SearchesOutliveRestarts`, `UninterruptedStartServesAll` |
| `load_crash` | the same with 1 dataset | refutes `DatasetServed` |
| `trie_size` | 4 queries, every order of rows and of later `insert()` and `update()` calls | refutes `SizeIsQueriesIndexed` |
| `cache` | 3 nodes and a fourth outside, 4 keys (3 on one node), room for 2, 2 values, 2 threads, 4 calls, clock to 2, hashes 0 to 7 | `EntriesAccounted`, `ServedWithinTtl`, `EntriesSurviveScaling`; `EvictsLeastRecent`; implements `LossyCache` |
| `svc_safety` | a query and a longer one it is a prefix of, 2 request threads, 2 searches, both modes, 1 crash, failing flushes, join timeout | `IndexServesDisk`, `ShownCountsDurable`, `StaleOnlyIfOvertaken`, `LookupBetween`; implements `CountLedger` |
| `svc_seen` | the same queries, 1 request thread, 2 searches, recency mode, scores 0 and 1, join timeout, no other fault, fair | `ShutdownLosesNothing`, `EverySearchSeen` |
| `trending` | 2 queries, 2 threads, scores to 3 searches, ages to 4 half-lives, clock readings up to 1 half-life late, fair | `TypeOK`, `NeverOverstated`, `LatestSearchCounts`; `OvertakenOnlyBySearch`, `SpikesAreForgotten` |
| `stats` | 1 node, 1 request of each kind, a flush, 2 polls in flight, polls that fail, fair | `SectionsAddUp`; `DashboardSettles` |
| `ui` | 3 texts, one a prefix of another and one that nothing matches, lists that differ in length and, by mode, in order; 3 requests; fair | `TypeOK`, `NewestAnswerStands`, `SpinnerIffNewestInFlight`, `EnterPicksAShownItem`, `OpenListExplained`, `SpinnerStops` |
| `ui_late` | the same | refutes `NoListForEmptyBox` |

**Why the bounds are enough.** A trigger at 2 with two or three queries lets a
buffer fill, overflow the trigger while a flush runs, and coalesce; two senders
let one set the event while the other is inside the lock; four searches fill two
batches, or one and parts of two more. The trie has a query that is a prefix of others, a
branch and a separate subtree, and lists of two overflow at the root and at one
inner node, so a query is dropped, stays dropped, and comes back; the datasets have every
combination of counts 0 to 2 of three queries, ties included, leave the fourth for a
search to create, and one of them has a query twice. Three rows in chunks of two make a
whole chunk and a rest. One crash leaves a file whose last row is cut, which the next process
loads, serves and counts on; further restarts are left to the proof. In the cache three keys compete for two places, one reaches its
node by the wrap around the ring, one has a shorter ttl, and the clock can pass both
ttls between the reading of the clock and the lock. Three requests of the page can be
out together and be answered in all orders. In the service the
longer query is not in the dataset: its first search creates a row, a node and,
with its second, a new best suggestion of the shorter one.
Two threads of the tracker let one reading overtake another, a search be pruned over and
an entry be set back in time; a search fades after two half-lives, so an age of four
has nothing left even at a late reading, and larger ages and scores would only repeat this.
Two polls of the panel let an older answer replace a newer one, any number of times, and one
request of each kind can fall between any two readings. A second suggest request
or node multiplies the states beyond what TLC finishes in minutes; the run therefore
does not roll the latency window over, and what depends on its length is proved.
Deadlock is checked for the tracker, the dashboard, the page and the writer, where
`Exited` is the intended end; the other systems stop when their bounds are used up.

**Fairness.** `BatchWriter!FairSpec`: a thread that can take its next step takes it
(the steps of the writer, `Trip`, `Start`, `StopTrip`, `JoinReturns`), and the
callback comes back, by returning or by raising: it is a transaction in a local file
and memory operations. Requests, the call of `stop()` and the timer get none: the
first two are the users' and the operator's choice, and `FullBufferDrained` and
`StopCompletes` thereby hold for every interval. `FlushedWhileAlive` and
`EverySearchFlushed` state their own need of the timer (`IntervalElapses`). In `TypeaheadService!FairSpec` threads run,
intervals elapse and cached entries reach their ttl; all three are waits with a
finite timeout in the code. `SearchUI!FairSpec`: a browser's timers fire and every
request is settled, be it by a network error; users owe nothing.
`RecencyTracker!FairSpec`: time passes, and who waits for the lock gets it, because its
holders only compute. That someone asks for the trends again and again is the premise
`PageOpen` of `SpikesAreForgotten`: a page that is open polls them every 4 seconds, and without
one nothing prunes the tracker. It is strong fairness because a thread that could
ask may be busy with a search now and then. `Dashboard!FairSpec`: threads run, the buffer is
flushed (`FlushedWhileAlive`), the page polls every 2 seconds and each poll ends, by an
answer or by an error; `DashboardSettles` has the premise that errors cease.

## 4. The proofs

`BatchWriterProofs` proves, for every finite set of queries, every set of
threads, every `max_size` and every number of searches
(`BatchWriterAssumption`):

* `TypeCorrect`: every variable keeps its type.
* `Conservation`: `SearchesConserved`. A search is in the buffer, in the batch in
  hand, delivered, or dropped.
* `NoLostSizeTrigger` and `StopReachesWriter`: `SizeTriggerArmed`, and `StopWakesWriter`,
  the safety half of `StopCompletes`.
* `BufferGrowth`: `GrowsOnlyBehindWriter`. The buffer has no limit: while the writer flushes, and
  after it has died, every new query adds a row. What holds is that this is the only time:
  while the event is unset and no drain is due, the rows past the trigger are those of
  requests between their critical section and their `set()`. Inductive with the fact that
  these are finitely many, whatever the set of threads.
* `RowsBounded`: `RowsNeverExceedSearches`, with `KeysOfEnqueue` (an `enqueue()` adds
  one key at most) from the library's facts on cardinality.
* `GracefulStop`: `GracefulStopLosesNothing`. Once `stop()` has returned and the writer
  has run to its end, everything accepted is delivered. Its premise that the writer is
  done and not dead says that no callback has raised.
* `ImplementsLedger`: every step of the writer is a step of `CountLedger` or leaves it
  unchanged.

None of the last seven is inductive alone. The strengthening is `Handshake`, the
relation between the positions of the threads: `_stop` is set exactly after the
main thread has left "serving"; the flush after the loop starts only then, so
nobody enqueues during it and the buffer it leaves is empty; `batch` is not empty
only between the drain and the counters; `join()` returns only when the thread has
ended; and nothing has been dropped as long as the thread is not dead. `HandshakeInvariant` proves it, one step per action, and the others combine
it with `TypeCorrect`; `GracefulStop` and `ImplementsLedger` use `Conservation` as well.

`SuggestionTrieProofs` proves for every finite set of queries and every `NodeCap` above 0
(`TrieAssumption`), counts that grow by any amount, and any order of `bulk_insert()`:

* `ListsOfTheTrie`: the types, `TopIsBest` and `ListedAlongPath`.

`TopIsBest` compares counts only and is not inductive: which of two queries with equal
counts is listed must not differ between a node and its children, or a later offer drops
the wrong one. The invariant `Ranked` says that one order of seniority of the queries
exists under which every node has the first `NodeCap` of its completions, by count and then by
seniority. An offer makes the query the youngest of its new count (`OfferKeepsBest`, because
the sort is stable and the query is appended; `WalkOfferRanked` for all nodes of the path),
and so does each step of the loop of `bulk_insert()` (`BulkRanked`). `SortedByPermutes` and
`SortedProperties` say what the library's stable sort returns.

`StartupProofs` proves for every set of datasets, every size of a chunk and every number of
crashes (`StartupAssumption`):

* `TypeCorrect`: every variable keeps its type.
* `ListsAreBest` and `TypingOnLosesNone`: `TopIsBest` and `ListedAlongPath` of the index as it is
  built from the store and refreshed by flushes.
* `CountsOutliveRestarts`: `SearchesOutliveRestarts`. A row loaded again would overwrite
  what was flushed to it; that loading happens only as long as nothing has been flushed
  is `NothingFlushedYet`, and this needs to know that a store with rows is never loaded.
  The rest of a count is a row of the file as the loader reads it, a cut one included
  (`FileType`); the file changes only while the store is empty (`EmptyCounts`).
* `StartServesAll`: `UninterruptedStartServesAll`, by `LoadingStands` (the first `loaded` rows are
  in the store) and `NothingMissing` (without an interruption the file is complete and a store with
  rows has them all).
* `DisplacedByGreater`: `DisplacedOnlyByGreater`. What leaves a list is beaten by every query left
  in it, because the list is the best before and after the step and no count shrinks
  (`IndexStands`).

`CacheOnRingProofs` proves for every set of nodes, every hash space of natural numbers
and every placement of points in it that gives no point to two nodes (`RingAssumption`):

* `RingIsItsMembers`: after any additions and removals the ring is the one its present
  nodes determine.
* `RemovalIsLocal` and `AdditionIsLocal`: removing a node moves only keys it had, adding
  one moves keys only to it. The lemma behind both is `FirstOfFewer`: the first point
  clockwise of a hash, if it is still there, is the first of any fewer points.

and for every set of keys, values and threads, every capacity, every ttl of a key, and
clocks and calls without bound (`CacheAssumption`):

* `TypeCorrect`, and `NothingUnaccounted`, which is `EntriesAccounted`. The counters add up because
  a `set()` that finds its key replaces the only entry of it, and evicts by the excess over the
  capacity. That a key is in its owner's list only, and once, is what a dictionary per node
  gives the code; the lists of the model need it as part of the invariant (`OneCopyAtOwner`).
* `StaleNeverServed`: `ServedWithinTtl`, with `Dated`: an entry expires one ttl after the clock
  reading it was stored with, however late that reading was.
* `LeastRecentEvicted`: the action property `EvictsLeastRecent`, with `LruOrder`, which relates
  the positions in the list to the history variable `newer`.
* `ImplementsLossyCache`: every step of the cache is a step of `LossyCache` or leaves it
  unchanged; what an abstract cache holds is what some node holds.
* `ScalingKeepsEntries`: `EntriesSurviveScaling`, from the locality of the ring and
  `OneCopyAtOwner`, if the owner of a key is the node the ring names, as `_node_for()` has it.

`TypeaheadServiceProofs` proves for every finite set of queries, dataset, set of threads,
capacity of the lists, and for any number of crashes (`ServiceAssumption`):

* `ImplementsLedger`: what is recorded settles once, durable or lost, across the processes.
* `ShutdownUnlessRaised`: once the store is closed, every search recorded is durable or was lost
  in a crash; or `join()` gave up on a writer that is still not done, or a flush has raised
  and ended the writer.
* `GracefulShutdown`: `ShutdownLosesNothing`, which is the same without the last exception and
  therefore supposes, as its run does, that no flush fails before the shutdown
  (`FlushMayFail = FALSE`). A closed store may still raise.
* `ServesDisk` and `LookupsBetween`: `IndexServesDisk` and `LookupBetween`.
* `NothingShownEarly`: `ShownCountsDurable`.
* `StaleExplained`: `StaleOnlyIfOvertaken`.
* `TypesOfTheService`: every variable keeps its type.

The composition is not proved from scratch: `WP` and `IP` are instances of
`BatchWriterProofs` and `SuggestionTrieProofs`, and their lemmas are cited for the steps of the
service that are steps of the writer or of the trie. On top of `WP!Handshake` and `IP!TrieInv`
the invariant has these layers:

* `BaseInv`: a request and its slot in the cache agree (`RequestInv`), a flush has a batch that
  is not empty (`WriterInv`), is only in the callback (`FlushInv`), and per query the books
  balance (`BooksInv`): durable, lost, buffered, in the batch not yet applied, and dropped are
  what was recorded. A batch whose transaction committed and whose callback then raised is
  in both the store and `dropped`, and this is the one other form the books may take.
* `LinkInv`: a flush that is inserting has all keys of what it has still to insert (`RowsInv`), and
  the index has what the store has (`Served`), or what it had before a batch that could
  not be read back (`Skipped`), or all but the rows still to come, whose counts lag by
  the batch (`Refreshing`).
* `ListsInv`: no list that is cached, about to be stored, answered or ranked has a count above
  the store's. It holds across steps because nothing leaves the database (`StoreGrows`).
* `StaleInv`: a list that is cached or under way is what its node lists now, or its key
  is still to be invalidated, or it was invalidated while the request had the list in
  hand. A request is in hand in three places, hence `HeldOk`, `PutOk` and `RankOk`.

`RecencyTrackerProofs` proves for every set of queries and threads and every decay that
satisfies `TrackerAssumption`:

* `TypeCorrect`: every variable keeps its type.
* `LatestSearchNeverLost`: `LatestSearchCounts`. Inductive with `AgesAgree`: an entry
  has the age of the reading recorded last, and a query without an entry had it faded,
  because what was pruned by any reading has faded by now (`DecaysOn`).
* `ScoresNotOverstated`: `NeverOverstated`, inductive with the types. Its heart is
  `RaisedBounded`: a search adds the same to the score and to the exact sum, also where
  the model's `MaxScore` cuts both, and an entry set back in time only loses.
* `OnlySearchesOvertake`: `OvertakenOnlyBySearch`. A tick takes from every score in
  proportion (`NowAfterTick`), and a search that is not late never lowers the score of
  its query (`RecordRaises`).

`DashboardProofs` proves for every sequence of different node names, every set of
threads and polls, every latency window and any number of requests
(`DashboardAssumption`):

* `StatsAddUp`: `SectionsAddUp`, of the answer on the panel and of those in flight. The counters
  themselves balance at every moment (`Books`: what the nodes counted is what `Metrics` counted
  and the requests between the two), but the readings of an answer are of different moments. Two
  things join them: counters never shrink (`Grow`), and the readings made so far are the first
  of a fixed order in which nothing is read twice (`InOrder`, from `PlanInjective`). So each
  reading bounds what is read later (`Sound`), and an answer that has all readings
  satisfies the inequalities. `SumsExist` and the lemmas behind it give the sums over the nodes.
* `RankInRange`, `PercentilesInOrder`, `RankNearNearest`: for every number of latencies the
  positions reported exist, are in order and are within one of the nearest rank; and
  `LatenciesInOrder`: of a sorted window that is not empty, the p50 is at most the p95, that at
  most the p99, and that at most the last. (That the library's sort sorts is taken from its
  definition by TLC; the provers cannot expand it.)
* `TypesOfTheDashboard`: every variable keeps its type, the window of latencies its length and
  the history `blanks` its bound (`Bounded`).

`SearchUIProofs` proves for every set of texts, every service and every number of
requests (`SearchUIAssumption`):

* `TypeCorrect`: every variable keeps its type.
* `SelectionShown`: `EnterPicksAShownItem`, inductive with the types: whatever replaces
  the list or closes it also resets the selection.
* `StaleAnswersDropped` and `SpinnerCorrect`: `NewestAnswerStands` and
  `SpinnerIffNewestInFlight`. Both need to know of the requests in flight that none has
  a token above `seq`, so that a new request is the newest, and that no two have the
  same token, so that the answer of the newest leaves no other newest behind.
* `OpenListFits`: `OpenListExplained`. Inductive is `Explanation`: the newest request is for the text
  and the mode of the box, or what is shown is, or a timer is running for the text of
  the box, or an exception that the property names applies.

**What the constants are assumed to be.** The named assumptions give the constants their
types, and besides say that sets are finite where the code holds them in memory, that no two
nodes have a point or a name in common, that queries are not empty, and what `TrackerAssumption` says of
the decay. TLC evaluates each on a run.

**Induction.** The library's induction theorems take an operator and cannot be cited
here. Where an argument needs induction (sorting, the loop of `bulk_insert()`, sums over
the nodes) it is made with sets: the set of counterexamples is a set of numbers and
has a least member (`LeastNat`, from the well-foundedness of `<` on the naturals), and `UpTo`, `Recursion`,
`SubsetInduction` and `SumsExist` follow from that, the last two about subsets of a finite set and
about the recursive function inside the library's fold.

**Only model-checked**: liveness (`FullBufferDrained`, `StopCompletes`, `FlushedWhileAlive`,
`EverySearchSeen`, `SpinnerStops`, `SpikesAreForgotten`, `DashboardSettles`), which the proof system does not
reach. Of `StopCompletes` the safety half is `StopReachesWriter`.

## 5. Where the code and its documents disagree

Each of these has a run that refutes the documented claim, and an entry under
`findings`.

* `bw_window`: "at most one window's worth" of searches is lost. A flush callback
  that raises ends the writer thread; everything after is accepted and never
  flushed.
* `trie_size`: "number of distinct queries indexed". A query that is a prefix of an
  indexed one finds its node and is not counted.
* `load_crash`: "the durable store is populated from the dataset CSV". Whether it has
  been is decided by a file that exists and a table that is not empty, and both are
  written piece by piece: a process that dies in between leaves a part that later
  starts never complete. The last row of such a file may be cut, and is then served as a query or
  with a count that the dataset does not have. `UninterruptedStartServesAll` shows that nothing else loses
  rows, and `SearchesOutliveRestarts` what loading again without more care would break.
* `ui_late`: "a newer keystroke won - drop this result". The keystroke that clears the
  box raises no token, so a late answer opens the list under an empty box.

Three more disagreements are stated as the exceptions of properties that hold:

* After a flush "the next read recomputes fresh" (`docs/ARCHITECTURE.md`), but a request
  that computed its list before the flush stores it after the invalidation.
  `StaleOnlyIfOvertaken` shows that this is the only way for a stale list to stay, and
  `EverySearchSeen` that it heals when the entry expires.
* A graceful shutdown "loses nothing" (`batch_writer.py:23`), but if the flush in progress
  outlives `join(timeout=5.0)`, the store is closed before the final flush.
  `ShutdownLosesNothing` shows that this is the only way.
* "Nearest-rank percentile" (`metrics.py:44`): the code rounds a position between the first
  and the last sample instead; the p95 of 12 latencies is the 11th, not the 12th.
  `RankNearNearest` shows that it is never further off.

Two effects contradict no document: a node's hit rate can be above 1 in one answer
(`CacheNode.stats()` reads its hits again after the total), and a record whose clock
reading comes late makes its query look less trending than it is. `LatestSearchCounts` says how
far the latter goes. The former is not modelled: `Dashboard` takes the hits, misses and rate of a
node as one reading, and the next poll reads them anew.

That recency-mode answers are cached although search() changes their scores is
documented (`docs/ARCHITECTURE.md:132`) and therefore no finding.

## 6. Not modelled

Routes and parameter parsing (one call each into the service), the debug views (read
only), the configuration (it is the modules' constants), the benchmark (an offline tool)
and what the generator writes (any dataset); of the page its markup, styles, toasts, the
trending chips (polled like the stats, and replaced as a whole) and the cache debug
form. Of the store, the columns and counters that only reports read. Floating point: a
score of the tracker is a whole number of units, and a decay to nothing is reached.

## 7. Plan

In order of importance; all are done, the proofs of each with it.

1. `CountLedger`: what the write path promises.
2. `BatchWriter`, `BatchWriterProofs`.
3. `SuggestionTrie`, `SuggestionTrieProofs`.
4. `LossyCache`, `DistributedCache`.
5. `TypeaheadService`, composing 2, 3 and 4; `TypeaheadServiceProofs`.
6. `Startup`: ingestion and index, with crashes; `StartupProofs`.
7. `ConsistentHashRing`, `CacheOnRing`, `CacheOnRingProofs`.
8. `SearchUI`, `SearchUIProofs`.
9. A store transaction that fails before, in or after its commit, in `TypeaheadService`.
10. `RecencyTracker`, `RecencyTrackerProofs`.
11. `Percentile`, `Metrics`, `Dashboard`, `DashboardProofs`.

What is left for proofs is about liveness: safety statements that carry most of an
argument, as `StopReachesWriter` carries that of `StopCompletes`. The candidates are that
the dashboard settles (an answer all of whose readings are of one quiet moment shows the
present counters) and that a search becomes visible (a list that leaves out a durable
search is in a cache entry with an expiry, or about to be invalidated).
