-------------------------------- MODULE Dashboard --------------------------------
(***************************************************************************)
(* GET /stats and the panel of static/app.js that polls it.  A request     *)
(* moves up to three sets of counters, one after the other and each under  *)
(* a lock of its own or none: those of a cache node, those of the batch    *)
(* writer and those of Metrics.  stats() reads them section by section     *)
(* while requests and the writer go on, and the answers of two polls reach *)
(* the page in any order.  The panel has no token as the search box has.   *)
(*                                                                         *)
(* What a cache holds does not matter here: a lookup hits or misses.       *)
(***************************************************************************)
EXTENDS Integers, FiniteSetsExt, SequencesExt

CONSTANTS
  Queries,        \* normalized queries
  Threads,        \* request threads
  Nodes,          \* the names of the cache nodes, in the order stats() visits them
  LatencyWindow, Latencies,
  Polls,          \* bound of the model: polls of the panel in flight at a time
  MaxSuggests,    \* bound of the model: suggest() calls
  MaxSearches     \* bound of the model: searches

ASSUME DashboardAssumption ==
  /\ Nodes \in Seq(STRING) /\ IsInjective(Nodes)
  /\ LatencyWindow \in Nat \ {0} /\ MaxSuggests \in Nat /\ MaxSearches \in Nat

VARIABLES
  (* batch_writer *)
  buffer,       \* the distinct queries in _buffer
  batch,        \* those in the batch of _flush(), until they are counted
  received,     \* total_received
  rowsWritten,  \* total_rows_written
  (* metrics *)
  latencies, suggestRequests, cacheHits, cacheMisses, searchRequests,
  (* cache *)
  nodeHits, nodeMisses,  \* hits and misses of each node
  (* where things are *)
  request,  \* thread -> what it has done of its request
  poll,     \* poll -> what stats() has read for it; none when it is not out
  shown,    \* the readings on the panel; none at first
  healthy,  \* the dot beside them
  (* history *)
  blanks    \* suggest() calls for an empty prefix

Metric == INSTANCE Metrics

writerVars == <<buffer, batch, received, rowsWritten>>
metricsVars == <<latencies, suggestRequests, cacheHits, cacheMisses, searchRequests>>
nodeVars == <<nodeHits, nodeMisses>>
pageVars == <<poll, shown, healthy>>
vars == <<writerVars, metricsVars, nodeVars, pageVars, request, blanks>>

Init ==
  /\ buffer = {} /\ batch = {} /\ received = 0 /\ rowsWritten = 0
  /\ Metric!MetricsInit
  /\ nodeHits = [n \in ToSet(Nodes) |-> 0] /\ nodeMisses = [n \in ToSet(Nodes) |-> 0]
  /\ request = [t \in Threads |-> "none"]
  /\ poll = [p \in Polls |-> <<>>]
  /\ shown = <<>> /\ healthy = FALSE
  /\ blanks = 0

(* A plausible bug, for the mutation run: the writer's counters read in    *)
(* the order in which they are reported.                                   *)
WriterPlanAsReported == <<<<"batch_writer", "received">>, <<"batch_writer", "rows">>,
                          <<"batch_writer", "buffered">>>>

(* What stats() reads and the panel shows, as pairs of a section and a     *)
(* field, in the order of the code: each node's hits twice, for the total  *)
(* that its hit rate is out of and, once size() has had the lock, for the  *)
(* rate and for themselves.  Beside the snapshot of Metrics is the history *)
(* of its moment.                                                          *)
NodePlan(n) == <<<<n, "total">>, <<n, "counts">>>>
MetricsPlan == <<<<"requests_and_latency", "snapshot">>>>
CachePlan == [i \in 1..(2 * Len(Nodes)) |-> NodePlan(Nodes[(i + 1) \div 2])[2 - (i % 2)]]
WriterPlan == <<<<"batch_writer", "buffered">>, <<"batch_writer", "rows">>,
                <<"batch_writer", "received">>>>
Plan == MetricsPlan \o CachePlan \o WriterPlan

Value(section, field) ==
  CASE field = "snapshot" -> [metrics |-> Metric!Snapshot, blanks |-> blanks]
    [] field = "buffered" -> Cardinality(buffer)
    [] field = "rows" -> rowsWritten
    [] field = "received" -> received
    [] field = "total" -> nodeHits[section] + nodeMisses[section]
    [] field = "counts" -> [hits |-> nodeHits[section], misses |-> nodeMisses[section]]

TypeOK ==
  /\ buffer \subseteq Queries /\ batch \subseteq Queries
  /\ received \in 0..MaxSearches /\ rowsWritten \in 0..MaxSearches
  /\ Metric!MetricsTypeOK
  /\ nodeHits \in [ToSet(Nodes) -> Nat] /\ nodeMisses \in [ToSet(Nodes) -> Nat]
  /\ request \in [Threads -> {"none", "hit", "miss", "search"}]
  /\ \A p \in Polls : DOMAIN poll[p] \subseteq ToSet(Plan)
  /\ DOMAIN shown \in {{}, ToSet(Plan)}
  /\ healthy \in BOOLEAN /\ blanks \in 0..MaxSuggests

--------------------------------------------------------------------------------
(* A plausible bug, for the mutation run: a panel that drops an answer     *)
(* while another poll is out.                                              *)
AnswerOutdated(p) ==
  IF \E o \in Polls \ {p} : poll[o] # <<>> THEN shown ELSE poll[p]

--------------------------------------------------------------------------------
(* Requests.                                                               *)

Goes(t, at) == request' = [request EXCEPT ![t] = at]
Suggests == suggestRequests + Cardinality({t \in Threads : request[t] \in {"hit", "miss"}})
Free(t) == request[t] = "none"

(* suggest() of an empty prefix is recorded as a hit of no node. *)
SuggestBlank(t) ==
  /\ Free(t) /\ Suggests < MaxSuggests
  /\ \E ms \in Latencies : Metric!RecordSuggest(ms, TRUE)
  /\ blanks' = blanks + 1
  /\ UNCHANGED <<writerVars, nodeVars, pageVars, request>>

(* cache.get(): the node that owns the key counts a hit or a miss. *)
Lookup(t, n) ==
  /\ Free(t) /\ Suggests < MaxSuggests
  /\ \/ nodeHits' = [nodeHits EXCEPT ![n] = @ + 1] /\ Goes(t, "hit") /\ UNCHANGED nodeMisses
     \/ nodeMisses' = [nodeMisses EXCEPT ![n] = @ + 1] /\ Goes(t, "miss") /\ UNCHANGED nodeHits
  /\ UNCHANGED <<writerVars, metricsVars, pageVars, blanks>>

(* metrics.record_suggest(), before the answer. *)
RecordSuggest(t) ==
  /\ request[t] \in {"hit", "miss"}
  /\ \E ms \in Latencies : Metric!RecordSuggest(ms, request[t] = "hit")
  /\ Goes(t, "none")
  /\ UNCHANGED <<writerVars, nodeVars, pageVars, blanks>>

(* search(): the critical section of batch_writer.enqueue() ... *)
Enqueue(t, q) ==
  /\ Free(t) /\ received < MaxSearches
  /\ buffer' = buffer \cup {q} /\ received' = received + 1
  /\ Goes(t, "search")
  /\ UNCHANGED <<batch, rowsWritten, metricsVars, nodeVars, pageVars, blanks>>

(* ... and metrics.record_search(). *)
RecordSearch(t) ==
  /\ request[t] = "search"
  /\ Metric!RecordSearch
  /\ Goes(t, "none")
  /\ UNCHANGED <<writerVars, nodeVars, pageVars, blanks>>

(* The batch writer drains its buffer, and counts the rows when the flush  *)
(* is done.  When it wakes up is the business of BatchWriter.              *)
Drain ==
  /\ buffer # {} /\ batch = {}
  /\ batch' = buffer /\ buffer' = {}
  /\ UNCHANGED <<received, rowsWritten, metricsVars, nodeVars, pageVars, request, blanks>>

Account ==
  /\ batch # {}
  /\ rowsWritten' = rowsWritten + Cardinality(batch) /\ batch' = {}
  /\ UNCHANGED <<buffer, received, metricsVars, nodeVars, pageVars, request, blanks>>

--------------------------------------------------------------------------------
(* The panel, and stats() on its behalf.                                   *)

(* setInterval(loadStats, 2000) sends a poll whether or not the answers to *)
(* earlier ones are back.  stats() then takes one reading after the other. *)
(* Readings change nothing, so nothing is lost by not starting one stats() *)
(* within another: its answer is one that it could have given alone.       *)
Answered(p) == DOMAIN poll[p] = ToSet(Plan)
Reads(answer, next) ==
  [r \in DOMAIN answer \cup {next} |-> IF r = next THEN Value(r[1], r[2]) ELSE answer[r]]
Read(p) ==
  /\ ~Answered(p)
  /\ \A o \in Polls \ {p} : poll[o] = <<>> \/ Answered(o)
  /\ poll' = [poll EXCEPT ![p] = Reads(@, Plan[Cardinality(DOMAIN @) + 1])]
  /\ UNCHANGED <<writerVars, metricsVars, nodeVars, request, shown, healthy, blanks>>

(* An answer is shown, whatever is on the panel. *)
Shows(p) == poll[p]
AnswerArrives(p) ==
  /\ Answered(p)
  /\ shown' = Shows(p) /\ healthy' = TRUE
  /\ poll' = [poll EXCEPT ![p] = <<>>]
  /\ UNCHANGED <<writerVars, metricsVars, nodeVars, request, blanks>>

(* fetch() fails, before or after stats() has run: the panel stays as it   *)
(* is, and the dot turns.                                                  *)
AnswerFails(p) ==
  /\ poll[p] # <<>>
  /\ poll' = [poll EXCEPT ![p] = <<>>]
  /\ healthy' = FALSE
  /\ UNCHANGED <<writerVars, metricsVars, nodeVars, request, shown, blanks>>

--------------------------------------------------------------------------------

RequestGoesOn(t) == RecordSuggest(t) \/ RecordSearch(t)
AnswerEnds(p) == AnswerArrives(p) \/ AnswerFails(p)

Next ==
  \/ \E t \in Threads : SuggestBlank(t) \/ RequestGoesOn(t)
  \/ \E t \in Threads, n \in ToSet(Nodes) : Lookup(t, n)
  \/ \E t \in Threads, q \in Queries : Enqueue(t, q)
  \/ Drain \/ Account
  \/ \E p \in Polls : Read(p) \/ AnswerEnds(p)

Spec == Init /\ [][Next]_vars

(* Threads are scheduled, what is buffered is flushed (FlushedWhileAlive   *)
(* of BatchWriter), the page polls, and every poll ends one way or the     *)
(* other.  Nobody has to send a request.                                   *)
FairSpec ==
  /\ Spec
  /\ \A t \in Threads : WF_vars(RequestGoesOn(t))
  /\ WF_vars(Drain) /\ WF_vars(Account)
  /\ \A p \in Polls : WF_vars(Read(p)) /\ WF_vars(AnswerEnds(p))

--------------------------------------------------------------------------------
(* Properties.                                                             *)

Answers == {poll[p] : p \in {o \in Polls : Answered(o)}} \cup ({shown} \ {<<>>})
NodeHits(answer) == MapThenSumSet(LAMBDA n : answer[<<n, "counts">>].hits, ToSet(Nodes))
NodeMisses(answer) == MapThenSumSet(LAMBDA n : answer[<<n, "counts">>].misses, ToSet(Nodes))

(* The sections of one answer belong to different moments, but no request  *)
(* is counted as answered that another section has not counted as done:    *)
(* hits of Metrics, blank prefixes aside, and misses are within those of   *)
(* the nodes, and searches within those the writer has received; and the   *)
(* savings of batching are not negative, so that the max(0, ...) of        *)
(* writes_saved hides nothing.  This rests on the order in which stats()   *)
(* reads: Metrics, where requests record last, first, and rows before the  *)
(* searches they came from.                                                *)
SectionsAddUp ==
  \A a \in Answers :
    LET reading == a[MetricsPlan[1]]
        m == reading.metrics
        searches == a[<<"batch_writer", "received">>]
    IN  /\ m.hits <= NodeHits(a) + reading.blanks
        /\ m.misses <= NodeMisses(a)
        /\ m.searches <= searches
        /\ a[<<"batch_writer", "rows">>] <= searches

(* What the panel shows may be of no single moment, with a node's hit rate *)
(* above 1 even, and an older answer may replace a newer one, but it comes *)
(* right: when requests have stopped (which MaxSuggests and MaxSearches    *)
(* see to) and polls no longer fail, the panel comes to show the counters  *)
(* as they are, for good, and the dot is green.                            *)
PollsStopFailing == <>[][\A p \in Polls : ~AnswerFails(p)]_vars
Truthful ==
  /\ healthy /\ DOMAIN shown = ToSet(Plan)
  /\ \A r \in DOMAIN shown : shown[r] = Value(r[1], r[2])
DashboardSettles == PollsStopFailing => <>[]Truthful
================================================================================
