--------------------------------- MODULE Metrics ---------------------------------
(***************************************************************************)
(* class Metrics of app/metrics.py: the request counters and the rolling   *)
(* window of suggest latencies, every operation a critical section of one  *)
(* lock.  Dashboard composes it with the counters that live elsewhere.     *)
(***************************************************************************)
EXTENDS Percentile, Sequences, TLC

CONSTANTS
  LatencyWindow,  \* latency_window: latencies kept
  Latencies       \* the latencies a request may have, in ms

VARIABLES
  latencies,        \* _suggest_latencies_ms
  suggestRequests,  \* suggest_requests
  cacheHits,        \* suggest_cache_hits
  cacheMisses,      \* suggest_cache_misses
  searchRequests    \* search_requests

metricsVars == <<latencies, suggestRequests, cacheHits, cacheMisses, searchRequests>>

MetricsInit ==
  /\ latencies = <<>>
  /\ suggestRequests = 0 /\ cacheHits = 0 /\ cacheMisses = 0 /\ searchRequests = 0

(* append() to a deque of bounded length: the oldest falls out. *)
Rolled(window, ms) ==
  LET longer == Append(window, ms)
  IN  IF Len(longer) > LatencyWindow THEN Tail(longer) ELSE longer

RecordSuggest(ms, hit) ==
  /\ latencies' = Rolled(latencies, ms)
  /\ suggestRequests' = suggestRequests + 1
  /\ cacheHits' = IF hit THEN cacheHits + 1 ELSE cacheHits
  /\ cacheMisses' = IF hit THEN cacheMisses ELSE cacheMisses + 1
  /\ UNCHANGED searchRequests

RecordSearch ==
  /\ searchRequests' = searchRequests + 1
  /\ UNCHANGED <<latencies, suggestRequests, cacheHits, cacheMisses>>

PercentileOf(sorted, pct) ==
  IF sorted = <<>> THEN 0 ELSE sorted[Rank(pct, Len(sorted)) + 1]

(* snapshot(); the hit rate is that of its hits and misses. *)
Snapshot ==
  LET sorted == SortSeq(latencies, LAMBDA l, m : l < m)
  IN  [suggests |-> suggestRequests, searches |-> searchRequests,
       hits |-> cacheHits, misses |-> cacheMisses,
       p50 |-> PercentileOf(sorted, 50), p95 |-> PercentileOf(sorted, 95),
       p99 |-> PercentileOf(sorted, 99),
       max |-> IF sorted = <<>> THEN 0 ELSE sorted[Len(sorted)]]

MetricsTypeOK ==
  /\ latencies \in Seq(Latencies) /\ Len(latencies) <= LatencyWindow
  /\ suggestRequests \in Nat /\ searchRequests \in Nat
  /\ cacheHits \in Nat /\ cacheMisses \in Nat
================================================================================
