------------------------- MODULE TypeaheadServiceProofs -------------------------
(***************************************************************************)
(* Theorems about the service, for every set of queries and every dataset, *)
(* every number of threads, searches and crashes, and every setting.       *)
(*                                                                         *)
(* They rest on what is proved about the components: a step of the service *)
(* is a step of BatchWriter and of SuggestionTrie, or leaves them alone,   *)
(* so their invariants are invariants here.  Added to these is what holds  *)
(* between the components: between the buffer, the batch and the database, *)
(* between the database and the index, and between the index and the lists *)
(* under way to the cache and in it.                                       *)
(***************************************************************************)
EXTENDS TypeaheadService, FiniteSetTheorems, SequenceTheorems, TLAPS

WP == INSTANCE BatchWriterProofs WITH CallbackMayRaise <- TRUE
IP == INSTANCE SuggestionTrieProofs WITH MaxCount <- MaxSearches

--------------------------------------------------------------------------------
(* The writer of the service is the writer of BatchWriterProofs.           *)

LEMMA WriterAssumption == WP!BatchWriterAssumption
<1>1. \A S : WP!IsFiniteSet(S) <=> IsFiniteSet(S)
  BY DEF WP!IsFiniteSet, IsFiniteSet
<1> QED
  BY <1>1, ServiceAssumption DEF WP!BatchWriterAssumption

LEMMA WriterKeys ==
  /\ \A S : Writer!Cardinality(S) = WP!Cardinality(S)
  /\ \A f : Writer!Keys(f) = WP!Keys(f)
BY DEF Writer!Cardinality, WP!Cardinality, Writer!Keys, WP!Keys

(* A step of the writer thread, but for its callback. *)
LEMMA LoopSteps == Writer!WriterStep \/ Writer!WakeOnTimer => WP!WriterStep \/ WP!WakeOnTimer
<1>1. Writer!TestStop => WP!TestStop
  BY DEF Writer!TestStop, WP!TestStop, Writer!queueVars, WP!queueVars, Writer!statVars, WP!statVars
<1>2. Writer!WakeOnEvent => WP!WakeOnEvent
  BY DEF Writer!WakeOnEvent, WP!WakeOnEvent, Writer!queueVars, WP!queueVars,
         Writer!statVars, WP!statVars
<1>3. Writer!WakeOnTimer => WP!WakeOnTimer
  BY DEF Writer!WakeOnTimer, WP!WakeOnTimer, Writer!queueVars, WP!queueVars,
         Writer!statVars, WP!statVars
<1>4. Writer!Clear => WP!Clear
  BY DEF Writer!Clear, WP!Clear, Writer!queueVars, WP!queueVars, Writer!statVars, WP!statVars
<1>5. Writer!DrainNothing => WP!DrainNothing
  BY WriterKeys DEF Writer!DrainNothing, WP!DrainNothing, Writer!AfterFlush, WP!AfterFlush,
         Writer!queueVars, WP!queueVars, Writer!statVars, WP!statVars
<1>6. Writer!Drain => WP!Drain
  BY WriterKeys DEF Writer!Drain, WP!Drain, Writer!NoSearches, WP!NoSearches,
         Writer!statVars, WP!statVars
<1>7. Writer!Account => WP!Account
  BY WriterKeys DEF Writer!Account, WP!Account, Writer!Written, WP!Written,
         Writer!NoSearches, WP!NoSearches, Writer!AfterFlush, WP!AfterFlush
<1> QED
  BY <1>1, <1>2, <1>3, <1>4, <1>5, <1>6, <1>7 DEF Writer!WriterStep, WP!WriterStep

LEMMA EnqueueSteps ==
  ASSUME NEW t \in Senders, NEW q \in Queries
  PROVE  /\ Writer!Enqueue(t, q) => WP!Enqueue(t, q)
         /\ Writer!Trip(t) => WP!Trip(t)
BY WriterKeys DEF Writer!Enqueue, WP!Enqueue, Writer!Coalesced, WP!Coalesced,
       Writer!Trips, WP!Trips, Writer!Trip, WP!Trip,
       Writer!queueVars, WP!queueVars, Writer!statVars, WP!statVars

LEMMA CallbackSteps ==
  /\ Writer!CallbackReturns => WP!CallbackReturns
  /\ Writer!CallbackRaises => WP!CallbackRaises
BY DEF Writer!CallbackReturns, WP!CallbackReturns, Writer!CallbackRaises, WP!CallbackRaises,
       Writer!Merge, WP!Merge, Writer!NoSearches, WP!NoSearches, Writer!statVars, WP!statVars

LEMMA MainSteps ==
  /\ Writer!Start => WP!Start
  /\ Writer!StopSet => WP!StopSet
  /\ Writer!StopTrip => WP!StopTrip
  /\ Writer!JoinReturns => WP!JoinReturns
  /\ Writer!JoinTimesOut => WP!JoinTimesOut
BY DEF Writer!Start, WP!Start, Writer!StopSet, WP!StopSet, Writer!StopTrip, WP!StopTrip,
       Writer!JoinReturns, WP!JoinReturns, Writer!JoinTimesOut, WP!JoinTimesOut,
       Writer!WriterEnded, WP!WriterEnded,
       Writer!queueVars, WP!queueVars, Writer!statVars, WP!statVars

--------------------------------------------------------------------------------
(* The invariant, part by part.  First, requests: what each thread carries *)
(* from one step to the next, and what the cache's keys are.               *)

At(t, places) == request[t].at \in places

RequestInv ==
  /\ DOMAIN request = Senders
  /\ \A t \in Senders :
       /\ At(t, {"idle", "compute", "rank", "fill", "enqueue"})
       /\ At(t, {"compute", "rank"}) => request[t].key \in Keys
       /\ At(t, {"rank"}) => request[t].key[1] = "recency"
       /\ At(t, {"enqueue"}) => request[t].query \in Queries
  /\ DOMAIN putting = {t \in Senders : At(t, {"fill"})}
  /\ \A t \in DOMAIN putting : putting[t].key \in Keys
  /\ DOMAIN held \subseteq Keys
  /\ overtaken \subseteq Senders /\ tainted \subseteq DOMAIN held
  /\ main = "starting" => DOMAIN held = {} /\ \A t \in Senders : request[t] = Idle

(* The writer, whose batch is not empty when it calls back. *)
WriterInv ==
  /\ WP!TypeOK /\ WP!Handshake
  /\ writer = "callback" => \E q \in Queries : batch[q] > 0

LEMMA WriterNext ==
  ASSUME RequestInv, [Next]_vars, ~ProcessEnds
  PROVE  [WP!Next]_(WP!vars)
<1> SUFFICES WP!Next \/ UNCHANGED writerVars
  BY DEF writerVars, WP!vars, WP!queueVars, WP!statVars
<1>1. ASSUME NEW t \in Senders, NEW k \in Asked, SuggestHit(t, k) \/ SuggestMiss(t, k)
      PROVE  UNCHANGED writerVars
  BY <1>1 DEF SuggestHit, SuggestMiss
<1>2. ASSUME NEW t \in Senders, NEW q \in Queries, Search(t, q) PROVE UNCHANGED writerVars
  BY <1>2 DEF Search
<1>3. ASSUME NEW t \in Senders, RequestStep(t) PROVE WP!Next \/ UNCHANGED writerVars
  <2>1. CASE Compute(t) \/ ReadCandidates(t) \/ ReadRecency(t) \/ Fill(t)
    BY <2>1 DEF Compute, ReadCandidates, ReadRecency, Fill
  <2>2. CASE Enqueue(t)
    <3>1. request[t].query \in Queries /\ Writer!Enqueue(t, request[t].query)
      BY <2>2 DEF Enqueue, RequestInv, At
    <3>2. WP!Enqueue(t, request[t].query)
      BY <3>1, EnqueueSteps
    <3> QED
      BY <3>1, <3>2 DEF WP!Next
  <2>3. CASE Trip(t)
    <3>1. Writer!Trip(t)
      BY <2>3 DEF Trip
    <3>3. Writer!Trip(t) => WP!Trip(t)
      BY DEF Writer!Trip, WP!Trip, Writer!queueVars, WP!queueVars, Writer!statVars, WP!statVars
    <3> QED
      BY <3>1, <3>3 DEF WP!Next
  <2> QED
    BY <1>3, <2>1, <2>2, <2>3 DEF RequestStep
<1>4. CASE (\E q \in Queries : Fade(q)) \/ (\E k \in Keys : Expire(k))
  BY <1>4 DEF Fade, Expire
<1>5. CASE WriterLoop
  BY <1>5, LoopSteps DEF WriterLoop, WP!Next
<1>6. CASE FlushStep
  <2>1. CASE ApplyBatch \/ Refresh \/ InvalidateKey
    BY <2>1 DEF ApplyBatch, Refresh, InvalidateKey
  <2>2. CASE FlushReturns
    BY <2>2, CallbackSteps DEF FlushReturns, WP!Next
  <2> QED
    BY <1>6, <2>1, <2>2 DEF FlushStep
<1>7. CASE ApplyToClosed \/ ApplyFails \/ ReadBackFails
  BY <1>7, CallbackSteps DEF ApplyToClosed, ApplyFails, ReadBackFails, WP!Next
<1>8. CASE Start \/ Stop
  BY <1>8, MainSteps DEF Start, Stop, WP!Next
<1>9. CASE BuildIndex \/ CloseStore \/ UNCHANGED vars
  BY <1>9 DEF BuildIndex, CloseStore, vars
<1> QED
  BY <1>1, <1>2, <1>3, <1>4, <1>5, <1>6, <1>7, <1>8, <1>9 DEF Next

LEMMA WriterInit == Init => WriterInv
<1> SUFFICES ASSUME Init PROVE WriterInv
  OBVIOUS
<1>1. WP!Init
  BY DEF Init, Writer!Init, WP!Init, Writer!NoSearches, WP!NoSearches
<1> QED
  BY <1>1, WriterAssumption, WP!TypeInit, WP!HandshakeInit DEF WriterInv, WP!Init

LEMMA WriterStays ==
  ASSUME RequestInv, WriterInv, [Next]_vars
  PROVE  WriterInv'
<1>1. CASE ProcessEnds
  <2>1. /\ buffer' = None /\ batch' = None /\ dropped' = None
        /\ accepted' = None /\ delivered' = None
        /\ received' = 0 /\ rowsWritten' = 0 /\ flushCount' = 0 /\ lastFlushRows' = 0
        /\ flushNow' = FALSE /\ stopFlag' = FALSE /\ final' = FALSE
        /\ sender' = [t \in Senders |-> "idle"]
        /\ writer' = "unstarted" /\ main' = "starting"
    BY <1>1 DEF ProcessEnds
  <2>2. None \in [Queries -> Nat] /\ WP!NoSearches = None /\ WP!Keys(None) = {}
    BY DEF None, WP!NoSearches, WP!Keys
  <2> QED
    BY <2>1, <2>2 DEF WriterInv, WP!TypeOK, WP!Handshake
<1>2. CASE ~ProcessEnds
  <2>1. [WP!Next]_(WP!vars)
    BY <1>2, WriterNext
  <2>2. WP!TypeOK' /\ WP!Handshake'
    BY <2>1, WriterAssumption, WP!TypeStep, WP!HandshakeStep DEF WriterInv
  <2>3. ASSUME writer' = "callback" PROVE \E q \in Queries : batch'[q] > 0
    <3>1. CASE WP!Drain
      BY <3>1 DEF WP!Drain, WP!Keys
    <3>2. CASE ~WP!Drain
      <4>1. writer = "callback" /\ batch' = batch
        <5>1. ASSUME NEW t \in Senders, NEW q \in Queries, WP!Enqueue(t, q)
              PROVE  UNCHANGED <<writer, batch>>
          BY <5>1 DEF WP!Enqueue
        <5>2. ASSUME NEW t \in Senders, WP!Trip(t) PROVE UNCHANGED <<writer, batch>>
          BY <5>2 DEF WP!Trip, WP!queueVars
        <5>3. CASE WP!WriterStep \/ WP!WakeOnTimer
          BY <2>3, <3>2, <5>3 DEF WP!WriterStep, WP!TestStop, WP!WakeOnEvent, WP!WakeOnTimer,
             WP!Clear, WP!DrainNothing, WP!Account, WP!AfterFlush
        <5>4. CASE WP!CallbackReturns \/ WP!CallbackRaises
          BY <2>3, <5>4 DEF WP!CallbackReturns, WP!CallbackRaises
        <5>5. CASE WP!Start \/ WP!StopSet \/ WP!StopTrip \/ WP!JoinReturns \/ WP!JoinTimesOut
          BY <2>3, <5>5 DEF WP!Start, WP!StopSet, WP!StopTrip, WP!JoinReturns, WP!JoinTimesOut,
             WP!queueVars
        <5>6. CASE WP!Exited \/ UNCHANGED WP!vars
          BY <2>3, <5>6 DEF WP!Exited, WP!vars, WP!queueVars
        <5> QED
          BY <2>1, <2>3, <5>1, <5>2, <5>3, <5>4, <5>5, <5>6 DEF WP!Next
      <4> QED
        BY <4>1 DEF WriterInv
    <3> QED
      BY <3>1, <3>2
  <2> QED
    BY <2>2, <2>3 DEF WriterInv
<1> QED
  BY <1>1, <1>2

LEMMA RequestInit == Init => RequestInv
<1> SUFFICES ASSUME Init PROVE RequestInv
  OBVIOUS
<1>1. /\ held = <<>> /\ putting = <<>> /\ overtaken = {} /\ tainted = {}
      /\ request = [t \in Senders |-> Idle]
  BY DEF Init, Cache!Init
<1>2. DOMAIN held = {} /\ DOMAIN putting = {}
  BY <1>1
<1>3. Idle.at = "idle"
  BY DEF Idle
<1> QED
  BY <1>1, <1>2, <1>3 DEF RequestInv, At

LEMMA RequestStays ==
  ASSUME RequestInv, WriterInv, [Next]_vars
  PROVE  RequestInv'
<1> USE DEF At
<1>0. Idle.at = "idle" /\ Asked \subseteq Keys
  BY ServiceAssumption DEF Idle
<1>1. ASSUME NEW t \in Senders, NEW k \in Asked, SuggestHit(t, k) \/ SuggestMiss(t, k)
      PROVE  RequestInv'
  <2>1. CASE SuggestHit(t, k)
    BY <2>1 DEF SuggestHit, Cache!Hit, own, history, writerVars, RequestInv
  <2>2. CASE SuggestMiss(t, k)
    BY <1>0, <2>2 DEF SuggestMiss, Cache!Miss, Cache!Restrict, Goes, Free, Idle, writerVars, RequestInv
  <2> QED
    BY <1>1, <2>1, <2>2
<1>2. ASSUME NEW t \in Senders, NEW q \in Queries, Search(t, q) PROVE RequestInv'
  BY <1>0, <1>2 DEF Search, Goes, Free, cacheVars, history, writerVars, RequestInv
<1>3. ASSUME NEW t \in Senders, Compute(t) PROVE RequestInv'
  BY <1>0, <1>3 DEF Compute, Cache!BeginPut, Goes, writerVars, RequestInv
<1>4. ASSUME NEW t \in Senders, ReadCandidates(t) PROVE RequestInv'
  BY <1>0, <1>4 DEF ReadCandidates, Goes, cacheVars, writerVars, RequestInv
<1>5. ASSUME NEW t \in Senders, ReadRecency(t) PROVE RequestInv'
  BY <1>0, <1>5 DEF ReadRecency, Cache!BeginPut, Goes, history, writerVars, RequestInv
<1>6. ASSUME NEW t \in Senders, Fill(t) PROVE RequestInv'
  BY <1>0, <1>6 DEF Fill, Cache!Put, Cache!Restrict, Goes, writerVars, RequestInv
<1>7. ASSUME NEW t \in Senders, Enqueue(t) PROVE RequestInv'
  BY <1>0, <1>7 DEF Enqueue, Writer!Enqueue, Goes, cacheVars, RequestInv
<1>8. ASSUME NEW t \in Senders, Trip(t) PROVE RequestInv'
  BY <1>8 DEF Trip, Writer!Trip, cacheVars, own, history, RequestInv
<1>9. CASE \E q \in Queries : Fade(q)
  BY <1>9 DEF Fade, cacheVars, history, writerVars, RequestInv
<1>10. CASE \E k \in Keys : Expire(k)
  BY <1>10 DEF Expire, Cache!Invalidate, Cache!Restrict, own, writerVars, RequestInv
<1>11. CASE WriterLoop
  <2>1. main' = main /\ UNCHANGED <<cacheVars, own, history>>
    BY <1>11 DEF WriterLoop, Writer!WriterStep, Writer!TestStop, Writer!WakeOnEvent,
       Writer!WakeOnTimer, Writer!Clear, Writer!DrainNothing, Writer!Drain, Writer!Account
  <2> QED
    BY <2>1 DEF cacheVars, own, history, RequestInv
<1>12. CASE FlushStep
  <2>1. CASE ApplyBatch \/ Refresh
    BY <2>1 DEF ApplyBatch, Refresh, cacheVars, history, writerVars, RequestInv
  <2>2. CASE InvalidateKey
    BY <2>2 DEF InvalidateKey, Cache!Invalidate, Cache!Restrict, writerVars, RequestInv
  <2>3. CASE FlushReturns
    BY <2>3 DEF FlushReturns, Writer!CallbackReturns, cacheVars, history, RequestInv
  <2> QED
    BY <1>12, <2>1, <2>2, <2>3 DEF FlushStep
<1>13. CASE ApplyToClosed \/ ApplyFails \/ ReadBackFails
  BY <1>13 DEF ApplyToClosed, ApplyFails, ReadBackFails, Writer!CallbackRaises, cacheVars, own,
     history, RequestInv
<1>14. CASE Start
  BY <1>14 DEF Start, Writer!Start, cacheVars, own, history, RequestInv
<1>15. CASE Stop
  <2>1. UNCHANGED <<cacheVars, own, history>> /\ main' # "starting"
    BY <1>15 DEF Stop, Writer!StopSet, Writer!StopTrip, Writer!JoinReturns, Writer!JoinTimesOut
  <2> QED
    BY <2>1 DEF cacheVars, own, history, RequestInv
<1>16. CASE BuildIndex \/ CloseStore \/ UNCHANGED vars
  BY <1>16 DEF BuildIndex, CloseStore, vars, cacheVars, own, history, writerVars, RequestInv
<1>17. CASE ProcessEnds
  <2>1. /\ DOMAIN held' = {} /\ DOMAIN putting' = {} /\ overtaken' = {} /\ tainted' = {}
        /\ request' = [t \in Senders |-> Idle]
    BY <1>17 DEF ProcessEnds
  <2> QED
    BY <1>0, <2>1 DEF RequestInv
<1> QED
  BY <1>1, <1>2, <1>3, <1>4, <1>5, <1>6, <1>7, <1>8, <1>9, <1>10, <1>11, <1>12, <1>13, <1>14,
     <1>15, <1>16, <1>17 DEF Next, RequestStep

--------------------------------------------------------------------------------
(* The flush, step by step, and the process around it.                     *)

FlushInv ==
  /\ flush = [at |-> flush.at, rows |-> flush.rows, keys |-> flush.keys]
  /\ flush.at \in {"apply", "refresh", "invalidate"}
  /\ flush.at = "apply" => flush = AtRest
  /\ flush.at # "apply" => writer = "callback"
  /\ closed \in BOOLEAN
  /\ closed => main \in {"joined", "timedOut"}

LEMMA FlushInit == Init => FlushInv
<1>1. AtRest = [at |-> AtRest.at, rows |-> AtRest.rows, keys |-> AtRest.keys] /\ AtRest.at = "apply"
  BY DEF AtRest
<1>2. Init => flush = AtRest /\ closed = FALSE
  BY DEF Init
<1> QED
  BY <1>1, <1>2 DEF FlushInv

LEMMA FlushStays ==
  ASSUME FlushInv, WriterInv, [Next]_vars
  PROVE  FlushInv'
<1>1. ASSUME NEW t \in Senders, NEW k \in Asked, SuggestHit(t, k) \/ SuggestMiss(t, k)
      PROVE  FlushInv'
  BY <1>1 DEF SuggestHit, SuggestMiss, own, storeVars, writerVars, FlushInv
<1>0. ASSUME NEW t \in Senders, NEW q \in Queries, Search(t, q) PROVE FlushInv'
  BY <1>0 DEF Search, storeVars, writerVars, FlushInv
<1>2. ASSUME NEW t \in Senders, RequestStep(t) PROVE FlushInv'
  BY <1>2 DEF RequestStep, Compute, ReadCandidates, ReadRecency, Fill, Enqueue, Trip,
     Writer!Enqueue, Writer!Trip, own, storeVars, writerVars, FlushInv
<1>3. CASE (\E q \in Queries : Fade(q)) \/ (\E k \in Keys : Expire(k))
  BY <1>3 DEF Fade, Expire, own, storeVars, writerVars, FlushInv
<1>4. CASE WriterLoop
  <2>1. main' = main /\ writer # "callback" /\ UNCHANGED own
    BY <1>4 DEF WriterLoop, Writer!WriterStep, Writer!TestStop, Writer!WakeOnEvent,
       Writer!WakeOnTimer, Writer!Clear, Writer!DrainNothing, Writer!Drain, Writer!Account
  <2> QED
    BY <2>1 DEF own, storeVars, FlushInv
<1>5. CASE ApplyBatch
  <2>1. /\ \E rows, keys : flush' = [at |-> "refresh", rows |-> rows, keys |-> keys]
        /\ writer = "callback" /\ UNCHANGED <<writer, main, closed>>
    BY <1>5 DEF ApplyBatch, writerVars
  <2> QED
    BY <2>1 DEF FlushInv
<1>6. CASE Refresh
  <2>1. /\ flush' = [at |-> IF Len(flush.rows) > 1 THEN "refresh" ELSE "invalidate",
                     rows |-> Tail(flush.rows), keys |-> flush.keys]
        /\ flush.at = "refresh" /\ UNCHANGED <<writer, main, closed>>
    BY <1>6 DEF Refresh, writerVars, storeVars, FlushInv
  <2> QED
    BY <2>1 DEF FlushInv
<1>7. CASE InvalidateKey
  <2>1. /\ flush' = [at |-> "invalidate", rows |-> flush.rows, keys |-> Tail(flush.keys)]
        /\ flush.at = "invalidate" /\ UNCHANGED <<writer, main, closed>>
    BY <1>7 DEF InvalidateKey, writerVars, storeVars, FlushInv
  <2> QED
    BY <2>1 DEF FlushInv
<1>8. CASE FlushReturns
  BY <1>8 DEF FlushReturns, Writer!CallbackReturns, storeVars, AtRest, FlushInv
<1>9. CASE ApplyToClosed \/ ApplyFails \/ ReadBackFails
  BY <1>9 DEF ApplyToClosed, ApplyFails, ReadBackFails, Writer!CallbackRaises, own, storeVars,
     FlushInv
<1>10. CASE Start
  BY <1>10 DEF Start, Writer!Start, own, storeVars, FlushInv, WriterInv, WP!Handshake
<1>11. CASE Stop
  BY <1>11 DEF Stop, Writer!StopSet, Writer!StopTrip, Writer!JoinReturns, Writer!JoinTimesOut,
     own, storeVars, FlushInv
<1>12. CASE CloseStore
  BY <1>12 DEF CloseStore, MayClose, Writer!StopReturned, writerVars, FlushInv
<1>13. CASE ProcessEnds
  BY <1>13 DEF ProcessEnds, AtRest, FlushInv
<1>14. CASE BuildIndex \/ UNCHANGED vars
  BY <1>14 DEF BuildIndex, vars, own, storeVars, writerVars, FlushInv
<1> QED
  BY <1>0, <1>1, <1>2, <1>3, <1>4, <1>5, <1>6, <1>7, <1>8, <1>9, <1>10, <1>11, <1>12, <1>13,
     <1>14 DEF Next, FlushStep

--------------------------------------------------------------------------------
(* The books: every recorded search is in the database, in the losses, in  *)
(* the buffer, in a batch yet to be applied, or in one that was dropped.   *)
(* Only a batch that was committed and could not be read back counts as    *)
(* dropped although it is in the database; rows left in an open            *)
(* transaction are of the batch that was dropped.                          *)

StoreInv ==
  /\ DOMAIN store \subseteq Queries /\ store \in [DOMAIN store -> Nat]
  /\ pending \in [Queries -> Nat]
  /\ recorded \in [Queries -> Nat] /\ lost \in [Queries -> Nat]
  /\ \A q \in Queries : CountIn(Dataset, q) <= CountIn(store, q)

Unapplied(q) == IF writer = "callback" /\ flush.at = "apply" THEN batch[q] ELSE 0
Booked(q) == Durable[q] + lost[q] + buffer[q] + Unapplied(q) + dropped[q] = recorded[q]
BookedTwice(q) == Durable[q] + lost[q] + buffer[q] = recorded[q]

BooksInv ==
  /\ \/ \A q \in Queries : Booked(q)
     \/ writer = "dead" /\ pending = None /\ \A q \in Queries : BookedTwice(q)
  /\ \/ pending = None
     \/ writer = "dead" /\ \A q \in Queries : pending[q] <= dropped[q]

LEMMA DatasetCounts == \A q : CountIn(Dataset, q) \in Nat
BY ServiceAssumption DEF CountIn

LEMMA StoreCounts ==
  ASSUME StoreInv
  PROVE  /\ \A q : CountIn(store, q) \in Nat
         /\ \A q \in Queries : /\ Durable[q] = CountIn(store, q) - CountIn(Dataset, q)
                               /\ Durable[q] \in Nat
<1>1. \A q : CountIn(store, q) \in Nat
  BY DEF StoreInv, CountIn
<1>2. \A q \in Queries : CountIn(Dataset, q) <= CountIn(store, q)
  BY DEF StoreInv
<1>3. \A q \in Queries : Durable[q] = CountIn(store, q) - CountIn(Dataset, q)
  BY DEF Durable
<1> QED
  BY <1>1, <1>2, <1>3, DatasetCounts

(* What a committed batch makes of the database. *)
LEMMA CommittedCounts ==
  ASSUME StoreInv, WP!TypeOK, store' = Committed
  PROVE  /\ \A q \in Queries : CountIn(store', q) = CountIn(store, q) + batch[q]
         /\ \A q \in Queries : Durable'[q] = Durable[q] + batch[q]
         /\ DOMAIN store' \subseteq Queries /\ store' \in [DOMAIN store' -> Nat]
         /\ DOMAIN store' = DOMAIN store \cup {q \in Queries : batch[q] > 0}
         /\ \A q \in Queries : CountIn(Dataset, q) <= CountIn(store', q)
<1> DEFINE D == DOMAIN store \cup {q \in Queries : batch[q] > 0}
<1>1. store' = [q \in D |-> CountIn(store, q) + batch[q]]
  BY DEF Committed, Added, Writer!Keys
<1>2. \A q \in Queries : batch[q] \in Nat
  BY DEF WP!TypeOK
<1>3. D \subseteq Queries
  BY DEF StoreInv
<1>4. \A q \in Queries : CountIn(store, q) \in Nat
  BY StoreCounts
<1>5. ASSUME NEW q \in Queries PROVE CountIn(store', q) = CountIn(store, q) + batch[q]
  <2>1. CASE q \in D
    BY <1>1, <2>1 DEF CountIn
  <2>2. CASE q \notin D
    <3>1. CountIn(store, q) = 0 /\ batch[q] = 0
      BY <1>2, <2>2 DEF CountIn
    <3>2. CountIn(store', q) = 0
      BY <1>1, <2>2 DEF CountIn
    <3> QED
      BY <3>1, <3>2
  <2> QED
    BY <2>1, <2>2
<1>6. store' \in [D -> Nat] /\ DOMAIN store' = D
  <2>1. \A q \in D : CountIn(store, q) + batch[q] \in Nat
    BY <1>2, <1>3, <1>4
  <2> HIDE DEF D
  <2> QED
    BY <1>1, <2>1
<1>7. \A q \in Queries : Durable'[q] = CountIn(store', q) - CountIn(Dataset, q)
  BY DEF Durable
<1>8. \A q \in Queries : Durable'[q] = Durable[q] + batch[q]
  BY <1>2, <1>4, <1>5, <1>7, StoreCounts, DatasetCounts
<1>9. \A q \in Queries : CountIn(Dataset, q) <= CountIn(store', q)
  BY <1>2, <1>4, <1>5, DatasetCounts DEF StoreInv
<1> QED
  BY <1>3, <1>5, <1>6, <1>8, <1>9

LEMMA BooksInit == Init => StoreInv /\ BooksInv
<1> SUFFICES ASSUME Init PROVE StoreInv /\ BooksInv
  OBVIOUS
<1>1. /\ store = Dataset /\ pending = None /\ recorded = None /\ lost = None
      /\ buffer = None /\ dropped = None /\ writer = "unstarted"
  BY DEF Init, Writer!Init, Writer!NoSearches, None
<1>2. None \in [Queries -> Nat] /\ \A q \in Queries : None[q] = 0
  BY DEF None
<1>3. \A q \in Queries : CountIn(Dataset, q) <= CountIn(store, q)
  BY <1>1, DatasetCounts
<1>4. StoreInv
  BY <1>1, <1>2, <1>3, ServiceAssumption DEF StoreInv
<1>5. ASSUME NEW q \in Queries PROVE Booked(q)
  <2>1. Durable[q] = 0
    BY <1>1, <1>4, StoreCounts, DatasetCounts
  <2> QED
    BY <1>1, <1>2, <2>1 DEF Booked, Unapplied
<1> QED
  BY <1>1, <1>4, <1>5 DEF BooksInv

(* What a service step does to the books, if it is not one of the steps    *)
(* that move searches: nothing.                                            *)
SameBooks ==
  /\ UNCHANGED <<store, pending, recorded, lost, buffer, dropped>>
  /\ writer' = "dead" <=> writer = "dead"
  /\ \A q \in Queries : Unapplied(q)' = Unapplied(q)

LEMMA SameBooksStay ==
  ASSUME StoreInv, BooksInv, SameBooks
  PROVE  StoreInv' /\ BooksInv'
<1>1. Durable' = Durable
  BY DEF Durable, SameBooks
<1>2. \A q \in Queries : (Booked(q)' <=> Booked(q)) /\ (BookedTwice(q)' <=> BookedTwice(q))
  BY <1>1 DEF Booked, BookedTwice, SameBooks
<1> QED
  BY <1>2 DEF StoreInv, BooksInv, SameBooks

(* The steps that move no search. *)
LEMMA QuietSteps ==
  ASSUME FlushInv, RequestInv, WriterInv,
         \/ \E t \in Senders, k \in Asked : SuggestHit(t, k) \/ SuggestMiss(t, k)
         \/ \E t \in Senders, q \in Queries : Search(t, q)
         \/ \E t \in Senders : \/ Compute(t) \/ ReadCandidates(t) \/ ReadRecency(t) \/ Fill(t)
                               \/ Trip(t)
         \/ \E q \in Queries : Fade(q)
         \/ \E k \in Keys : Expire(k)
         \/ WriterLoop /\ ~Writer!Drain
         \/ Refresh \/ InvalidateKey \/ FlushReturns
         \/ BuildIndex \/ Start \/ Stop \/ UNCHANGED vars
  PROVE  SameBooks
<1> USE DEF SameBooks, Unapplied
<1>1. ASSUME NEW t \in Senders, NEW k \in Asked, SuggestHit(t, k) \/ SuggestMiss(t, k)
      PROVE  SameBooks
  BY <1>1 DEF SuggestHit, SuggestMiss, own, storeVars, history, writerVars
<1>2. ASSUME NEW t \in Senders, NEW q \in Queries, Search(t, q) PROVE SameBooks
  BY <1>2 DEF Search, storeVars, history, writerVars
<1>3. ASSUME NEW t \in Senders, Compute(t) \/ ReadCandidates(t) \/ ReadRecency(t) \/ Fill(t)
      PROVE  SameBooks
  BY <1>3 DEF Compute, ReadCandidates, ReadRecency, Fill, storeVars, history, writerVars
<1>4. ASSUME NEW t \in Senders, Trip(t) PROVE SameBooks
  BY <1>4 DEF Trip, Writer!Trip, Writer!queueVars, own, storeVars, history
<1>5. CASE (\E q \in Queries : Fade(q)) \/ (\E k \in Keys : Expire(k))
  BY <1>5 DEF Fade, Expire, own, storeVars, history, writerVars
<1>6. CASE WriterLoop /\ ~Writer!Drain
  <2>1. /\ UNCHANGED <<store, pending, recorded, lost, buffer, dropped, flush>>
        /\ writer \notin {"callback", "dead"} /\ writer' \notin {"callback", "dead"}
    BY <1>6 DEF WriterLoop, Writer!WriterStep, Writer!TestStop, Writer!WakeOnEvent,
       Writer!WakeOnTimer, Writer!Clear, Writer!DrainNothing, Writer!Account,
       Writer!AfterFlush, Writer!queueVars, own, storeVars, history
  <2> QED
    BY <2>1
<1>7. CASE Refresh \/ InvalidateKey
  <2>1. /\ UNCHANGED <<writer, batch, buffer, dropped, store, pending, recorded, lost>>
        /\ flush.at # "apply" /\ flush'.at # "apply"
    <3>1. CASE Refresh
      <4>1. /\ flush' = [at |-> IF Len(flush.rows) > 1 THEN "refresh" ELSE "invalidate",
                         rows |-> Tail(flush.rows), keys |-> flush.keys]
            /\ flush.at = "refresh"
        BY <3>1 DEF Refresh, FlushInv
      <4> QED
        BY <3>1, <4>1 DEF Refresh, writerVars, storeVars, history
    <3>2. CASE InvalidateKey
      <4>1. /\ flush' = [at |-> "invalidate", rows |-> flush.rows, keys |-> Tail(flush.keys)]
            /\ flush.at = "invalidate"
        BY <3>2 DEF InvalidateKey, FlushInv
      <4> QED
        BY <3>2, <4>1 DEF InvalidateKey, writerVars, storeVars
    <3> QED
      BY <1>7, <3>1, <3>2
  <2> QED
    BY <2>1
<1>8. CASE FlushReturns
  BY <1>8 DEF FlushReturns, Writer!CallbackReturns, storeVars, history
<1>9. CASE Start
  BY <1>9 DEF Start, Writer!Start, Writer!queueVars, own, storeVars, history,
     WriterInv, WP!Handshake
<1>10. CASE Stop
  BY <1>10 DEF Stop, Writer!StopSet, Writer!StopTrip, Writer!JoinReturns, Writer!JoinTimesOut,
     Writer!queueVars, own, storeVars, history
<1>11. CASE BuildIndex \/ UNCHANGED vars
  BY <1>11 DEF BuildIndex, vars, own, storeVars, history, writerVars
<1> QED
  BY <1>1, <1>2, <1>3, <1>4, <1>5, <1>6, <1>7, <1>8, <1>9, <1>10, <1>11

(* The steps that do. *)
LEMMA EnqueueBooks ==
  ASSUME StoreInv, BooksInv, RequestInv, WP!TypeOK, NEW t \in Senders, Enqueue(t)
  PROVE  StoreInv' /\ BooksInv'
<1>1. PICK r \in Queries : /\ buffer' = [buffer EXCEPT ![r] = @ + 1]
                           /\ recorded' = [recorded EXCEPT ![r] = @ + 1]
  BY DEF Enqueue, Writer!Enqueue, Writer!Coalesced, RequestInv, At
<1>2. UNCHANGED <<store, pending, lost, dropped, batch, writer, flush>>
  BY DEF Enqueue, Writer!Enqueue, storeVars
<1>3. Durable' = Durable
  BY <1>2 DEF Durable
<1>4. ASSUME NEW q \in Queries
      PROVE  (Booked(q) => Booked(q)') /\ (BookedTwice(q) => BookedTwice(q)')
  <2>1. Unapplied(q)' = Unapplied(q) /\ Unapplied(q) \in Nat
    BY <1>2 DEF Unapplied, WP!TypeOK
  <2>2. Durable[q] \in Nat /\ lost[q] \in Nat /\ buffer[q] \in Nat /\ dropped[q] \in Nat
    BY StoreCounts DEF StoreInv, WP!TypeOK
  <2>3. CASE q = r
    <3>1. buffer'[q] = buffer[q] + 1 /\ recorded'[q] = recorded[q] + 1
      BY <1>1, <2>3 DEF StoreInv, WP!TypeOK
    <3> QED
      BY <1>2, <1>3, <2>1, <2>2, <3>1 DEF Booked, BookedTwice
  <2>4. CASE q # r
    <3>1. buffer'[q] = buffer[q] /\ recorded'[q] = recorded[q]
      BY <1>1, <2>4 DEF StoreInv, WP!TypeOK
    <3> QED
      BY <1>2, <1>3, <2>1, <3>1 DEF Booked, BookedTwice
  <2> QED
    BY <2>3, <2>4
<1>5. StoreInv'
  BY <1>1, <1>2 DEF StoreInv
<1> QED
  BY <1>2, <1>4, <1>5 DEF BooksInv

LEMMA DrainBooks ==
  ASSUME StoreInv, BooksInv, FlushInv, WriterInv, WriterLoop, Writer!Drain
  PROVE  StoreInv' /\ BooksInv'
<1>1. /\ writer = "drain" /\ writer' = "callback" /\ batch' = buffer
      /\ buffer' = [q \in Queries |-> 0]
      /\ UNCHANGED <<store, pending, recorded, lost, dropped, flush>>
  BY DEF WriterLoop, Writer!Drain, Writer!NoSearches, own, storeVars, history
<1>2. flush.at = "apply"
  BY <1>1 DEF FlushInv
<1>3. Durable' = Durable
  BY <1>1 DEF Durable
<1>4. ASSUME NEW q \in Queries PROVE Booked(q)'
  <2>1. Unapplied(q) = 0 /\ Unapplied(q)' = buffer[q] /\ buffer'[q] = 0
    BY <1>1, <1>2 DEF Unapplied
  <2>2. Durable[q] \in Nat /\ lost[q] \in Nat /\ buffer[q] \in Nat /\ dropped[q] \in Nat
    BY StoreCounts DEF StoreInv, WriterInv, WP!TypeOK
  <2>3. Booked(q)
    BY <1>1 DEF BooksInv
  <2> QED
    BY <1>1, <1>3, <2>1, <2>2, <2>3 DEF Booked
<1> QED
  BY <1>1, <1>4 DEF StoreInv, BooksInv

LEMMA ApplyBooks ==
  ASSUME StoreInv, BooksInv, FlushInv, WriterInv, ApplyBatch
  PROVE  StoreInv' /\ BooksInv'
<1>1. /\ writer = "callback" /\ flush.at = "apply" /\ store' = Committed
      /\ UNCHANGED <<writer, batch, buffer, dropped, pending, recorded, lost>>
  BY DEF ApplyBatch, writerVars, history
<1>2. flush'.at = "refresh"
  BY DEF ApplyBatch
<1>3. /\ \A q \in Queries : Durable'[q] = Durable[q] + batch[q]
      /\ DOMAIN store' \subseteq Queries /\ store' \in [DOMAIN store' -> Nat]
      /\ \A q \in Queries : CountIn(Dataset, q) <= CountIn(store', q)
  BY <1>1, CommittedCounts DEF WriterInv
<1>4. ASSUME NEW q \in Queries PROVE Booked(q)'
  <2>1. Unapplied(q) = batch[q] /\ Unapplied(q)' = 0
    BY <1>1, <1>2 DEF Unapplied
  <2>2. /\ Durable[q] \in Nat /\ lost[q] \in Nat /\ buffer[q] \in Nat /\ dropped[q] \in Nat
        /\ batch[q] \in Nat
    BY StoreCounts DEF StoreInv, WriterInv, WP!TypeOK
  <2>3. Booked(q)
    BY <1>1 DEF BooksInv
  <2> QED
    BY <1>1, <1>3, <2>1, <2>2, <2>3 DEF Booked
<1> QED
  BY <1>1, <1>3, <1>4 DEF StoreInv, BooksInv

(* A callback that raises drops its batch; nothing was dropped before.     *)
LEMMA RaisesBooks ==
  ASSUME WriterInv, Writer!CallbackRaises
  PROVE  /\ writer = "callback" /\ writer' = "dead" /\ UNCHANGED <<buffer, main>>
         /\ \A q \in Queries : dropped[q] = 0 /\ dropped'[q] = batch[q] /\ batch[q] \in Nat
<1>1. /\ writer = "callback" /\ writer' = "dead" /\ UNCHANGED <<buffer, main>>
      /\ dropped' = [q \in Queries |-> dropped[q] + batch[q]]
  BY DEF Writer!CallbackRaises, Writer!Merge
<1>2. dropped = [q \in Queries |-> 0]
  BY <1>1 DEF WriterInv, WP!Handshake, WP!NoSearches
<1> QED
  BY <1>1, <1>2 DEF WriterInv, WP!TypeOK

LEMMA FailureBooks ==
  ASSUME StoreInv, BooksInv, FlushInv, WriterInv, ApplyToClosed \/ ApplyFails
  PROVE  StoreInv' /\ BooksInv'
<1>1. /\ flush.at = "apply" /\ Writer!CallbackRaises
      /\ UNCHANGED <<store, recorded, lost, flush>>
  BY DEF ApplyToClosed, ApplyFails, own, storeVars, history
<1>2. /\ writer = "callback" /\ writer' = "dead" /\ UNCHANGED <<buffer, main>>
      /\ \A q \in Queries : dropped[q] = 0 /\ dropped'[q] = batch[q] /\ batch[q] \in Nat
  BY <1>1, RaisesBooks
<1>3. Durable' = Durable
  BY <1>1 DEF Durable
<1>4. ASSUME NEW q \in Queries PROVE Booked(q)'
  <2>1. Unapplied(q) = batch[q] /\ Unapplied(q)' = 0
    BY <1>1, <1>2 DEF Unapplied
  <2>2. Durable[q] \in Nat /\ lost[q] \in Nat /\ buffer[q] \in Nat
    BY StoreCounts DEF StoreInv, WriterInv, WP!TypeOK
  <2>3. Booked(q)
    BY <1>2 DEF BooksInv
  <2> QED
    BY <1>1, <1>2, <1>3, <2>1, <2>2, <2>3 DEF Booked
<1>5. pending = None
  BY <1>2 DEF BooksInv
<1>6. pending' \in [Queries -> Nat] /\ \A q \in Queries : pending'[q] <= dropped'[q]
  <2>1. CASE ApplyToClosed
    <3>1. pending' = None
      BY <1>5, <2>1 DEF ApplyToClosed, own, storeVars
    <3> QED
      BY <1>2, <3>1 DEF None
  <2>2. CASE ApplyFails
    <3>1. PICK rows : pending' = [q \in Queries |-> IF q \in rows THEN batch[q] ELSE 0]
      BY <2>2 DEF ApplyFails
    <3> QED
      BY <1>2, <3>1
  <2> QED
    BY <2>1, <2>2
<1> QED
  BY <1>1, <1>2, <1>4, <1>6 DEF StoreInv, BooksInv

LEMMA ReadBackBooks ==
  ASSUME StoreInv, BooksInv, FlushInv, WriterInv, ReadBackFails
  PROVE  StoreInv' /\ BooksInv'
<1>1. /\ flush.at = "apply" /\ Writer!CallbackRaises /\ store' = Committed
      /\ UNCHANGED <<pending, recorded, lost, flush>>
  BY DEF ReadBackFails, history
<1>2. /\ writer = "callback" /\ writer' = "dead" /\ UNCHANGED <<buffer, main>>
      /\ \A q \in Queries : dropped[q] = 0 /\ dropped'[q] = batch[q] /\ batch[q] \in Nat
  BY <1>1, RaisesBooks
<1>3. /\ \A q \in Queries : Durable'[q] = Durable[q] + batch[q]
      /\ DOMAIN store' \subseteq Queries /\ store' \in [DOMAIN store' -> Nat]
      /\ \A q \in Queries : CountIn(Dataset, q) <= CountIn(store', q)
  BY <1>1, CommittedCounts DEF WriterInv
<1>4. pending' = None
  BY <1>1, <1>2 DEF BooksInv
<1>5. ASSUME NEW q \in Queries PROVE BookedTwice(q)'
  <2>1. Unapplied(q) = batch[q]
    BY <1>1, <1>2 DEF Unapplied
  <2>2. Durable[q] \in Nat /\ lost[q] \in Nat /\ buffer[q] \in Nat
    BY StoreCounts DEF StoreInv, WriterInv, WP!TypeOK
  <2>3. Booked(q)
    BY <1>2 DEF BooksInv
  <2> QED
    BY <1>1, <1>2, <1>3, <2>1, <2>2, <2>3 DEF Booked, BookedTwice
<1> QED
  BY <1>1, <1>2, <1>3, <1>4, <1>5 DEF StoreInv, BooksInv

LEMMA CloseBooks ==
  ASSUME StoreInv, BooksInv, CloseStore
  PROVE  StoreInv' /\ BooksInv'
<1>1. /\ UNCHANGED <<store, recorded, lost, buffer, batch, dropped, writer, flush>>
      /\ pending' = None
  BY DEF CloseStore, writerVars, history
<1>2. Durable' = Durable /\ None \in [Queries -> Nat]
  BY <1>1 DEF Durable, None
<1>3. \A q \in Queries : (Booked(q)' <=> Booked(q)) /\ (BookedTwice(q)' <=> BookedTwice(q))
  BY <1>1, <1>2 DEF Booked, BookedTwice, Unapplied
<1> QED
  BY <1>1, <1>2, <1>3 DEF StoreInv, BooksInv

(* In the database and in the losses there is never more than was recorded. *)
LEMMA BooksBound ==
  ASSUME StoreInv, BooksInv, WP!TypeOK, NEW q \in Queries
  PROVE  Durable[q] + lost[q] <= recorded[q]
<1>1. /\ Durable[q] \in Nat /\ lost[q] \in Nat /\ buffer[q] \in Nat /\ dropped[q] \in Nat
      /\ Unapplied(q) \in Nat
  BY StoreCounts DEF StoreInv, WP!TypeOK, Unapplied
<1>2. Booked(q) \/ BookedTwice(q)
  BY DEF BooksInv
<1> QED
  BY <1>1, <1>2 DEF Booked, BookedTwice

LEMMA EndBooks ==
  ASSUME StoreInv, BooksInv, WP!TypeOK, ProcessEnds
  PROVE  /\ StoreInv' /\ BooksInv'
         /\ \A q \in Queries : lost[q] <= lost'[q] /\ Durable[q] + lost'[q] = recorded[q]
<1>1. /\ UNCHANGED <<store, recorded>> /\ pending' = None
      /\ buffer' = None /\ dropped' = None /\ writer' = "unstarted"
      /\ lost' = [q \in Queries |-> recorded[q] - Durable[q]]
  BY DEF ProcessEnds
<1>2. Durable' = Durable
  BY <1>1 DEF Durable
<1>3. \A q \in Queries : None[q] = 0
  BY DEF None
<1>4. None \in [Queries -> Nat]
  BY DEF None
<1>5. ASSUME NEW q \in Queries
      PROVE  /\ lost'[q] = recorded[q] - Durable[q] /\ lost'[q] \in Nat
             /\ lost[q] <= lost'[q] /\ Durable[q] + lost'[q] = recorded[q]
  <2>1. /\ Durable[q] \in Nat /\ lost[q] \in Nat /\ recorded[q] \in Nat
        /\ Durable[q] + lost[q] <= recorded[q]
    BY StoreCounts, BooksBound DEF StoreInv
  <2> QED
    BY <1>1, <2>1
<1>6. ASSUME NEW q \in Queries PROVE Booked(q)'
  <2>1. Durable[q] \in Nat /\ recorded[q] \in Nat
    BY StoreCounts DEF StoreInv
  <2>2. Unapplied(q)' = 0 /\ buffer'[q] = 0 /\ dropped'[q] = 0
    BY <1>1, <1>3 DEF Unapplied
  <2> QED
    BY <1>1, <1>2, <1>5, <2>1, <2>2 DEF Booked
<1>7. lost' \in [Queries -> Nat]
  BY <1>1, <1>5
<1>8. StoreInv'
  BY <1>1, <1>4, <1>7 DEF StoreInv
<1> QED
  BY <1>1, <1>5, <1>6, <1>8 DEF BooksInv

LEMMA BooksStay ==
  ASSUME StoreInv, BooksInv, FlushInv, RequestInv, WriterInv, [Next]_vars
  PROVE  StoreInv' /\ BooksInv'
<1>1. CASE SameBooks
  BY <1>1, SameBooksStay
<1>2. CASE ~SameBooks
  <2>1. \/ (\E t \in Senders : Enqueue(t)) \/ (WriterLoop /\ Writer!Drain)
        \/ ApplyBatch \/ ApplyToClosed \/ ApplyFails \/ ReadBackFails
        \/ CloseStore \/ ProcessEnds
    BY <1>2, QuietSteps, Zenon DEF Next, RequestStep, FlushStep
  <2> QED
    BY <2>1, EnqueueBooks, DrainBooks, ApplyBooks, FailureBooks, ReadBackBooks, CloseBooks,
       EndBooks, Zenon DEF WriterInv
<1> QED
  BY <1>1, <1>2

BaseInv == RequestInv /\ WriterInv /\ FlushInv /\ StoreInv /\ BooksInv

LEMMA BaseInvariant == Spec => []BaseInv
<1>1. Init => BaseInv
  BY RequestInit, WriterInit, FlushInit, BooksInit DEF BaseInv
<1>2. BaseInv /\ [Next]_vars => BaseInv'
  BY RequestStays, WriterStays, FlushStays, BooksStay DEF BaseInv
<1> QED
  BY <1>1, <1>2, PTL DEF Spec

--------------------------------------------------------------------------------
(* What follows from the books.                                            *)

SettledBound == \A q \in Queries : Durable[q] + lost[q] <= recorded[q]

(* Over any number of crashes and restarts, failed flushes and closed      *)
(* stores, a recorded search settles once at most: the service, from       *)
(* POST /search to the database file, implements CountLedger.              *)
THEOREM ImplementsLedger == Spec => LedgerSpec
<1>1. Init => Ledger!Init
  <2> SUFFICES ASSUME Init PROVE Ledger!Init
    OBVIOUS
  <2>1. recorded = [q \in Queries |-> 0] /\ lost = [q \in Queries |-> 0] /\ store = Dataset
    BY DEF Init, None
  <2>2. \A q \in Queries : CountIn(store, q) - CountIn(Dataset, q) = 0
    BY <2>1, DatasetCounts
  <2>3. Durable = [q \in Queries |-> 0]
    BY <2>2 DEF Durable
  <2> QED
    BY <2>1, <2>3 DEF Ledger!Init
<1>2. BaseInv => SettledBound
  BY BooksBound DEF BaseInv, WriterInv, SettledBound
<1>3. BaseInv /\ SettledBound' /\ [Next]_vars => [Ledger!Next]_(Ledger!vars)
  <2> SUFFICES ASSUME BaseInv, SettledBound', [Next]_vars
               PROVE  Ledger!Next \/ UNCHANGED Ledger!vars
    OBVIOUS
  <2>1. CASE SameBooks
    <3>1. Durable' = Durable
      BY <2>1 DEF Durable, SameBooks
    <3> QED
      BY <2>1, <3>1 DEF Ledger!vars, SameBooks
  <2>2. ASSUME NEW t \in Senders, Enqueue(t) PROVE Ledger!Next
    <3>1. PICK r \in Queries : recorded' = [recorded EXCEPT ![r] = @ + 1]
      BY <2>2 DEF Enqueue, RequestInv, BaseInv, At
    <3>2. UNCHANGED <<store, lost>>
      BY <2>2 DEF Enqueue, storeVars
    <3>3. Durable' = Durable
      BY <3>2 DEF Durable
    <3> QED
      BY <3>1, <3>2, <3>3 DEF Ledger!Next, Ledger!Accept
  <2>3. ASSUME UNCHANGED recorded,
               \A q \in Queries : Durable[q] <= Durable'[q] /\ lost[q] <= lost'[q],
               DOMAIN lost' = Queries
        PROVE  Ledger!Next
    <3>1. DOMAIN Durable' = Queries
      BY DEF Durable
    <3> QED
      BY <2>3, <3>1 DEF Ledger!Next, Ledger!Settle, SettledBound
  <2>4. \A q \in Queries : Durable[q] \in Nat /\ lost[q] \in Nat /\ batch[q] \in Nat
    BY StoreCounts DEF BaseInv, StoreInv, WriterInv, WP!TypeOK
  <2>5. ASSUME store' = Committed, UNCHANGED <<recorded, lost>> PROVE Ledger!Next
    <3>1. \A q \in Queries : Durable'[q] = Durable[q] + batch[q]
      BY <2>5, CommittedCounts DEF BaseInv, WriterInv
    <3>2. DOMAIN lost' = Queries
      BY <2>5 DEF BaseInv, StoreInv
    <3> QED
      BY <2>3, <2>4, <2>5, <3>1, <3>2
  <2>6. CASE ApplyBatch \/ ReadBackFails
    BY <2>5, <2>6 DEF ApplyBatch, ReadBackFails, history
  <2>7. ASSUME UNCHANGED <<store, recorded, lost>> PROVE UNCHANGED Ledger!vars
    <3>1. Durable' = Durable
      BY <2>7 DEF Durable
    <3> QED
      BY <2>7, <3>1 DEF Ledger!vars
  <2>8. CASE (WriterLoop /\ Writer!Drain) \/ ApplyToClosed \/ ApplyFails \/ CloseStore
    BY <2>7, <2>8 DEF WriterLoop, ApplyToClosed, ApplyFails, CloseStore, own, storeVars, history
  <2>9. CASE ProcessEnds
    <3>1. Durable' = Durable /\ UNCHANGED recorded /\ DOMAIN lost' = Queries
      BY <2>9 DEF ProcessEnds, Durable
    <3>2. \A q \in Queries : lost[q] <= lost'[q]
      BY <2>9, EndBooks DEF BaseInv, WriterInv
    <3> QED
      BY <2>3, <2>4, <3>1, <3>2
  <2>10. CASE ~SameBooks
    <3>1. \/ (\E t \in Senders : Enqueue(t)) \/ (WriterLoop /\ Writer!Drain)
          \/ ApplyBatch \/ ApplyToClosed \/ ApplyFails \/ ReadBackFails
          \/ CloseStore \/ ProcessEnds
      BY <2>10, QuietSteps, Zenon DEF Next, RequestStep, FlushStep, BaseInv
    <3> QED
      BY <2>2, <2>6, <2>8, <2>9, <3>1, Zenon
  <2> QED
    BY <2>1, <2>10
<1> QED
  BY <1>1, <1>2, <1>3, BaseInvariant, PTL DEF Spec, LedgerSpec, Ledger!Spec

(* If no transaction fails, only a flush that outlived join() can raise,   *)
(* since its store was closed before it.                                   *)
OnlyLateFlushRaises == writer = "dead" => main = "timedOut"

LEMMA TimedOutStays ==
  ASSUME [WP!Next]_(WP!vars), main = "timedOut"
  PROVE  main' = "timedOut"
<1>1. ASSUME NEW s \in Senders, NEW q \in Queries, WP!Enqueue(s, q) PROVE main' = main
  BY <1>1 DEF WP!Enqueue
<1>2. ASSUME NEW s \in Senders, WP!Trip(s) PROVE main' = main
  BY <1>2 DEF WP!Trip
<1>3. CASE WP!WriterStep \/ WP!WakeOnTimer \/ WP!CallbackReturns \/ WP!CallbackRaises
  BY <1>3 DEF WP!WriterStep, WP!TestStop, WP!WakeOnEvent, WP!WakeOnTimer, WP!Clear,
     WP!DrainNothing, WP!Drain, WP!Account, WP!CallbackReturns, WP!CallbackRaises
<1>4. CASE WP!Exited \/ UNCHANGED WP!vars
  BY <1>4 DEF WP!Exited, WP!vars
<1> QED
  BY <1>1, <1>2, <1>3, <1>4
     DEF WP!Next, WP!Start, WP!StopSet, WP!StopTrip, WP!JoinReturns, WP!JoinTimesOut

LEMMA OnlyLateFlushRaisesStays ==
  ASSUME FlushMayFail = FALSE, BaseInv, OnlyLateFlushRaises, [Next]_vars
  PROVE  OnlyLateFlushRaises'
<1> USE DEF OnlyLateFlushRaises
<1>1. CASE ProcessEnds
  BY <1>1 DEF ProcessEnds
<1>2. CASE ApplyToClosed
  <2>1. writer = "callback" /\ main' = main /\ main \in {"joined", "timedOut"}
    BY <1>2 DEF ApplyToClosed, Writer!CallbackRaises, BaseInv, FlushInv
  <2> QED
    BY <2>1 DEF BaseInv, WriterInv, WP!Handshake, WP!WriterEnded
<1>3. CASE ~ProcessEnds /\ ~ApplyToClosed
  <2>1. main = "timedOut" => main' = "timedOut"
    BY <1>3, WriterNext, TimedOutStays DEF BaseInv
  <2>2. writer' = "dead" => writer = "dead"
    <3>1. CASE SameBooks
      BY <3>1 DEF SameBooks
    <3>2. CASE ~SameBooks
      <4>1. \/ (\E t \in Senders : Enqueue(t)) \/ (WriterLoop /\ Writer!Drain)
            \/ ApplyBatch \/ ApplyFails \/ ReadBackFails \/ CloseStore
        BY <1>3, <3>2, QuietSteps, Zenon DEF Next, RequestStep, FlushStep, BaseInv
      <4>2. ~ApplyFails /\ ~ReadBackFails
        BY DEF ApplyFails, ReadBackFails
      <4>3. writer' = writer \/ writer' = "callback"
        BY <4>1, <4>2 DEF Enqueue, Writer!Enqueue, Writer!Drain, ApplyBatch, CloseStore,
           writerVars
      <4> QED
        BY <4>3
    <3> QED
      BY <3>1, <3>2
  <2> QED
    BY <2>1, <2>2
<1> QED
  BY <1>1, <1>2, <1>3

(* A writer that has run to its end leaves nothing behind. *)
LEMMA DoneMeansDurable ==
  ASSUME BaseInv, writer = "done", NEW q \in Queries
  PROVE  Durable[q] + lost[q] = recorded[q]
<1>1. buffer[q] = 0 /\ dropped[q] = 0
  BY DEF BaseInv, WriterInv, WP!Handshake, WP!Keys, WP!NoSearches, WP!TypeOK
<1>2. Unapplied(q) = 0
  BY DEF Unapplied
<1>3. Booked(q)
  BY DEF BaseInv, BooksInv
<1>4. Durable[q] \in Nat /\ lost[q] \in Nat
  BY StoreCounts DEF BaseInv, StoreInv
<1> QED
  BY <1>1, <1>2, <1>3, <1>4 DEF Booked

(* Flushes that fail included: a shutdown loses nothing unless one of them *)
(* ended the writer, or join() gave up on it.                              *)
THEOREM ShutdownUnlessRaised ==
  Spec => [](closed => \/ \A q \in Queries : Durable[q] + lost[q] = recorded[q]
                       \/ main = "timedOut" /\ writer # "done"
                       \/ writer = "dead")
<1>1. BaseInv => (closed => \/ \A q \in Queries : Durable[q] + lost[q] = recorded[q]
                            \/ main = "timedOut" /\ writer # "done"
                            \/ writer = "dead")
  <2>1. BaseInv /\ closed /\ ~(main = "timedOut" /\ writer # "done") /\ writer # "dead"
          => writer = "done"
    BY DEF BaseInv, FlushInv, WriterInv, WP!Handshake, WP!WriterEnded
  <2> QED
    BY <2>1, DoneMeansDurable
<1> QED
  BY <1>1, BaseInvariant, PTL

(* "a graceful shutdown loses nothing", all the way to the database: once  *)
(* the store is closed, every search recorded is in it, or was in an       *)
(* earlier process that crashed; unless join() gave up on the writer.      *)
THEOREM GracefulShutdown ==
  ASSUME FlushMayFail = FALSE
  PROVE  Spec => []ShutdownLosesNothing
<1>1. Init => OnlyLateFlushRaises
  BY DEF Init, Writer!Init, OnlyLateFlushRaises
<1>2. BaseInv /\ OnlyLateFlushRaises /\ [Next]_vars => OnlyLateFlushRaises'
  BY OnlyLateFlushRaisesStays
<1>3. BaseInv /\ OnlyLateFlushRaises => ShutdownLosesNothing
  <2>1. BaseInv /\ OnlyLateFlushRaises /\ closed /\ ~(main = "timedOut" /\ writer # "done")
          => writer = "done"
    BY DEF BaseInv, FlushInv, WriterInv, WP!Handshake, WP!WriterEnded, OnlyLateFlushRaises
  <2> QED
    BY <2>1, DoneMeansDurable DEF ShutdownLosesNothing
<1> QED
  BY <1>1, <1>2, <1>3, BaseInvariant, PTL DEF Spec

--------------------------------------------------------------------------------
(* The index of the service is the index of SuggestionTrieProofs.          *)

LEMMA IndexLibrary ==
  /\ \A S : IP!IsFiniteSet(S) <=> IsFiniteSet(S)
  /\ \A S : Index!Cardinality(S) = IP!Cardinality(S)
  /\ \A S : Cardinality(S) = IP!Cardinality(S)
  /\ \A f : IP!Range(f) = Range(f)
  /\ \A s : IP!Prefixes(s) = Prefixes(s) /\ Index!Prefixes(s) = Prefixes(s)
  /\ \A s, t : Index!IsPrefix(s, t) <=> IP!IsPrefix(s, t)
  /\ \A S : Index!Min(S) = IP!Min(S) /\ Min(S) = IP!Min(S)
BY DEF IP!IsFiniteSet, IsFiniteSet, Index!Cardinality, IP!Cardinality, Cardinality,
       IP!Range, Range, IP!Prefixes, Index!Prefixes, Prefixes, Index!IsPrefix, IP!IsPrefix,
       Index!Min, IP!Min, Min

LEMMA IndexAssumption == IP!TrieAssumption
BY IndexLibrary, ServiceAssumption DEF IP!TrieAssumption

LEMMA IndexOperators ==
  /\ \A S : IP!SetToSeqs(S) = SetToSeqs(S)
  /\ Index!Paths = IP!Paths
  /\ \A s, list : Index!SortedBy(s, list) = IP!SortedBy(s, list)
  /\ \A f, p, list : Index!BestOf(f, p, list) <=> IP!BestOf(f, p, list)
<1>1. \A S : IP!SetToSeqs(S) = SetToSeqs(S)
  BY IndexLibrary DEF IP!SetToSeqs, SetToSeqs
<1>2. Index!Paths = IP!Paths
  BY IndexLibrary DEF Index!Paths, IP!Paths
<1>3. \A s, list : Index!SortedBy(s, list) = IP!SortedBy(s, list)
  BY DEF Index!SortedBy, IP!SortedBy, Index!Rank, IP!Rank, Index!Cardinality, IP!Cardinality
<1>4. \A f, p, list : Index!BestOf(f, p, list) <=> IP!BestOf(f, p, list)
  BY DEF Index!BestOf, IP!BestOf, Index!Cardinality, IP!Cardinality, Index!Min, IP!Min,
     Index!IsPrefix, IP!IsPrefix
<1> QED
  BY <1>1, <1>2, <1>3, <1>4

LEMMA IndexSteps ==
  /\ Index!TrieInit => IP!TrieInit
  /\ \A f, order : Index!BulkInsert(f, order) => IP!BulkInsert(f, order)
  /\ \A q, c : Index!Insert(q, c) => IP!Insert(q, c)
<1> USE DEF Index!Paths, IP!Paths, Index!Prefixes, IP!Prefixes, Index!Indexed, IP!Indexed
<1>1. Index!TrieInit => IP!TrieInit
  BY DEF Index!TrieInit, IP!TrieInit
<1>2. \A t, q, c : Index!WalkOffer(t, q, c) = IP!WalkOffer(t, q, c)
  BY DEF Index!WalkOffer, IP!WalkOffer, Index!Offer, IP!Offer, Index!Holds, IP!Holds,
     Index!Place, IP!Place, Index!Updated, IP!Updated, Index!Sorted, IP!Sorted,
     Index!SortedBy, IP!SortedBy, Index!Rank, IP!Rank, Index!Cardinality, IP!Cardinality,
     Index!ReplaceAt, IP!ReplaceAt, Index!Room, IP!Room, Index!Beats, IP!Beats,
     Index!Last, IP!Last, Index!IsPrefix, IP!IsPrefix
<1>3. ASSUME NEW f, NEW order PROVE Index!BulkInsert(f, order) => IP!BulkInsert(f, order)
  BY DEF Index!BulkInsert, IP!BulkInsert, Index!OfferAll, IP!OfferAll,
     Index!WalkOffer, IP!WalkOffer, Index!Offer, IP!Offer, Index!Holds, IP!Holds,
     Index!Place, IP!Place, Index!Updated, IP!Updated, Index!Sorted, IP!Sorted,
     Index!SortedBy, IP!SortedBy, Index!Rank, IP!Rank, Index!Cardinality, IP!Cardinality,
     Index!ReplaceAt, IP!ReplaceAt, Index!Room, IP!Room, Index!Beats, IP!Beats,
     Index!Last, IP!Last, Index!IsPrefix, IP!IsPrefix
<1>4. \A q, c : Index!Insert(q, c) => IP!Insert(q, c)
  BY <1>2 DEF Index!Insert, IP!Insert, Index!Found, IP!Found
<1> QED
  BY <1>1, <1>3, <1>4

--------------------------------------------------------------------------------
(* The keys a flush has to invalidate.                                     *)

Flattens(f, ss, n, T) ==
  /\ f \in [1..n -> Seq(T)] /\ FlattenSeq(ss) = f[n] /\ f[1] = ss[1]
  /\ \A i \in 2..n : f[i] = f[i - 1] \o ss[i]

LEMMA FlattenLoops ==
  ASSUME NEW T, NEW ss \in Seq(Seq(T)), Len(ss) # 0
  PROVE  \E f : Flattens(f, ss, Len(ss), T)
<1> DEFINE n == Len(ss)
<1>0. n \in Nat /\ n # 0 /\ n = Len(ss)
  OBVIOUS
<1> DEFINE Body(g) == [i \in 1..n |-> IF i = 1 THEN ss[i] ELSE g[i - 1] \o ss[i]]
           step == [a \in (1..(n - 1)) \X Seq(T) |-> a[2] \o ss[a[1] + 1]]
           f == CHOOSE g : g = Body(g)
<1>1. FlattenSeq(ss) = f[n]
  BY <1>0, Zenon DEF FlattenSeq
<1> HIDE DEF n
<1>2. \A i \in 1..n : ss[i] \in Seq(T)
  BY <1>0, ElementOfSeq
<1>3. step \in [(1..(n - 1)) \X Seq(T) -> Seq(T)]
  <2>1. ASSUME NEW a \in (1..(n - 1)) \X Seq(T) PROVE a[2] \o ss[a[1] + 1] \in Seq(T)
    <3>1. a[2] \in Seq(T) /\ a[1] + 1 \in 1..n
      BY <1>0
    <3> QED
      BY <1>2, <3>1, ConcatProperties
  <2> QED
    BY <2>1
<1>4. PICK g : IP!Unrolls(g, Seq(T), ss[1], n - 1, step)
  <2>1. n - 1 \in Nat /\ ss[1] \in Seq(T)
    BY <1>0, <1>2
  <2> HIDE DEF step
  <2> QED
    BY <1>3, <2>1, IndexAssumption, IP!Recursion
<1>5. /\ g \in [0..(n - 1) -> Seq(T)] /\ g[0] = ss[1]
      /\ \A m \in 1..(n - 1) : g[m] = g[m - 1] \o ss[m + 1]
  <2>1. /\ g \in [0..(n - 1) -> Seq(T)] /\ g[0] = ss[1]
        /\ \A m \in 1..(n - 1) : g[m] = step[<<m, g[m - 1]>>]
    BY <1>4 DEF IP!Unrolls
  <2>2. ASSUME NEW m \in 1..(n - 1) PROVE g[m] = g[m - 1] \o ss[m + 1]
    <3>1. g[m - 1] \in Seq(T)
      <4>1. m - 1 \in 0..(n - 1)
        BY <1>0
      <4> QED
        BY <2>1, <4>1
    <3>2. <<m, g[m - 1]>> \in (1..(n - 1)) \X Seq(T)
      BY <3>1
    <3> QED
      BY <2>1, <3>2
  <2> QED
    BY <2>1, <2>2
<1> DEFINE h == [i \in 1..n |-> g[i - 1]]
<1>6. h = Body(h)
  <2>1. ASSUME NEW i \in 1..n
        PROVE  h[i] = IF i = 1 THEN ss[i] ELSE h[i - 1] \o ss[i]
    <3>1. CASE i = 1
      BY <1>0, <1>5, <3>1
    <3>2. CASE i # 1
      <4>1. i - 1 \in 1..(n - 1) /\ (i - 1) + 1 = i /\ i - 1 \in 1..n
        BY <1>0, <3>2
      <4> QED
        BY <1>5, <3>2, <4>1
    <3> QED
      BY <3>1, <3>2
  <2> QED
    BY <2>1
<1>7. f = Body(f)
  <2> HIDE DEF Body, h
  <2> QED
    BY <1>6
<1> HIDE DEF f, h, step
<1>8. f[1] = ss[1] /\ \A i \in 2..n : f[i] = f[i - 1] \o ss[i]
  <2>1. \A i \in 1..n : f[i] = IF i = 1 THEN ss[i] ELSE f[i - 1] \o ss[i]
    BY <1>7
  <2>2. 1 \in 1..n /\ \A i \in 2..n : i \in 1..n /\ i # 1
    BY <1>0
  <2> QED
    BY <2>1, <2>2
<1>9. f \in [1..n -> Seq(T)]
  <2> DEFINE S == {m \in 0..(n - 1) : f[m + 1] \in Seq(T)}
  <2>1. 0 \in S
    BY <1>0, <1>2, <1>8
  <2>2. ASSUME NEW m \in 0..((n - 1) - 1), m \in S PROVE m + 1 \in S
    <3>1. (m + 1) + 1 \in 2..n /\ m + 1 \in 0..(n - 1) /\ ((m + 1) + 1) - 1 = m + 1
      BY <1>0
    <3>2. f[(m + 1) + 1] = f[m + 1] \o ss[(m + 1) + 1]
      BY <1>8, <3>1
    <3>3. f[(m + 1) + 1] \in Seq(T)
      BY <1>2, <2>2, <3>1, <3>2, ConcatProperties
    <3> QED
      BY <3>1, <3>3
  <2>3. 0..(n - 1) \subseteq S
    <3>1. n - 1 \in Nat
      BY <1>0
    <3> HIDE DEF S
    <3> QED
      BY <2>1, <2>2, <3>1, IndexAssumption, IP!UpTo
  <2>4. f = [i \in 1..n |-> f[i]]
    BY <1>7
  <2>5. \A i \in 1..n : f[i] \in Seq(T)
    <3> TAKE i \in 1..n
    <3>1. i - 1 \in 0..(n - 1) /\ (i - 1) + 1 = i
      BY <1>0
    <3>2. i - 1 \in S
      BY <2>3, <3>1
    <3> QED
      BY <3>1, <3>2
  <2> QED
    BY <2>4, <2>5
<1> QED
  BY <1>1, <1>8, <1>9 DEF Flattens, n

LEMMA FlattenKeeps ==
  ASSUME NEW T, NEW ss \in Seq(Seq(T))
  PROVE  /\ FlattenSeq(ss) \in Seq(T)
         /\ \A i \in DOMAIN ss : \A j \in DOMAIN ss[i] :
              \E k \in DOMAIN FlattenSeq(ss) : FlattenSeq(ss)[k] = ss[i][j]
<1> DEFINE n == Len(ss)
<1>1. n \in Nat /\ DOMAIN ss = 1..n /\ \A i \in 1..n : ss[i] \in Seq(T)
  BY ElementOfSeq
<1>2. CASE n = 0
  <2>1. FlattenSeq(ss) = ss /\ ss = <<>>
    BY <1>2, EmptySeq DEF FlattenSeq
  <2> QED
    BY <2>1
<1>3. CASE n # 0
  <2> HIDE DEF n
  <2>1. PICK f : Flattens(f, ss, n, T)
    BY <1>3, FlattenLoops DEF n
  <2> USE <2>1 DEF Flattens
  <2> DEFINE Has(w, i) == \A j \in DOMAIN ss[i] : \E k \in DOMAIN w : w[k] = ss[i][j]
             S == {m \in 0..(n - 1) : \A i \in 1..(m + 1) : Has(f[m + 1], i)}
  <2>2. 0 \in S
    BY <1>1, <1>3, <2>1
  <2>3. ASSUME NEW m \in 0..((n - 1) - 1), m \in S PROVE m + 1 \in S
    <3> DEFINE v == f[m + 1]
               u == ss[m + 2]
               w == v \o u
    <3>1. m + 2 \in 2..n /\ m + 1 \in 1..n /\ (m + 1) + 1 = m + 2 /\ m + 1 \in 0..(n - 1)
      BY <1>1
    <3>2. f[m + 2] = w
      <4>1. (m + 2) - 1 = m + 1
        BY <3>1
      <4> QED
        BY <2>1, <3>1, <4>1
    <3>3. v \in Seq(T) /\ u \in Seq(T)
      BY <1>1, <2>1, <3>1
    <3>4. \A i \in 1..(m + 1) : Has(v, i)
      BY <2>3
    <3> HIDE DEF v, u
    <3>5. /\ w \in Seq(T) /\ Len(w) = Len(v) + Len(u) /\ Len(v) \in Nat /\ Len(u) \in Nat
          /\ \A i \in 1..(Len(v) + Len(u)) :
               w[i] = IF i <= Len(v) THEN v[i] ELSE u[i - Len(v)]
      BY <3>3, ConcatProperties
    <3>6. DOMAIN w = 1..(Len(v) + Len(u)) /\ DOMAIN v = 1..Len(v) /\ DOMAIN u = 1..Len(u)
      BY <3>3, <3>5
    <3> HIDE DEF w
    <3>7. \A k \in DOMAIN v : k \in DOMAIN w /\ w[k] = v[k]
      BY <3>5, <3>6
    <3>8. ASSUME NEW k \in DOMAIN u PROVE k + Len(v) \in DOMAIN w /\ w[k + Len(v)] = u[k]
      <4>1. k \in Nat /\ k >= 1 /\ k <= Len(u)
        BY <3>5, <3>6
      <4>2. /\ k + Len(v) \in 1..(Len(v) + Len(u)) /\ ~(k + Len(v) <= Len(v))
            /\ (k + Len(v)) - Len(v) = k
        BY <3>5, <4>1
      <4> QED
        BY <3>5, <3>6, <4>2
    <3>9. ASSUME NEW i \in 1..(m + 2) PROVE Has(w, i)
      <4>1. CASE i = m + 2
        <5>1. ss[i] = u
          BY <4>1 DEF u
        <5> QED
          BY <3>8, <5>1
      <4>2. CASE i # m + 2
        <5>1. i \in 1..(m + 1)
          BY <4>2
        <5>2. Has(v, i)
          BY <3>4, <5>1
        <5> QED
          BY <3>7, <5>2
      <4> QED
        BY <4>1, <4>2
    <3> HIDE DEF Has
    <3> QED
      BY <3>1, <3>2, <3>9
  <2>4. n - 1 \in S
    <3>1. n - 1 \in Nat
      BY <1>1, <1>3
    <3> HIDE DEF S
    <3>2. 0..(n - 1) \subseteq S
      BY <2>2, <2>3, <3>1, IndexAssumption, IP!UpTo
    <3> QED
      BY <3>1, <3>2
  <2>5. (n - 1) + 1 = n
    BY <1>1
  <2>6. \A i \in 1..n : Has(f[n], i)
    <3> HIDE DEF Has
    <3> QED
      BY <2>4, <2>5
  <2>7. f[n] \in Seq(T)
    BY <1>1, <1>3, <2>1
  <2> QED
    BY <1>1, <2>1, <2>6, <2>7
<1> QED
  BY <1>2, <1>3

--------------------------------------------------------------------------------

InFlush(k) == \E i \in DOMAIN flush.keys : flush.keys[i] = k

(* What a flush still has to do is a list of queries and a list of keys,   *)
(* and as long as it inserts it has all the keys of what it inserts.       *)
RowsInv ==
  /\ flush.rows \in Seq(Queries) /\ flush.keys \in Seq(Keys)
  /\ flush.at = "refresh" =>
       /\ flush.rows # <<>>
       /\ \A i \in DOMAIN flush.rows : \A p \in Prefixes(flush.rows[i]) \ {<<>>}, m \in Modes :
            InFlush(<<m, p>>)

LEMMA KeysOfQuery ==
  ASSUME NEW q \in Queries
  PROVE  /\ KeysOf(q) \in Seq(Keys)
         /\ \A p \in Prefixes(q) \ {<<>>}, m \in Modes :
              \E k \in DOMAIN KeysOf(q) : KeysOf(q)[k] = <<m, p>>
<1> DEFINE n == Len(q)
           Pair(i) == <<<<"popularity", SubSeq(q, 1, i)>>, <<"recency", SubSeq(q, 1, i)>>>>
           ss == [i \in 1..n |-> Pair(i)]
<1>1. q \in Seq(Range(q)) /\ n \in Nat
  BY ServiceAssumption
<1>2. DOMAIN q = 1..n
  BY <1>1
<1>3. KeysOf(q) = FlattenSeq(ss)
  BY <1>2 DEF KeysOf
<1>4. ASSUME NEW i \in 1..n PROVE Pair(i) \in Seq(Keys)
  <2>1. SubSeq(q, 1, i) \in Prefixes(q)
    BY DEF Prefixes
  <2>2. SubSeq(q, 1, i) # <<>>
    <3>1. Len(SubSeq(q, 1, i)) = i
      BY <1>1, SubSeqProperties
    <3> QED
      BY <3>1
  <2>3. SubSeq(q, 1, i) \in Prefixed
    BY <2>1, <2>2 DEF Prefixed
  <2>4. <<"popularity", SubSeq(q, 1, i)>> \in Keys /\ <<"recency", SubSeq(q, 1, i)>> \in Keys
    BY <2>3 DEF Keys, Modes
  <2>5. \A a, b \in Keys : <<a, b>> \in Seq(Keys)
    OBVIOUS
  <2> QED
    BY <2>4, <2>5
<1>5. ss \in Seq(Seq(Keys)) /\ DOMAIN ss = 1..n
  <2> HIDE DEF Pair, n
  <2> QED
    BY <1>1, <1>4
<1>6. \A i \in 1..n : DOMAIN ss[i] = 1..2 /\ ss[i][1] = <<"popularity", SubSeq(q, 1, i)>>
                      /\ ss[i][2] = <<"recency", SubSeq(q, 1, i)>>
  OBVIOUS
<1> HIDE DEF ss
<1>7. /\ FlattenSeq(ss) \in Seq(Keys)
      /\ \A i \in DOMAIN ss : \A j \in DOMAIN ss[i] :
           \E k \in DOMAIN FlattenSeq(ss) : FlattenSeq(ss)[k] = ss[i][j]
  BY <1>5, FlattenKeeps
<1>8. ASSUME NEW p \in Prefixes(q) \ {<<>>}, NEW m \in Modes
      PROVE  \E k \in DOMAIN KeysOf(q) : KeysOf(q)[k] = <<m, p>>
  <2>1. PICK i \in 0..n : p = SubSeq(q, 1, i)
    BY DEF Prefixes
  <2>2. i \in 1..n
    <3>1. CASE i = 0
      <4>1. p = <<>>
        BY <1>1, <2>1, <3>1
      <4> QED
        BY <4>1
    <3> QED
      BY <1>1, <3>1
  <2>3. \E j \in DOMAIN ss[i] : ss[i][j] = <<m, p>>
    <3>0. 1 \in DOMAIN ss[i] /\ 2 \in DOMAIN ss[i]
      BY <1>6, <2>2
    <3>1. CASE m = "popularity"
      <4>1. ss[i][1] = <<m, p>>
        BY <1>6, <2>1, <2>2, <3>1
      <4> QED
        BY <3>0, <4>1
    <3>2. CASE m = "recency"
      <4>1. ss[i][2] = <<m, p>>
        BY <1>6, <2>1, <2>2, <3>2
      <4> QED
        BY <3>0, <4>1
    <3> QED
      BY <3>1, <3>2 DEF Modes
  <2> QED
    BY <1>3, <1>5, <1>7, <2>2, <2>3
<1> QED
  BY <1>3, <1>7, <1>8

LEMMA BatchRows ==
  ASSUME WP!TypeOK, NEW rows \in SetToSeqs(Writer!Keys(batch))
  PROVE  /\ rows \in Seq(Queries) /\ Len(rows) \in Nat /\ DOMAIN rows = 1..Len(rows)
         /\ \A i, j \in DOMAIN rows : i # j => rows[i] # rows[j]
         /\ {rows[i] : i \in DOMAIN rows} = {q \in Queries : batch[q] > 0}
<1> DEFINE S == {q \in Queries : batch[q] > 0}
<1>1. Writer!Keys(batch) = S
  BY DEF Writer!Keys
<1>2. IP!IsFiniteSet(S) /\ rows \in IP!SetToSeqs(S)
  <2>1. IsFiniteSet(S)
    BY ServiceAssumption, FS_Subset
  <2> QED
    BY <1>1, <2>1, IndexLibrary, IndexOperators
<1> HIDE DEF S
<1>3. /\ Len(rows) \in Nat /\ rows \in [1..Len(rows) -> S]
      /\ \A i, j \in 1..Len(rows) : i # j => rows[i] # rows[j]
      /\ {rows[i] : i \in 1..Len(rows)} = S
  BY <1>2, IndexAssumption, IP!OrderProperties
<1>4. S \subseteq Queries
  BY DEF S
<1> QED
  BY <1>3, <1>4 DEF S

LEMMA RowsKeys ==
  ASSUME NEW rows \in Seq(Queries), DOMAIN rows = 1..Len(rows),
         NEW keys, keys = FlattenSeq([i \in DOMAIN rows |-> KeysOf(rows[i])])
  PROVE  /\ keys \in Seq(Keys)
         /\ \A i \in DOMAIN rows : \A p \in Prefixes(rows[i]) \ {<<>>}, m \in Modes :
              \E k \in DOMAIN keys : keys[k] = <<m, p>>
<1> DEFINE n == Len(rows)
           ss == [i \in 1..n |-> KeysOf(rows[i])]
<1>1. n \in Nat /\ keys = FlattenSeq(ss) /\ DOMAIN rows = 1..n /\ \A i \in 1..n : rows[i] \in Queries
  OBVIOUS
<1>2. ss \in Seq(Seq(Keys)) /\ DOMAIN ss = 1..n /\ \A i \in 1..n : ss[i] = KeysOf(rows[i])
  <2>1. \A i \in 1..n : KeysOf(rows[i]) \in Seq(Keys)
    BY <1>1, KeysOfQuery
  <2> QED
    BY <1>1, <2>1
<1> HIDE DEF ss, n
<1>3. /\ FlattenSeq(ss) \in Seq(Keys)
      /\ \A i \in DOMAIN ss : \A j \in DOMAIN ss[i] :
           \E k \in DOMAIN FlattenSeq(ss) : FlattenSeq(ss)[k] = ss[i][j]
  BY <1>2, FlattenKeeps
<1>4. ASSUME NEW i \in DOMAIN rows, NEW p \in Prefixes(rows[i]) \ {<<>>}, NEW m \in Modes
      PROVE  \E k \in DOMAIN keys : keys[k] = <<m, p>>
  <2>1. rows[i] \in Queries /\ i \in DOMAIN ss /\ ss[i] = KeysOf(rows[i])
    BY <1>1, <1>2
  <2>2. PICK j \in DOMAIN KeysOf(rows[i]) : KeysOf(rows[i])[j] = <<m, p>>
    BY <2>1, KeysOfQuery
  <2>3. j \in DOMAIN ss[i] /\ ss[i][j] = <<m, p>>
    BY <2>1, <2>2
  <2>4. PICK k \in DOMAIN FlattenSeq(ss) : FlattenSeq(ss)[k] = ss[i][j]
    BY <1>3, <2>1, <2>3
  <2> QED
    BY <1>1, <2>3, <2>4
<1> QED
  BY <1>1, <1>3, <1>4

(* Only the callback moves a flush on. *)
LEMMA FlushMoves ==
  ASSUME [Next]_vars
  PROVE  UNCHANGED flush \/ FlushStep \/ ProcessEnds
<1>1. ASSUME NEW t \in Senders, NEW k \in Asked, SuggestHit(t, k) \/ SuggestMiss(t, k)
      PROVE  UNCHANGED flush
  BY <1>1 DEF SuggestHit, SuggestMiss, own
<1>2. ASSUME NEW t \in Senders, RequestStep(t) PROVE UNCHANGED flush
  BY <1>2 DEF RequestStep, Compute, ReadCandidates, ReadRecency, Fill, Enqueue, Trip, own
<1> QED
  BY <1>1, <1>2 DEF Next, vars, own, Search, Fade, Expire, WriterLoop, ApplyToClosed, ApplyFails,
     ReadBackFails, BuildIndex, Start, Stop, CloseStore

LEMMA RowsInit == Init => RowsInv
BY DEF Init, RowsInv, AtRest

LEMMA RefreshedRows ==
  ASSUME FlushInv, RowsInv, Refresh
  PROVE  /\ flush' = [at |-> IF Len(flush.rows) > 1 THEN "refresh" ELSE "invalidate",
                      rows |-> Tail(flush.rows), keys |-> flush.keys]
         /\ flush.at = "refresh" /\ flush.rows \in Seq(Queries) /\ flush.rows # <<>>
         /\ Len(flush.rows) \in Nat /\ DOMAIN flush.rows = 1..Len(flush.rows)
         /\ Head(flush.rows) = flush.rows[1] /\ 1 \in DOMAIN flush.rows
         /\ flush'.rows \in Seq(Queries) /\ DOMAIN flush'.rows = 1..(Len(flush.rows) - 1)
         /\ \A i \in DOMAIN flush'.rows : i + 1 \in DOMAIN flush.rows
                                          /\ flush'.rows[i] = flush.rows[i + 1]
<1>1. /\ flush' = [at |-> IF Len(flush.rows) > 1 THEN "refresh" ELSE "invalidate",
                   rows |-> Tail(flush.rows), keys |-> flush.keys]
      /\ flush.at = "refresh"
  BY DEF Refresh, FlushInv
<1>2. flush.rows \in Seq(Queries) /\ flush.rows # <<>>
  BY <1>1 DEF RowsInv
<1>3. flush'.rows = Tail(flush.rows)
  BY <1>1
<1>4. ASSUME NEW s \in Seq(Queries), s # <<>>
      PROVE  /\ Len(s) \in Nat /\ DOMAIN s = 1..Len(s) /\ Head(s) = s[1] /\ 1 \in DOMAIN s
             /\ Tail(s) \in Seq(Queries) /\ DOMAIN Tail(s) = 1..(Len(s) - 1)
             /\ \A i \in DOMAIN Tail(s) : i + 1 \in DOMAIN s /\ Tail(s)[i] = s[i + 1]
  <2>1. Len(s) \in Nat /\ Len(s) # 0 /\ DOMAIN s = 1..Len(s) /\ Head(s) = s[1]
    BY <1>4, EmptySeq
  <2>2. /\ Tail(s) \in Seq(Queries) /\ Len(Tail(s)) = Len(s) - 1
        /\ \A i \in 1..Len(Tail(s)) : Tail(s)[i] = s[i + 1]
    BY <1>4, HeadTailProperties
  <2>3. DOMAIN Tail(s) = 1..(Len(s) - 1)
    BY <2>2
  <2> QED
    BY <2>1, <2>2, <2>3
<1> QED
  BY <1>1, <1>2, <1>3, <1>4

LEMMA RowsStay ==
  ASSUME FlushInv, WriterInv, RowsInv, [Next]_vars
  PROVE  RowsInv'
<1>1. CASE UNCHANGED flush
  BY <1>1 DEF RowsInv, InFlush
<1>2. CASE ProcessEnds
  BY <1>2 DEF ProcessEnds, RowsInv, AtRest
<1>3. CASE ApplyBatch
  <2>1. PICK rows \in SetToSeqs(Writer!Keys(batch)) :
          flush' = [at |-> "refresh", rows |-> rows,
                    keys |-> FlattenSeq([i \in DOMAIN rows |-> KeysOf(rows[i])])]
    BY <1>3 DEF ApplyBatch
  <2>2. /\ rows \in Seq(Queries) /\ Len(rows) \in Nat /\ DOMAIN rows = 1..Len(rows)
        /\ {rows[i] : i \in DOMAIN rows} = {q \in Queries : batch[q] > 0}
    BY BatchRows DEF WriterInv
  <2>3. rows # <<>>
    BY <1>3, <2>2 DEF ApplyBatch, WriterInv
  <2> DEFINE keys == FlattenSeq([i \in DOMAIN rows |-> KeysOf(rows[i])])
  <2>4. /\ keys \in Seq(Keys)
        /\ \A i \in DOMAIN rows : \A p \in Prefixes(rows[i]) \ {<<>>}, m \in Modes :
             \E k \in DOMAIN keys : keys[k] = <<m, p>>
    BY <2>2, RowsKeys
  <2>5. flush'.at = "refresh" /\ flush'.rows = rows /\ flush'.keys = keys
    BY <2>1
  <2> HIDE DEF keys
  <2> QED
    BY <2>2, <2>3, <2>4, <2>5 DEF RowsInv, InFlush
<1>4. CASE Refresh
  <2>1. /\ flush' = [at |-> IF Len(flush.rows) > 1 THEN "refresh" ELSE "invalidate",
                     rows |-> Tail(flush.rows), keys |-> flush.keys]
        /\ flush.at = "refresh" /\ Len(flush.rows) \in Nat
        /\ flush'.rows \in Seq(Queries) /\ DOMAIN flush'.rows = 1..(Len(flush.rows) - 1)
        /\ \A i \in DOMAIN flush'.rows : i + 1 \in DOMAIN flush.rows
                                         /\ flush'.rows[i] = flush.rows[i + 1]
    BY <1>4, RefreshedRows
  <2>2. flush'.keys = flush.keys /\ (flush'.at = "refresh" => Len(flush.rows) > 1)
    BY <2>1
  <2>3. flush'.at = "refresh" => flush'.rows # <<>>
    <3> SUFFICES ASSUME Len(flush.rows) > 1 PROVE 1 \in DOMAIN flush'.rows
      BY <2>2
    <3> HIDE DEF RowsInv
    <3> QED
      BY <2>1
  <2>4. \A i \in DOMAIN flush'.rows : \A p \in Prefixes(flush'.rows[i]) \ {<<>>}, m \in Modes :
          InFlush(<<m, p>>)'
    <3>1. \A k : InFlush(k)' <=> InFlush(k)
      BY <2>2 DEF InFlush
    <3>2. \A i \in DOMAIN flush.rows : \A p \in Prefixes(flush.rows[i]) \ {<<>>}, m \in Modes :
            InFlush(<<m, p>>)
      BY <2>1 DEF RowsInv
    <3> QED
      BY <2>1, <3>1, <3>2
  <2>5. flush'.keys \in Seq(Keys)
    BY <2>2 DEF RowsInv
  <2> QED
    BY <2>1, <2>3, <2>4, <2>5 DEF RowsInv
<1>5. CASE InvalidateKey
  <2>1. /\ flush' = [at |-> "invalidate", rows |-> flush.rows, keys |-> Tail(flush.keys)]
        /\ flush.keys # <<>>
    BY <1>5 DEF InvalidateKey, FlushInv
  <2>2. Tail(flush.keys) \in Seq(Keys)
    BY <2>1, HeadTailProperties DEF RowsInv
  <2> QED
    BY <2>1, <2>2 DEF RowsInv
<1>6. CASE FlushReturns
  BY <1>6 DEF FlushReturns, RowsInv, AtRest
<1> QED
  BY <1>1, <1>2, <1>3, <1>4, <1>5, <1>6, FlushMoves DEF FlushStep

--------------------------------------------------------------------------------
(* The index.  It has what the store has; or, once a batch could not be    *)
(* read back, what the store had before; or, while a flush inserts, what   *)
(* the store has except for the rows still to come, whose counts lag by    *)
(* what the batch adds to them.                                            *)

InRows(q) == \E i \in DOMAIN flush.rows : flush.rows[i] = q
Served == flush.at # "refresh" /\ count = store
Skipped ==
  /\ flush.at # "refresh" /\ writer = "dead"
  /\ count = BeforeDropped /\ DOMAIN count \subseteq DOMAIN store
Refreshing ==
  /\ flush.at = "refresh"
  /\ \A i, j \in DOMAIN flush.rows : i # j => flush.rows[i] # flush.rows[j]
  /\ DOMAIN count \subseteq DOMAIN store
  /\ \A q \in Queries :
       InRows(q) => /\ q \in DOMAIN store /\ batch[q] > 0
                    /\ CountIn(count, q) + batch[q] = store[q]
  /\ \A q \in DOMAIN store : ~InRows(q) => q \in DOMAIN count /\ count[q] = store[q]

IndexInv ==
  /\ IP!TrieInv
  /\ ~built => main = "starting"
  /\ built => Served \/ Skipped \/ Refreshing

LEMMA IndexInit == Init => IndexInv
<1> SUFFICES ASSUME Init PROVE IndexInv
  OBVIOUS
<1>1. IP!TrieInit /\ ~built /\ main = "starting"
  BY IndexSteps DEF Init, IP!TrieInit, Writer!Init
<1>2. IP!TrieInv
  BY <1>1, IndexAssumption, IP!TrieInitInv
<1> QED
  BY <1>1, <1>2 DEF IndexInv

(* Most steps do not touch what it says. *)
SameIndex ==
  /\ UNCHANGED <<store, flush, indexVars>>
  /\ flush.at # "apply" => UNCHANGED batch
  /\ writer = "dead" => writer' = "dead" /\ UNCHANGED dropped
  /\ main' # main => built

LEMMA SameIndexStays ==
  ASSUME FlushInv, IndexInv, SameIndex
  PROVE  IndexInv'
<1>1. UNCHANGED <<store, flush, top, size, count, built>> /\ (main' # main => built)
  BY DEF SameIndex, indexVars
<1>2. IP!TrieInv'
  BY <1>1 DEF IndexInv, IP!TrieInv, IP!Indexed
<1>3. CASE Served
  BY <1>1, <1>2, <1>3 DEF Served, IndexInv
<1>4. CASE Skipped
  <2>1. Skipped'
    BY <1>1, <1>4 DEF Skipped, SameIndex, BeforeDropped
  <2> QED
    BY <1>1, <1>2, <2>1 DEF IndexInv
<1>5. CASE Refreshing
  <2>1. \A q : InRows(q)' <=> InRows(q)
    BY <1>1 DEF InRows
  <2>2. UNCHANGED batch
    BY <1>5 DEF Refreshing, SameIndex
  <2>3. Refreshing'
    BY <1>1, <1>5, <2>1, <2>2 DEF Refreshing
  <2> QED
    BY <1>1, <1>2, <2>3 DEF IndexInv
<1>6. CASE ~built
  BY <1>1, <1>2, <1>6 DEF IndexInv
<1> QED
  BY <1>3, <1>4, <1>5, <1>6 DEF IndexInv

LEMMA SameIndexSteps ==
  ASSUME FlushInv, WriterInv, IndexInv,
         \/ \E t \in Senders, k \in Asked : SuggestHit(t, k) \/ SuggestMiss(t, k)
         \/ \E t \in Senders, q \in Queries : Search(t, q)
         \/ \E t \in Senders : RequestStep(t)
         \/ \E q \in Queries : Fade(q)
         \/ \E k \in Keys : Expire(k)
         \/ WriterLoop \/ Start \/ Stop \/ CloseStore \/ UNCHANGED vars
  PROVE  SameIndex
<1> USE DEF SameIndex
<1>1. ASSUME NEW t \in Senders, NEW k \in Asked, SuggestHit(t, k) \/ SuggestMiss(t, k)
      PROVE  SameIndex
  BY <1>1 DEF SuggestHit, SuggestMiss, own, storeVars, writerVars
<1>2. ASSUME NEW t \in Senders, NEW q \in Queries, Search(t, q) PROVE SameIndex
  BY <1>2 DEF Search, storeVars, writerVars
<1>3. ASSUME NEW t \in Senders, Compute(t) \/ ReadCandidates(t) \/ ReadRecency(t) \/ Fill(t)
      PROVE  SameIndex
  BY <1>3 DEF Compute, ReadCandidates, ReadRecency, Fill, storeVars, writerVars
<1>4. ASSUME NEW t \in Senders, Trip(t) \/ Enqueue(t) PROVE SameIndex
  BY <1>4 DEF Trip, Writer!Trip, Enqueue, Writer!Enqueue, Writer!queueVars, own, storeVars
<1>5. CASE (\E q \in Queries : Fade(q)) \/ (\E k \in Keys : Expire(k))
  BY <1>5 DEF Fade, Expire, own, storeVars, writerVars
<1>6. CASE WriterLoop
  <2>1. UNCHANGED <<store, flush, indexVars, main>> /\ writer \notin {"callback", "dead"}
    BY <1>6 DEF WriterLoop, Writer!WriterStep, Writer!TestStop, Writer!WakeOnEvent,
       Writer!WakeOnTimer, Writer!Clear, Writer!Drain, Writer!DrainNothing, Writer!Account,
       own, storeVars
  <2> QED
    BY <2>1 DEF FlushInv
<1>7. CASE Start
  BY <1>7 DEF Start, Writer!Start, Writer!queueVars, own, storeVars, WriterInv, WP!Handshake
<1>8. CASE Stop
  <2>1. /\ UNCHANGED <<store, flush, indexVars, batch, dropped, writer>>
        /\ main # "starting"
    BY <1>8 DEF Stop, Writer!StopSet, Writer!StopTrip, Writer!JoinReturns, Writer!JoinTimesOut,
       Writer!queueVars, own, storeVars
  <2> QED
    BY <2>1 DEF IndexInv
<1>9. CASE CloseStore
  BY <1>9 DEF CloseStore, writerVars
<1>10. CASE UNCHANGED vars
  BY <1>10 DEF vars, own, storeVars, writerVars
<1> QED
  BY <1>1, <1>2, <1>3, <1>4, <1>5, <1>6, <1>7, <1>8, <1>9, <1>10 DEF RequestStep

(* A flush begins on an index that has what the store has. *)
LEMMA CallbackOnServed ==
  ASSUME FlushInv, WriterInv, IndexInv, writer = "callback", flush.at = "apply"
  PROVE  built /\ main # "starting" /\ count = store
<1>1. main # "starting"
  BY DEF WriterInv, WP!Handshake
<1> QED
  BY <1>1 DEF IndexInv, Served, Skipped, Refreshing

LEMMA ApplyIndex ==
  ASSUME StoreInv, FlushInv, WriterInv, IndexInv, ApplyBatch
  PROVE  IndexInv'
<1>1. /\ writer = "callback" /\ flush.at = "apply" /\ store' = Committed
      /\ UNCHANGED <<top, size, count, built, writer, main, batch, dropped>>
  BY DEF ApplyBatch, writerVars, indexVars
<1>2. PICK rows \in SetToSeqs(Writer!Keys(batch)) :
        flush' = [at |-> "refresh", rows |-> rows,
                  keys |-> FlattenSeq([i \in DOMAIN rows |-> KeysOf(rows[i])])]
  BY DEF ApplyBatch
<1>3. /\ \A i, j \in DOMAIN rows : i # j => rows[i] # rows[j]
      /\ {rows[i] : i \in DOMAIN rows} = {q \in Queries : batch[q] > 0}
  BY BatchRows DEF WriterInv
<1>4. built /\ count = store
  BY <1>1, CallbackOnServed
<1>5. /\ \A q \in Queries : CountIn(store', q) = CountIn(store, q) + batch[q]
      /\ DOMAIN store' = DOMAIN store \cup {q \in Queries : batch[q] > 0}
      /\ DOMAIN store' \subseteq Queries
  BY <1>1, CommittedCounts DEF WriterInv
<1>6. flush'.at = "refresh" /\ flush'.rows = rows
  BY <1>2
<1>7. \A q \in Queries : InRows(q)' <=> batch[q] > 0
  BY <1>3, <1>6 DEF InRows
<1>8. \A q \in Queries : InRows(q)' => /\ q \in DOMAIN store' /\ batch'[q] > 0
                                       /\ CountIn(count', q) + batch'[q] = store'[q]
  BY <1>1, <1>4, <1>5, <1>7 DEF CountIn
<1>9. ASSUME NEW q \in DOMAIN store', ~InRows(q)' PROVE q \in DOMAIN count' /\ count'[q] = store'[q]
  <2>1. q \in Queries /\ batch[q] = 0 /\ q \in DOMAIN store
    BY <1>5, <1>7, <1>9 DEF WriterInv, WP!TypeOK
  <2>2. store'[q] = store[q] + batch[q]
    BY <1>5, <1>9, <2>1 DEF CountIn
  <2>3. store[q] \in Nat
    BY <2>1 DEF StoreInv
  <2> QED
    BY <1>1, <1>4, <2>1, <2>2, <2>3
<1>10. Refreshing'
  BY <1>1, <1>3, <1>4, <1>5, <1>6, <1>8, <1>9 DEF Refreshing
<1>11. IP!TrieInv'
  BY <1>1 DEF IndexInv, IP!TrieInv, IP!Indexed
<1> QED
  BY <1>1, <1>4, <1>10, <1>11 DEF IndexInv

LEMMA RaisesIndex ==
  ASSUME StoreInv, FlushInv, WriterInv, IndexInv, ApplyToClosed \/ ApplyFails \/ ReadBackFails
  PROVE  IndexInv'
<1>1. /\ flush.at = "apply" /\ Writer!CallbackRaises
      /\ UNCHANGED <<top, size, count, built, flush>>
  BY DEF ApplyToClosed, ApplyFails, ReadBackFails, own, indexVars
<1>2. /\ writer = "callback" /\ writer' = "dead" /\ UNCHANGED main
      /\ \A q \in Queries : dropped[q] = 0 /\ dropped'[q] = batch[q] /\ batch[q] \in Nat
  BY <1>1, RaisesBooks
<1>3. built /\ count = store
  BY <1>1, <1>2, CallbackOnServed
<1>4. IP!TrieInv'
  BY <1>1 DEF IndexInv, IP!TrieInv, IP!Indexed
<1>5. CASE UNCHANGED store
  BY <1>1, <1>3, <1>4, <1>5 DEF IndexInv, Served
<1>6. CASE ReadBackFails
  <2>1. store' = Committed
    BY <1>6 DEF ReadBackFails
  <2>2. /\ \A q \in Queries : CountIn(store', q) = CountIn(store, q) + batch[q]
        /\ DOMAIN store' = DOMAIN store \cup {q \in Queries : batch[q] > 0}
        /\ DOMAIN store \subseteq Queries
    BY <2>1, CommittedCounts DEF WriterInv, StoreInv
  <2>3. ASSUME NEW q \in DOMAIN store PROVE store[q] = store'[q] - dropped'[q]
    <3>1. q \in Queries /\ q \in DOMAIN store' /\ store[q] \in Nat
      BY <2>2 DEF StoreInv
    <3>2. store'[q] = store[q] + batch[q]
      BY <2>2, <3>1 DEF CountIn
    <3> QED
      BY <1>2, <3>1, <3>2
  <2>4. store = [q \in DOMAIN store |-> store[q]]
    BY DEF StoreInv
  <2>5. count' = [q \in DOMAIN count' |-> store'[q] - dropped'[q]]
    BY <1>1, <1>3, <2>3, <2>4
  <2>6. Skipped'
    BY <1>1, <1>2, <1>3, <2>2, <2>5 DEF Skipped, BeforeDropped
  <2> QED
    BY <1>1, <1>3, <1>4, <2>6 DEF IndexInv
<1> QED
  BY <1>5, <1>6 DEF ApplyToClosed, ApplyFails, own, storeVars

LEMMA RefreshIndex ==
  ASSUME StoreInv, FlushInv, WriterInv, RowsInv, IndexInv, Refresh
  PROVE  /\ IndexInv' /\ built /\ built'
         /\ \E q \in Queries : /\ InRows(q) /\ flush.rows[1] = q
                               /\ top' = IP!WalkOffer(top, q, store[q])
<1>1. /\ flush' = [at |-> IF Len(flush.rows) > 1 THEN "refresh" ELSE "invalidate",
                   rows |-> Tail(flush.rows), keys |-> flush.keys]
      /\ flush.at = "refresh" /\ flush.rows \in Seq(Queries)
      /\ Len(flush.rows) \in Nat /\ DOMAIN flush.rows = 1..Len(flush.rows)
      /\ Head(flush.rows) = flush.rows[1] /\ 1 \in DOMAIN flush.rows
      /\ DOMAIN flush'.rows = 1..(Len(flush.rows) - 1)
      /\ \A i \in DOMAIN flush'.rows : i + 1 \in DOMAIN flush.rows
                                       /\ flush'.rows[i] = flush.rows[i + 1]
  BY RefreshedRows
<1> DEFINE q == flush.rows[1]
           n == Len(flush.rows)
<1>2. q \in Queries /\ InRows(q)
  BY <1>1, ElementOfSeq DEF InRows
<1>3. Index!Insert(q, store[q]) /\ UNCHANGED <<writer, main, batch, store>>
  BY <1>1 DEF Refresh, NewCount, writerVars, storeVars
<1>4. built
  BY <1>3 DEF Index!Insert
<1>5. Refreshing
  BY <1>1, <1>4 DEF IndexInv, Served, Skipped
<1>6. q \in DOMAIN store /\ batch[q] > 0 /\ CountIn(count, q) + batch[q] = store[q]
  BY <1>2, <1>5 DEF Refreshing
<1>7. store[q] \in Nat /\ (q \in DOMAIN count => store[q] > count[q])
  <2>1. store[q] \in Nat /\ batch[q] \in Nat
    BY <1>2, <1>6 DEF StoreInv, WriterInv, WP!TypeOK
  <2>2. q \in DOMAIN count => count[q] \in Nat /\ CountIn(count, q) = count[q]
    BY DEF IndexInv, IP!TrieInv, IP!Indexed, CountIn
  <2> QED
    BY <1>6, <2>1, <2>2
<1>8. IP!Insert(q, store[q])
  BY <1>3, IndexSteps
<1> HIDE DEF q
<1>9. IP!TrieInv' /\ built' /\ count' = IP!Grown(count, q, store[q])
  BY <1>2, <1>7, <1>8, IndexAssumption, IP!InsertInv DEF IndexInv, IP!Indexed
<1>20. IP!TrieInv' /\ built'
  BY <1>9
<1>10. /\ DOMAIN count' = DOMAIN count \cup {q} /\ count'[q] = store[q]
       /\ \A r \in DOMAIN count : r # q => count'[r] = count[r]
  BY <1>9 DEF IP!Grown
<1>11. \A i \in DOMAIN flush.rows : i = 1 \/ (i - 1 \in DOMAIN flush'.rows /\ (i - 1) + 1 = i)
  BY <1>1
<1>12. \A i, j \in DOMAIN flush.rows : i # j => flush.rows[i] # flush.rows[j]
  BY <1>5 DEF Refreshing
<1>13. ASSUME NEW r PROVE InRows(r)' <=> InRows(r) /\ r # q
  <2>1. ASSUME InRows(r)' PROVE InRows(r) /\ r # q
    <3>1. PICK i \in DOMAIN flush'.rows : flush'.rows[i] = r
      BY <2>1 DEF InRows
    <3>2. i + 1 \in DOMAIN flush.rows /\ flush.rows[i + 1] = r /\ i + 1 # 1
      BY <1>1, <3>1
    <3> QED
      BY <1>1, <1>12, <3>2 DEF InRows, q
  <2>2. ASSUME InRows(r), r # q PROVE InRows(r)'
    <3>1. PICK i \in DOMAIN flush.rows : flush.rows[i] = r
      BY <2>2 DEF InRows
    <3>2. i # 1
      BY <2>2, <3>1 DEF q
    <3>3. i - 1 \in DOMAIN flush'.rows /\ (i - 1) + 1 = i
      BY <1>11, <3>2
    <3>4. flush'.rows[i - 1] = r
      BY <1>1, <3>1, <3>3
    <3> QED
      BY <3>3, <3>4 DEF InRows
  <2> QED
    BY <2>1, <2>2
<1>14. \A r \in Queries :
         InRows(r)' => /\ r \in DOMAIN store' /\ batch'[r] > 0
                       /\ CountIn(count', r) + batch'[r] = store'[r]
  <2> SUFFICES ASSUME NEW r \in Queries, InRows(r)'
               PROVE  /\ r \in DOMAIN store' /\ batch'[r] > 0
                      /\ CountIn(count', r) + batch'[r] = store'[r]
    OBVIOUS
  <2>1. InRows(r) /\ r # q
    BY <1>13
  <2>2. CountIn(count', r) = CountIn(count, r)
    BY <1>10, <2>1 DEF CountIn
  <2> QED
    BY <1>3, <1>5, <2>1, <2>2 DEF Refreshing
<1>15. \A r \in DOMAIN store : ~InRows(r)' => r \in DOMAIN count' /\ count'[r] = store[r]
  BY <1>5, <1>10, <1>13 DEF Refreshing
<1>16. DOMAIN count' \subseteq DOMAIN store
  BY <1>5, <1>6, <1>10 DEF Refreshing
<1>17. ASSUME n > 1 PROVE IndexInv'
  <2>1. \A i, j \in DOMAIN flush'.rows : i # j => flush'.rows[i] # flush'.rows[j]
    <3> SUFFICES ASSUME NEW i \in DOMAIN flush'.rows, NEW j \in DOMAIN flush'.rows, i # j
                 PROVE  flush'.rows[i] # flush'.rows[j]
      OBVIOUS
    <3>1. i + 1 # j + 1
      BY <1>1
    <3> QED
      BY <1>1, <1>12, <3>1
  <2>2. flush'.at = "refresh"
    BY <1>1, <1>17
  <2>3. Refreshing'
    BY <1>3, <1>14, <1>15, <1>16, <2>1, <2>2 DEF Refreshing
  <2> QED
    BY <1>20, <2>3 DEF IndexInv
<1>18. ASSUME ~(n > 1) PROVE IndexInv'
  <2>1. DOMAIN flush'.rows = {} /\ flush'.at = "invalidate"
    BY <1>1, <1>18
  <2>2. \A r : ~InRows(r)'
    BY <2>1 DEF InRows
  <2>3. DOMAIN count' = DOMAIN store /\ \A r \in DOMAIN store : count'[r] = store[r]
    BY <1>15, <1>16, <2>2
  <2>4. count' = store
    <3>1. count' = [r \in DOMAIN count' |-> count'[r]]
      BY <1>9 DEF IP!Grown
    <3>2. store = [r \in DOMAIN store |-> store[r]]
      BY DEF StoreInv
    <3> QED
      BY <2>3, <3>1, <3>2
  <2> QED
    BY <1>3, <1>20, <2>1, <2>4 DEF IndexInv, Served
<1>19. top' = IP!WalkOffer(top, q, store[q])
  BY <1>8 DEF IP!Insert
<1> QED
  BY <1>2, <1>4, <1>9, <1>17, <1>18, <1>19, Zenon DEF q

LEMMA BuildIndexInv ==
  ASSUME StoreInv, FlushInv, WriterInv, IndexInv, BuildIndex
  PROVE  IndexInv'
<1>1. PICK order \in SetToSeqs(DOMAIN store) : Index!BulkInsert(store, order)
  BY DEF BuildIndex, IterAll
<1>2. /\ order \in IP!SetToSeqs(DOMAIN store) /\ IP!BulkInsert(store, order)
      /\ DOMAIN store \in SUBSET Queries /\ store \in [DOMAIN store -> Nat]
  BY <1>1, IndexOperators, IndexSteps DEF StoreInv
<1>3. IP!TrieInv' /\ count' = store /\ built' = TRUE
  BY <1>2, IndexAssumption, IP!BulkInsertInv DEF IndexInv
<1>4. flush.at = "apply"
  BY DEF BuildIndex, FlushInv, WriterInv, WP!Handshake
<1>5. UNCHANGED <<store, flush>>
  BY DEF BuildIndex, own, storeVars
<1> QED
  BY <1>3, <1>4, <1>5 DEF IndexInv, Served

LEMMA EndIndex ==
  ASSUME ProcessEnds
  PROVE  IndexInv'
<1>1. /\ top' = [p \in Index!Paths |-> <<>>] /\ size' = 0 /\ count' = <<>> /\ built' = FALSE
      /\ main' = "starting"
  BY DEF ProcessEnds
<1>2. IP!TrieInit'
  BY <1>1, IndexOperators DEF IP!TrieInit
<1>3. IP!TrieInv'
  BY <1>2, IndexAssumption, IP!TrieInitInv, PTL
<1> QED
  BY <1>1, <1>3 DEF IndexInv

LEMMA IndexStays ==
  ASSUME StoreInv, FlushInv, WriterInv, RowsInv, IndexInv, [Next]_vars
  PROVE  IndexInv'
<1>1. CASE SameIndex
  BY <1>1, SameIndexStays
<1>2. CASE InvalidateKey \/ FlushReturns
  <2>1. /\ UNCHANGED <<top, size, count, built, store, main>>
        /\ flush.at = "invalidate" /\ flush'.at # "refresh" /\ writer # "dead"
    <3>1. CASE InvalidateKey
      BY <3>1 DEF InvalidateKey, FlushInv, indexVars, storeVars, writerVars
    <3>2. CASE FlushReturns
      BY <3>2 DEF FlushReturns, Writer!CallbackReturns, AtRest, indexVars, storeVars
    <3> QED
      BY <1>2, <3>1, <3>2
  <2>2. IP!TrieInv'
    BY <2>1 DEF IndexInv, IP!TrieInv, IP!Indexed
  <2> QED
    BY <2>1, <2>2 DEF IndexInv, Served, Skipped, Refreshing
<1>3. CASE ~SameIndex /\ ~(InvalidateKey \/ FlushReturns)
  <2>1. \/ ApplyBatch \/ Refresh \/ ApplyToClosed \/ ApplyFails \/ ReadBackFails
        \/ BuildIndex \/ ProcessEnds
    BY <1>3, SameIndexSteps, Zenon DEF Next, FlushStep
  <2> QED
    BY <2>1, ApplyIndex, RefreshIndex, RaisesIndex, BuildIndexInv, EndIndex, Zenon
<1> QED
  BY <1>1, <1>2, <1>3

(* What the index counts is durable. *)
LEMMA CountsBehind ==
  ASSUME StoreInv, WriterInv, IndexInv
  PROVE  \A q : CountIn(count, q) \in Nat /\ CountIn(count, q) <= CountIn(store, q)
<1> SUFFICES ASSUME NEW q PROVE CountIn(count, q) \in Nat /\ CountIn(count, q) <= CountIn(store, q)
  OBVIOUS
<1>1. CountIn(store, q) \in Nat
  BY StoreCounts
<1>2. DOMAIN count \subseteq Queries /\ count \in [DOMAIN count -> Nat]
  BY DEF IndexInv, IP!TrieInv, IP!Indexed
<1>3. CountIn(count, q) \in Nat
  BY <1>2 DEF CountIn
<1>4. CASE ~built
  BY <1>1, <1>4 DEF IndexInv, IP!TrieInv, IP!Indexed, CountIn
<1>5. CASE Served
  BY <1>1, <1>5 DEF Served
<1>6. CASE Skipped /\ q \in DOMAIN count
  <2>1. count[q] = store[q] - dropped[q] /\ q \in DOMAIN store
    BY <1>6 DEF Skipped, BeforeDropped
  <2>2. dropped[q] \in Nat
    BY <1>2, <1>6 DEF WriterInv, WP!TypeOK
  <2> QED
    BY <1>1, <1>3, <1>6, <2>1, <2>2 DEF CountIn
<1>7. CASE Refreshing /\ q \in DOMAIN count
  <2>1. q \in Queries /\ q \in DOMAIN store /\ batch[q] \in Nat
    BY <1>2, <1>7 DEF Refreshing, WriterInv, WP!TypeOK
  <2>2. CountIn(count, q) + batch[q] = store[q] \/ count[q] = store[q]
    BY <1>7, <2>1 DEF Refreshing
  <2> QED
    BY <1>1, <1>3, <1>7, <2>1, <2>2 DEF CountIn
<1>8. CASE q \notin DOMAIN count
  BY <1>1, <1>8 DEF CountIn
<1> QED
  BY <1>4, <1>5, <1>6, <1>7, <1>8 DEF IndexInv

LinkInv == BaseInv /\ RowsInv /\ IndexInv

LEMMA LinkInvariant == Spec => []LinkInv
<1>1. Init => RowsInv /\ IndexInv
  BY RowsInit, IndexInit
<1>2. BaseInv /\ RowsInv /\ IndexInv /\ [Next]_vars => RowsInv' /\ IndexInv'
  BY RowsStay, IndexStays DEF BaseInv
<1> QED
  BY <1>1, <1>2, BaseInvariant, PTL DEF Spec, LinkInv

(* Whenever no flush is between its commit and its last insert, every node *)
(* of the trie lists the best queries of its prefix with the counts of the *)
(* database, through every crash and restart; or, once the counts of a     *)
(* batch could not be read back, with those from before that batch.        *)
THEOREM ServesDisk == Spec => []IndexServesDisk
<1>1. LinkInv => IndexServesDisk
  <2> SUFFICES ASSUME LinkInv, built, flush.at # "refresh"
               PROVE  IndexServes(store) \/ (writer = "dead" /\ IndexServes(BeforeDropped))
    BY DEF IndexServesDisk
  <2>1. IP!TopIsBest
    BY IndexAssumption, IP!TrieInvMeans DEF LinkInv, IndexInv
  <2>2. IndexServes(count)
    BY <2>1, IndexOperators DEF IndexServes, IP!TopIsBest
  <2> QED
    BY <2>2 DEF LinkInv, IndexInv, Served, Skipped, Refreshing
<1> QED
  BY <1>1, LinkInvariant, PTL

--------------------------------------------------------------------------------
(* The lists: what a request carries from the index to the cache, what the *)
(* cache holds, and what was answered.                                     *)

RecentInv == recent \in [Queries -> Nat]

LEMMA RecentInit == Init => RecentInv
BY DEF Init, None, RecentInv

LEMMA MinOf ==
  /\ \A a, b \in Nat : Min({a, b}) = IF a <= b THEN a ELSE b
  /\ \A S : Index!Min(S) = Min(S)
<1>1. \A a, b \in Int : IP!Min({a, b}) = IF a <= b THEN a ELSE b
  BY IndexAssumption, IP!MinOfTwo
<1>2. \A a, b \in Nat : IP!Min({a, b}) = IF a <= b THEN a ELSE b
  BY <1>1
<1> QED
  BY <1>2, IndexLibrary

LEMMA RecentStays ==
  ASSUME RecentInv, [Next]_vars
  PROVE  RecentInv'
<1>1. ASSUME NEW t \in Senders, NEW q \in Queries, Search(t, q) PROVE RecentInv'
  <2>1. recent' = [recent EXCEPT ![q] = Min({@ + 1, MaxScore})]
    BY <1>1 DEF Search, Record
  <2>2. recent[q] + 1 \in Nat /\ MaxScore \in Nat
    BY ServiceAssumption DEF RecentInv
  <2>3. Min({recent[q] + 1, MaxScore}) \in Nat
    <3>1. \A a, b \in Nat : Min({a, b}) \in Nat
      BY MinOf
    <3> QED
      BY <2>2, <3>1
  <2> QED
    BY <2>1, <2>3 DEF RecentInv
<1>2. ASSUME NEW q \in Queries, Fade(q) PROVE RecentInv'
  <2>1. recent' = [recent EXCEPT ![q] = @ - 1] /\ recent[q] \in Nat /\ recent[q] > 0
    BY <1>2 DEF Fade, RecentInv
  <2>2. recent[q] - 1 \in Nat
    BY <2>1
  <2> QED
    BY <2>1, <2>2 DEF RecentInv
<1>3. CASE ProcessEnds
  BY <1>3 DEF ProcessEnds, None, RecentInv
<1>4. ASSUME NEW t \in Senders, NEW k \in Asked, SuggestHit(t, k) \/ SuggestMiss(t, k)
      PROVE  UNCHANGED recent
  BY <1>4 DEF SuggestHit, SuggestMiss, own
<1>5. ASSUME NEW t \in Senders, RequestStep(t) PROVE UNCHANGED recent
  BY <1>5 DEF RequestStep, Compute, ReadCandidates, ReadRecency, Fill, Enqueue, Trip, own
<1>6. CASE FlushStep
  BY <1>6 DEF FlushStep, ApplyBatch, Refresh, InvalidateKey, FlushReturns, RecentInv
<1>7. CASE UNCHANGED vars \/ WriterLoop \/ Stop \/ Start \/ BuildIndex \/ (\E k \in Keys : Expire(k))
  BY <1>7 DEF vars, own, WriterLoop, Stop, Start, BuildIndex, Expire, RecentInv
<1>8. CASE CloseStore \/ ApplyToClosed \/ ApplyFails \/ ReadBackFails
  BY <1>8 DEF CloseStore, ApplyToClosed, ApplyFails, ReadBackFails, own, RecentInv
<1> QED
  BY <1>1, <1>2, <1>3, <1>4, <1>5, <1>6, <1>7, <1>8 DEF Next, RecentInv

(* A list that counts no more than f. *)
Attested(f, list) ==
  \A i \in DOMAIN list : /\ list[i].query \in Queries /\ list[i].count \in Nat
                         /\ list[i].count <= CountIn(f, list[i].query)

(* list[:k] *)
FirstOf(list, k) == SubSeq(list, 1, Min({k, Len(list)}))

LEMMA Cut ==
  ASSUME NEW T, NEW list \in Seq(T), NEW k \in Nat
  PROVE  /\ FirstOf(list, k) \in Seq(T) /\ Len(FirstOf(list, k)) = Min({k, Len(list)})
         /\ DOMAIN FirstOf(list, k) \subseteq DOMAIN list
         /\ \A i \in DOMAIN FirstOf(list, k) : FirstOf(list, k)[i] = list[i]
<1> DEFINE m == Min({k, Len(list)})
           cut == FirstOf(list, k)
<1>0. cut = SubSeq(list, 1, m)
  BY DEF FirstOf
<1>1. Len(list) \in Nat /\ DOMAIN list = 1..Len(list) /\ \A i \in 1..Len(list) : list[i] \in T
  BY ElementOfSeq
<1>2. m \in Nat /\ m <= Len(list)
  BY <1>1, MinOf
<1> HIDE DEF m, cut
<1>3. cut \in Seq(T) /\ Len(cut) = m
  BY <1>0, <1>1, <1>2, SubSeqProperties
<1>4. \A i \in 1..m : cut[i] = list[i]
  BY <1>0, <1>1, <1>2, SubSeqProperties
<1>5. DOMAIN cut = 1..m /\ 1..m \subseteq DOMAIN list
  BY <1>1, <1>2, <1>3
<1> QED
  BY <1>3, <1>4, <1>5 DEF m, cut

LEMMA NodeLists ==
  ASSUME StoreInv, WriterInv, IndexInv, NEW p \in Index!Paths
  PROVE  /\ Index!Candidates(top, p) = top[p] /\ top[p] \in Seq(IP!Entry)
         /\ Attested(store, top[p])
<1>1. IP!TrieTypeOK /\ IP!TopIsBest
  BY IndexAssumption, IP!TrieInvMeans DEF IndexInv
<1>2. top \in [Index!Paths -> Seq(IP!Entry)]
  BY <1>1, IndexOperators DEF IP!TrieTypeOK
<1>3. Index!Candidates(top, p) = top[p]
  BY DEF Index!Candidates, Index!Found
<1>4. \A i \in DOMAIN top[p] : top[p][i].query \in DOMAIN count
                               /\ top[p][i].count = count[top[p][i].query]
  BY <1>1, IndexOperators DEF IP!TopIsBest, IP!BestOf
<1>5. \A q : CountIn(count, q) \in Nat /\ CountIn(count, q) <= CountIn(store, q)
  BY CountsBehind
<1>6. DOMAIN count \subseteq Queries
  BY DEF IndexInv, IP!TrieInv, IP!Indexed
<1>7. ASSUME NEW i \in DOMAIN top[p]
      PROVE  /\ top[p][i].query \in Queries /\ top[p][i].count \in Nat
             /\ top[p][i].count <= CountIn(store, top[p][i].query)
  <2>1. top[p][i].count = CountIn(count, top[p][i].query)
    BY <1>4 DEF CountIn
  <2> QED
    BY <1>4, <1>5, <1>6, <2>1
<1> QED
  BY <1>2, <1>3, <1>7 DEF Attested

LEMMA KeyPaths == \A k \in Keys : k[2] \in Index!Paths /\ k[1] \in Modes
BY IndexLibrary DEF Keys, Prefixed, Index!Paths

(* What the index answers under a key in popularity mode. *)
LEMMA TopLists ==
  ASSUME StoreInv, WriterInv, IndexInv, NEW p \in Index!Paths, NEW k \in Nat
  PROVE  Attested(store, Index!TopForPrefix(top, p, k))
         /\ Index!TopForPrefix(top, p, k) = FirstOf(top[p], k)
<1>1. top[p] \in Seq(IP!Entry) /\ Attested(store, top[p]) /\ Index!Candidates(top, p) = top[p]
  BY NodeLists
<1>2. Index!TopForPrefix(top, p, k) = FirstOf(top[p], k)
  BY <1>1, MinOf DEF Index!TopForPrefix, FirstOf
<1>3. /\ DOMAIN FirstOf(top[p], k) \subseteq DOMAIN top[p]
      /\ \A i \in DOMAIN FirstOf(top[p], k) : FirstOf(top[p], k)[i] = top[p][i]
  BY <1>1, Cut
<1> QED
  BY <1>1, <1>2, <1>3 DEF Attested

(* What the ranking of candidates returns: the same entries in some order. *)
ScoredEntry == [query : Queries, count : Nat, recent_score : Nat]

SameEntries(list, cand) ==
  /\ list \in Seq(ScoredEntry)
  /\ \A k \in DOMAIN list : \E i \in DOMAIN cand :
       list[k].query = cand[i].query /\ list[k].count = cand[i].count

LEMMA RankedLists ==
  ASSUME RecentInv, NEW cand \in Seq(IP!Entry)
  PROVE  /\ SameEntries(RankByScore(CurrentMany(cand)), cand)
         /\ Len(RankByScore(CurrentMany(cand))) = Len(cand)
<1> DEFINE list == CurrentMany(cand)
           score == [i \in DOMAIN list |-> Blended(list[i])]
           w == RankByScore(list)
<1>1. /\ Len(cand) \in Nat /\ DOMAIN cand = 1..Len(cand)
      /\ \A i \in DOMAIN cand : cand[i].query \in Queries /\ cand[i].count \in Nat
  <2>1. Len(cand) \in Nat /\ DOMAIN cand = 1..Len(cand)
    OBVIOUS
  <2>2. \A i \in 1..Len(cand) : cand[i] \in IP!Entry
    BY ElementOfSeq
  <2> QED
    BY <2>1, <2>2 DEF IP!Entry
<1>2. /\ DOMAIN list = DOMAIN cand
      /\ \A i \in DOMAIN cand : /\ list[i] \in ScoredEntry /\ list[i].query = cand[i].query
                                /\ list[i].count = cand[i].count
  BY <1>1 DEF CurrentMany, ScoredEntry, RecentInv
<1>3. list \in Seq(ScoredEntry) /\ Len(list) = Len(cand)
  <2>1. list = [i \in 1..Len(cand) |-> list[i]]
    BY <1>1 DEF CurrentMany
  <2>2. \A i \in 1..Len(cand) : list[i] \in ScoredEntry
    BY <1>1, <1>2
  <2> HIDE DEF list
  <2> QED
    BY <1>1, <2>1, <2>2
<1>4. score \in [DOMAIN list -> Nat]
  <2> SUFFICES ASSUME NEW i \in DOMAIN list PROVE Blended(list[i]) \in Nat
    OBVIOUS
  <2>1. list[i].count \in Nat /\ list[i].recent_score \in Nat
    BY <1>2 DEF ScoredEntry
  <2>2. Min({list[i].count, MaxScored}) \in 0..MaxScored
    <3>1. MaxScored \in Nat
      BY ServiceAssumption
    <3>2. \A a \in Nat : Min({a, MaxScored}) \in 0..MaxScored
      BY <3>1, MinOf
    <3> QED
      BY <2>1, <3>2
  <2>3. CountScore[Min({list[i].count, MaxScored})] \in Nat
    BY <2>2, ServiceAssumption
  <2>4. RecencyWeight * list[i].recent_score \in Nat
    <3>1. \A a, b \in Nat : a * b \in Nat
      OBVIOUS
    <3> QED
      BY <2>1, <3>1, ServiceAssumption
  <2> HIDE DEF list
  <2> QED
    BY <2>3, <2>4 DEF Blended
<1>5. w = IP!SortedBy(score, list)
  BY IndexOperators DEF RankByScore
<1> HIDE DEF list, score, w
<1>6. IP!Permuted(score, list, w, ScoredEntry)
  BY <1>3, <1>4, <1>5, IndexAssumption, IP!SortedByPermutes
<1>7. /\ w \in Seq(ScoredEntry) /\ Len(w) = Len(list)
      /\ \A k \in DOMAIN list : \E i \in DOMAIN list : w[k] = list[i]
  BY <1>6 DEF IP!Permuted
<1>8. DOMAIN w = DOMAIN list
  BY <1>1, <1>2, <1>3, <1>7
<1>9. ASSUME NEW k \in DOMAIN w
      PROVE  \E i \in DOMAIN cand : w[k].query = cand[i].query /\ w[k].count = cand[i].count
  <2>1. PICK i \in DOMAIN list : w[k] = list[i]
    BY <1>7, <1>8
  <2>2. i \in DOMAIN cand /\ list[i].query = cand[i].query /\ list[i].count = cand[i].count
    BY <1>2
  <2> QED
    BY <2>1, <2>2
<1>10. SameEntries(w, cand) /\ Len(w) = Len(cand)
  BY <1>3, <1>7, <1>9 DEF SameEntries
<1> QED
  BY <1>10 DEF list, w

(* What the next step of a request reads is under way with it. *)
ShownInv ==
  /\ \A k \in DOMAIN held : Attested(store, held[k])
  /\ \A t \in DOMAIN putting : Attested(store, putting[t].value)
  /\ \A t \in DOMAIN reply : Attested(store, reply[t])
  /\ \A t \in Senders : At(t, {"rank"}) => /\ request[t].candidates \in Seq(IP!Entry)
                                           /\ Attested(store, request[t].candidates)

LEMMA ShownInit == Init => ShownInv
BY DEF Init, Cache!Init, Idle, At, ShownInv

(* Nothing leaves the database. *)
LEMMA StoreGrows ==
  ASSUME BaseInv, [Next]_vars
  PROVE  \A q : /\ CountIn(store, q) \in Nat /\ CountIn(store', q) \in Nat
                /\ CountIn(store, q) <= CountIn(store', q)
<1>1. \A q : CountIn(store, q) \in Nat
  BY StoreCounts DEF BaseInv
<1>2. CASE UNCHANGED store
  BY <1>1, <1>2
<1>3. CASE ApplyBatch \/ ReadBackFails
  <2>1. store' = Committed
    BY <1>3 DEF ApplyBatch, ReadBackFails
  <2>2. /\ \A q \in Queries : CountIn(store', q) = CountIn(store, q) + batch[q]
        /\ DOMAIN store' \subseteq Queries /\ DOMAIN store \subseteq Queries
    BY <2>1, CommittedCounts DEF BaseInv, WriterInv, StoreInv
  <2>3. \A q \in Queries : batch[q] \in Nat
    BY DEF BaseInv, WriterInv, WP!TypeOK
  <2> SUFFICES ASSUME NEW q
               PROVE  CountIn(store', q) \in Nat /\ CountIn(store, q) <= CountIn(store', q)
    BY <1>1
  <2>4. CASE q \in Queries
    BY <1>1, <2>2, <2>3, <2>4
  <2>5. CASE q \notin Queries
    BY <2>2, <2>5 DEF CountIn
  <2> QED
    BY <2>4, <2>5
<1>4. ASSUME NEW t \in Senders, NEW k \in Asked, SuggestHit(t, k) \/ SuggestMiss(t, k)
      PROVE  UNCHANGED store
  BY <1>4 DEF SuggestHit, SuggestMiss, own, storeVars
<1>5. ASSUME NEW t \in Senders, RequestStep(t) PROVE UNCHANGED store
  BY <1>5 DEF RequestStep, Compute, ReadCandidates, ReadRecency, Fill, Enqueue, Trip, own, storeVars
<1>6. CASE ~(ApplyBatch \/ ReadBackFails)
  <2>1. UNCHANGED store
    BY <1>4, <1>5, <1>6 DEF Next, vars, own, storeVars, Search, Fade, Expire, WriterLoop,
       FlushStep, Refresh, InvalidateKey, FlushReturns, ApplyToClosed, ApplyFails, BuildIndex,
       Start, Stop, CloseStore, ProcessEnds
  <2> QED
    BY <1>2, <2>1
<1> QED
  BY <1>3, <1>6

LEMMA AttestedLonger ==
  ASSUME BaseInv, [Next]_vars
  PROVE  \A list : Attested(store, list) => Attested(store', list)
<1>1. \A q : /\ CountIn(store, q) \in Nat /\ CountIn(store', q) \in Nat
             /\ CountIn(store, q) <= CountIn(store', q)
  BY StoreGrows
<1> SUFFICES ASSUME NEW list, Attested(store, list), NEW i \in DOMAIN list
             PROVE  /\ list[i].query \in Queries /\ list[i].count \in Nat
                    /\ list[i].count <= CountIn(store', list[i].query)
  BY DEF Attested
<1>2. /\ list[i].query \in Queries /\ list[i].count \in Nat
      /\ list[i].count <= CountIn(store, list[i].query)
  BY DEF Attested
<1> DEFINE c == list[i].count
           q == list[i].query
<1> HIDE DEF c, q
<1>3. c \in Nat /\ c <= CountIn(store, q)
  BY <1>2 DEF c, q
<1>4. c <= CountIn(store', q)
  BY <1>1, <1>3
<1> QED
  BY <1>2, <1>4 DEF c, q

(* The list a recency-mode request takes to the cache. *)
LEMMA RankedAttested ==
  ASSUME RecentInv, NEW cand \in Seq(IP!Entry), Attested(store, cand),
         NEW r, r = RankByScore(CurrentMany(cand))
  PROVE  /\ Attested(store, FirstOf(r, Limit))
         /\ Len(FirstOf(r, Limit)) = Min({Limit, Len(cand)})
         /\ \A i \in DOMAIN FirstOf(r, Limit) : \E j \in DOMAIN cand :
              /\ FirstOf(r, Limit)[i].query = cand[j].query
              /\ FirstOf(r, Limit)[i].count = cand[j].count
<1>1. SameEntries(r, cand) /\ Len(r) = Len(cand)
  BY RankedLists
<1>2. r \in Seq(ScoredEntry) /\ Limit \in Nat
  BY <1>1, ServiceAssumption DEF SameEntries
<1> DEFINE w == FirstOf(r, Limit)
<1>3. Len(w) = Min({Limit, Len(r)}) /\ DOMAIN w \subseteq DOMAIN r /\ \A i \in DOMAIN w : w[i] = r[i]
  BY <1>2, Cut
<1> HIDE DEF w
<1>4. ASSUME NEW i \in DOMAIN w
      PROVE  \E j \in DOMAIN cand : w[i].query = cand[j].query /\ w[i].count = cand[j].count
  BY <1>1, <1>3 DEF SameEntries
<1>5. Attested(store, w)
  <2> SUFFICES ASSUME NEW i \in DOMAIN w
               PROVE  /\ w[i].query \in Queries /\ w[i].count \in Nat
                      /\ w[i].count <= CountIn(store, w[i].query)
    BY DEF Attested
  <2>1. PICK j \in DOMAIN cand : w[i].query = cand[j].query /\ w[i].count = cand[j].count
    BY <1>4
  <2> QED
    BY <2>1 DEF Attested
<1> QED
  BY <1>1, <1>3, <1>4, <1>5 DEF w

LEMMA ShownStays ==
  ASSUME BaseInv, IndexInv, RecentInv, ShownInv, [Next]_vars
  PROVE  ShownInv'
<1> DEFINE A(list) == Attested(store, list)
           OldHeld == \A k \in DOMAIN held' : A(held'[k])
           OldPutting == \A t \in DOMAIN putting' : A(putting'[t].value)
           OldReply == \A t \in DOMAIN reply' : A(reply'[t])
           OldRank == \A t \in Senders : At(t, {"rank"})' =>
                        request'[t].candidates \in Seq(IP!Entry) /\ A(request'[t].candidates)
           Good == OldHeld /\ OldPutting /\ OldReply /\ OldRank
<1>0. /\ OldHeld \/ held' # held
      /\ OldPutting \/ putting' # putting
      /\ OldReply \/ reply' # reply
      /\ OldRank \/ request' # request
      /\ DOMAIN request = Senders
  BY DEF ShownInv, At, BaseInv, RequestInv
<1> SUFFICES Good
  <2>1. \A list : A(list) => Attested(store', list)
    BY AttestedLonger
  <2> QED
    BY <2>1 DEF ShownInv
<1>1. ASSUME NEW t \in Senders, NEW k \in Asked, SuggestHit(t, k) \/ SuggestMiss(t, k)
      PROVE  Good
  <2>1. CASE SuggestHit(t, k)
    <3>1. /\ k \in DOMAIN held /\ UNCHANGED <<held, putting, request>>
          /\ reply' = [u \in DOMAIN reply \cup {t} |-> IF u = t THEN held[k] ELSE reply[u]]
      BY <2>1 DEF SuggestHit, Cache!Hit, own
    <3>2. OldReply
      BY <3>1 DEF ShownInv
    <3> QED
      BY <1>0, <3>1, <3>2
  <2>2. CASE SuggestMiss(t, k)
    <3>1. /\ UNCHANGED putting /\ Goes(t, [at |-> "compute", key |-> k])
          /\ reply' = [u \in DOMAIN reply \ {t} |-> reply[u]]
          /\ held' = [x \in DOMAIN held \ {k} |-> held[x]]
      BY <2>2 DEF SuggestMiss, Cache!Miss, Cache!Restrict
    <3>2. OldReply /\ OldHeld
      BY <3>1 DEF ShownInv
    <3>3. OldRank
      BY <1>0, <3>1 DEF ShownInv, Goes, At
    <3> QED
      BY <1>0, <3>1, <3>2, <3>3
  <2> QED
    BY <1>1, <2>1, <2>2
<1>2. ASSUME NEW t \in Senders, Compute(t) PROVE Good
  <2> DEFINE p == request[t].key[2]
             v == Index!TopForPrefix(top, p, Limit)
  <2>1. p \in Index!Paths /\ Limit \in Nat
    BY <1>2, KeyPaths, ServiceAssumption DEF Compute, BaseInv, RequestInv, At
  <2>2. A(v)
    BY <2>1, TopLists DEF BaseInv
  <2>3. /\ putting' = [u \in DOMAIN putting \cup {t} |->
                         IF u = t THEN [key |-> request[t].key, value |-> v] ELSE putting[u]]
        /\ UNCHANGED <<held, reply>> /\ Goes(t, [at |-> "fill"])
    BY <1>2 DEF Compute, Cache!BeginPut
  <2> HIDE DEF v
  <2>4. OldPutting
    BY <2>2, <2>3 DEF ShownInv
  <2>5. OldRank
    BY <1>0, <2>3 DEF ShownInv, Goes, At
  <2> QED
    BY <1>0, <2>3, <2>4, <2>5
<1>3. ASSUME NEW t \in Senders, ReadCandidates(t) PROVE Good
  <2> DEFINE p == request[t].key[2]
  <2>1. p \in Index!Paths
    BY <1>3, KeyPaths DEF ReadCandidates, BaseInv, RequestInv, At
  <2>2. /\ Index!Candidates(top, p) = top[p] /\ top[p] \in Seq(IP!Entry) /\ A(top[p])
    BY <2>1, NodeLists DEF BaseInv
  <2>3. /\ request' = [request EXCEPT ![t] =
                         [at |-> "rank", key |-> request[t].key, candidates |-> top[p]]]
        /\ UNCHANGED <<held, putting, reply>>
    BY <1>3, <2>2 DEF ReadCandidates, Goes, cacheVars
  <2>4. OldRank
    <3> DEFINE w == top[p]
    <3> HIDE DEF w
    <3>1. w \in Seq(IP!Entry) /\ A(w)
      BY <2>2 DEF w
    <3>2. request' = [request EXCEPT ![t] =
                        [at |-> "rank", key |-> request[t].key, candidates |-> w]]
      BY <2>3 DEF w
    <3> QED
      BY <1>0, <3>1, <3>2 DEF ShownInv, At
  <2> QED
    BY <1>0, <2>3, <2>4
<1>4. ASSUME NEW t \in Senders, ReadRecency(t) PROVE Good
  <2> DEFINE cand == request[t].candidates
             r == RankByScore(CurrentMany(cand))
             v == FirstOf(r, Limit)
  <2>1. cand \in Seq(IP!Entry) /\ A(cand)
    BY <1>4 DEF ReadRecency, ShownInv, At
  <2>2. A(v)
    BY <2>1, RankedAttested
  <2>3. /\ putting' = [u \in DOMAIN putting \cup {t} |->
                         IF u = t THEN [key |-> request[t].key, value |-> v] ELSE putting[u]]
        /\ UNCHANGED <<held, reply>> /\ Goes(t, [at |-> "fill"])
    BY <1>4 DEF ReadRecency, Cache!BeginPut, FirstOf
  <2> HIDE DEF v
  <2>4. OldPutting
    BY <2>2, <2>3 DEF ShownInv
  <2>5. OldRank
    BY <1>0, <2>3 DEF ShownInv, Goes, At
  <2> QED
    BY <1>0, <2>3, <2>4, <2>5
<1>5. ASSUME NEW t \in Senders, Fill(t) PROVE Good
  <2>1. PICK kept \in SUBSET (DOMAIN held \cup {putting[t].key}) :
          held' = [k \in kept |-> IF k = putting[t].key THEN putting[t].value ELSE held[k]]
    BY <1>5 DEF Fill, Cache!Put
  <2>2. /\ t \in DOMAIN putting /\ UNCHANGED reply /\ Goes(t, Idle)
        /\ putting' = [u \in DOMAIN putting \ {t} |-> putting[u]]
    BY <1>5 DEF Fill, Cache!Put, Cache!Restrict
  <2>3. OldHeld /\ OldPutting
    BY <2>1, <2>2 DEF ShownInv
  <2>4. OldRank
    BY <1>0, <2>2 DEF ShownInv, Goes, Idle, At
  <2> QED
    BY <1>0, <2>2, <2>3, <2>4
<1>6. ASSUME NEW t \in Senders, Enqueue(t) PROVE Good
  <2>1. UNCHANGED <<held, putting, reply>> /\ Goes(t, Idle)
    BY <1>6 DEF Enqueue, cacheVars
  <2>2. OldRank
    BY <1>0, <2>1 DEF ShownInv, Goes, Idle, At
  <2> QED
    BY <1>0, <2>1, <2>2
<1>7. ASSUME NEW t \in Senders, NEW q \in Queries, Search(t, q) PROVE Good
  <2>1. UNCHANGED <<held, putting, reply>> /\ Goes(t, [at |-> "enqueue", query |-> q])
    BY <1>7 DEF Search, cacheVars
  <2>2. OldRank
    BY <1>0, <2>1 DEF ShownInv, Goes, At
  <2> QED
    BY <1>0, <2>1, <2>2
<1>8. ASSUME NEW k \in Keys, Expire(k) PROVE Good
  <2>1. /\ UNCHANGED <<putting, reply, request>>
        /\ held' = [x \in DOMAIN held \ {k} |-> held[x]]
    BY <1>8 DEF Expire, Cache!Invalidate, Cache!Restrict, own
  <2>2. OldHeld
    BY <2>1 DEF ShownInv
  <2> QED
    BY <1>0, <2>1, <2>2
<1>9. CASE ProcessEnds
  <2>1. held' = <<>> /\ putting' = <<>> /\ reply' = <<>> /\ request' = [t \in Senders |-> Idle]
    BY <1>9 DEF ProcessEnds
  <2> QED
    BY <2>1 DEF Idle, At
<1>10. CASE UNCHANGED <<held, putting, reply, request>>
  BY <1>0, <1>10
<1>11. ASSUME NEW t \in Senders, Trip(t) PROVE UNCHANGED <<held, putting, reply, request>>
  BY <1>11 DEF Trip, cacheVars, own
<1>12. CASE InvalidateKey
  <2>1. /\ UNCHANGED <<putting, reply, request>>
        /\ held' = [x \in DOMAIN held \ {Head(flush.keys)} |-> held[x]]
    BY <1>12 DEF InvalidateKey, Cache!Invalidate, Cache!Restrict
  <2>2. OldHeld
    BY <2>1 DEF ShownInv
  <2> QED
    BY <1>0, <2>1, <2>2
<1> QED
  <2> HIDE DEF Good
  <2>1. CASE \/ \E q \in Queries : Fade(q)
             \/ WriterLoop \/ ApplyBatch \/ Refresh \/ FlushReturns \/ ApplyToClosed \/ ApplyFails
             \/ ReadBackFails \/ BuildIndex \/ Start \/ Stop \/ CloseStore \/ UNCHANGED vars
    <3>1. UNCHANGED <<held, putting, reply, request>>
      BY <2>1 DEF Fade, WriterLoop, ApplyBatch, Refresh, FlushReturns, ApplyToClosed, ApplyFails,
         ReadBackFails, BuildIndex, Start, Stop, CloseStore, vars, own, cacheVars
    <3> QED
      BY <1>10, <3>1
  <2>2. CASE ~(\/ \E q \in Queries : Fade(q)
               \/ WriterLoop \/ ApplyBatch \/ Refresh \/ FlushReturns \/ ApplyToClosed \/ ApplyFails
               \/ ReadBackFails \/ BuildIndex \/ Start \/ Stop \/ CloseStore \/ UNCHANGED vars)
    BY <1>1, <1>2, <1>3, <1>4, <1>5, <1>6, <1>7, <1>8, <1>9, <1>10, <1>11, <1>12, <2>2, Zenon
       DEF Next, RequestStep, FlushStep
  <2> QED
    BY <2>1, <2>2

ListsInv == LinkInv /\ RecentInv /\ ShownInv

LEMMA ListsInvariant == Spec => []ListsInv
<1>1. Init => RecentInv /\ ShownInv
  BY RecentInit, ShownInit
<1>2. LinkInv /\ RecentInv /\ ShownInv /\ [Next]_vars => RecentInv' /\ ShownInv'
  BY RecentStays, ShownStays DEF LinkInv
<1> QED
  BY <1>1, <1>2, LinkInvariant, PTL DEF Spec, ListsInv

(* No count is shown before it is durable: neither in an answer, nor in    *)
(* the cache, nor on the way there, whatever flushes, failures and crashes *)
(* come between a request's steps.                                         *)
THEOREM NothingShownEarly == Spec => []ShownCountsDurable
<1>1. ListsInv => ShownCountsDurable
  <2>1. \A list : Attested(store, list) => Durably(list)
    BY DEF Attested, Durably
  <2> QED
    BY <2>1 DEF ListsInv, ShownInv, ShownCountsDurable
<1> QED
  BY <1>1, ListsInvariant, PTL

(* _lookup_count() never answers less than the index shows nor more than   *)
(* was searched, and more than what is durable only from the open          *)
(* transaction a failed flush left behind.                                 *)
THEOREM LookupsBetween == Spec => []LookupBetween
<1>1. LinkInv => LookupBetween
  <2> SUFFICES ASSUME LinkInv, built, NEW q \in Queries
               PROVE  /\ CountIn(count, q) <= LookupCount(q)
                      /\ LookupCount(q) <= CountIn(Dataset, q) + recorded[q]
                      /\ LookupCount(q) <= CountIn(store, q) \/ writer = "dead"
    BY DEF LookupBetween
  <2> USE DEF LinkInv, BaseInv
  <2> DEFINE c == CountIn(count, q)
             s == CountIn(store, q)
             d == CountIn(Dataset, q)
  <2>1. c \in Nat /\ s \in Nat /\ c <= s /\ d \in Nat
    BY CountsBehind, StoreCounts, DatasetCounts
  <2>2. Durable[q] = s - d /\ Durable[q] \in Nat
    BY StoreCounts
  <2>3. /\ recorded[q] \in Nat /\ lost[q] \in Nat /\ buffer[q] \in Nat /\ dropped[q] \in Nat
        /\ pending[q] \in Nat /\ Unapplied(q) \in Nat
    BY DEF StoreInv, WriterInv, WP!TypeOK, Unapplied
  <2>4. s <= d + recorded[q]
    <3>1. Durable[q] + lost[q] <= recorded[q]
      BY BooksBound DEF WriterInv
    <3> QED
      BY <2>1, <2>2, <2>3, <3>1
  <2>5. s + pending[q] <= d + recorded[q] /\ (pending[q] = 0 \/ writer = "dead")
    <3>1. CASE pending = None
      <4>1. pending[q] = 0
        BY <3>1 DEF None
      <4> QED
        BY <2>1, <2>4, <4>1
    <3>2. CASE pending # None
      <4>1. Booked(q) /\ writer = "dead" /\ pending[q] <= dropped[q]
        BY <3>2 DEF BooksInv
      <4>2. Durable[q] + lost[q] + buffer[q] + Unapplied(q) + dropped[q] = recorded[q]
        BY <4>1 DEF Booked
      <4> QED
        BY <2>1, <2>2, <2>3, <4>1, <4>2
    <3> QED
      BY <3>1, <3>2
  <2>6. q \in Index!Paths
    <3>1. q \in Seq(Range(q))
      BY ServiceAssumption
    <3>2. q = SubSeq(q, 1, Len(q)) /\ Len(q) \in 0..Len(q)
      <4>1. \A S : \A x \in Seq(S) : x = SubSeq(x, 1, Len(x)) /\ Len(x) \in 0..Len(x)
        OBVIOUS
      <4> QED
        BY <3>1, <4>1
    <3> DEFINE n == Len(q)
    <3>3. \E l \in 0..n : q = SubSeq(q, 1, l)
      <4> HIDE DEF n
      <4>1. q = SubSeq(q, 1, n) /\ n \in 0..n
        BY <3>2 DEF n
      <4> QED
        BY <4>1, Zenon
    <3>4. q \in Index!Prefixes(q)
      BY <3>3, Zenon DEF Index!Prefixes
    <3> QED
      BY <3>4 DEF Index!Paths
  <2> DEFINE best == Index!TopForPrefix(top, q, 1)
  <2>7. best # <<>> /\ best[1].query = q => best[1].count = c
    <3> SUFFICES ASSUME best # <<>>, best[1].query = q PROVE best[1].count = c
      OBVIOUS
    <3>1. top[q] \in Seq(IP!Entry) /\ best = FirstOf(top[q], 1)
      BY <2>6, NodeLists, TopLists
    <3>2. /\ best \in Seq(IP!Entry) /\ DOMAIN best \subseteq DOMAIN top[q]
          /\ \A i \in DOMAIN best : best[i] = top[q][i]
      <4> DEFINE w == top[q]
      <4> HIDE DEF w, best
      <4>1. w \in Seq(IP!Entry) /\ best = FirstOf(w, 1) /\ 1 \in Nat
        BY <3>1 DEF w
      <4>2. /\ best \in Seq(IP!Entry) /\ DOMAIN best \subseteq DOMAIN w
            /\ \A i \in DOMAIN best : best[i] = w[i]
        BY <4>1, Cut
      <4> QED
        BY <4>2 DEF w
    <3>3. 1 \in DOMAIN best
      <4>1. \A x \in Seq(IP!Entry) : x # <<>> => 1 \in DOMAIN x
        OBVIOUS
      <4> QED
        BY <3>2, <4>1
    <3>4. /\ top[q][1].query \in DOMAIN count /\ top[q][1].count = count[top[q][1].query]
      <4>1. IP!TopIsBest
        BY IndexAssumption, IP!TrieInvMeans DEF IndexInv
      <4> QED
        BY <2>6, <3>2, <3>3, <4>1, IndexOperators DEF IP!TopIsBest, IP!BestOf
    <3> QED
      BY <3>2, <3>3, <3>4 DEF CountIn
  <2>8. LookupCount(q) = c \/ LookupCount(q) = s + pending[q]
    <3> HIDE DEF c, s
    <3>1. LookupCount(q) = IF best # <<>> /\ best[1].query = q THEN best[1].count ELSE Visible(q)
      BY DEF LookupCount
    <3>2. Visible(q) = s + pending[q]
      BY DEF Visible, s
    <3> HIDE DEF best
    <3> QED
      BY <2>7, <3>1, <3>2
  <2> HIDE DEF c, s, d
  <2>9. /\ c <= LookupCount(q) /\ LookupCount(q) <= d + recorded[q]
        /\ LookupCount(q) <= s \/ writer = "dead"
    BY <2>1, <2>3, <2>4, <2>5, <2>8
  <2> QED
    BY <2>9 DEF c, s, d
<1> QED
  BY <1>1, LinkInvariant, PTL

--------------------------------------------------------------------------------
(* Staleness.  A list that is under way or cached is what its node lists   *)
(* now, or its key is still to be invalidated, or was invalidated behind   *)
(* the request's back.                                                     *)

CurrentOf(node, mode, list) ==
  IF mode = "popularity"
  THEN list = FirstOf(node, Limit)
  ELSE /\ Len(list) = Min({Limit, Len(node)})
       /\ \A i \in DOMAIN list : \E j \in DOMAIN node :
            node[j].query = list[i].query /\ node[j].count = list[i].count

HeldOk(k) == CurrentOf(top[k[2]], k[1], held[k]) \/ InFlush(k) \/ k \in tainted
PutOk(t) ==
  \/ CurrentOf(top[putting[t].key[2]], putting[t].key[1], putting[t].value)
  \/ InFlush(putting[t].key) \/ t \in overtaken
RankOk(t) ==
  \/ request[t].candidates = top[request[t].key[2]]
  \/ InFlush(request[t].key) \/ t \in overtaken

StaleInv ==
  /\ \A k \in DOMAIN held : HeldOk(k)
  /\ \A t \in DOMAIN putting : PutOk(t)
  /\ \A t \in Senders : At(t, {"rank"}) => RankOk(t)

LEMMA StaleInit == Init => StaleInv
BY DEF Init, Cache!Init, Idle, At, StaleInv

(* The steps of a request. *)
LEMMA RequestsStale ==
  ASSUME BaseInv, IndexInv, RecentInv, ShownInv, StaleInv, NEW t \in Senders,
         Compute(t) \/ ReadCandidates(t) \/ ReadRecency(t) \/ Fill(t)
  PROVE  StaleInv'
<1>1. UNCHANGED <<top, flush>> /\ (\A k : InFlush(k)' <=> InFlush(k)) /\ DOMAIN request = Senders
  BY DEF Compute, ReadCandidates, ReadRecency, Fill, indexVars, InFlush, BaseInv, RequestInv
<1>2. ASSUME Compute(t) PROVE StaleInv'
  <2> DEFINE key == request[t].key
             v == Index!TopForPrefix(top, key[2], Limit)
  <2>1. key \in Keys /\ key[2] \in Index!Paths /\ key[1] = "popularity" /\ Limit \in Nat
    BY <1>2, KeyPaths, ServiceAssumption DEF Compute, BaseInv, RequestInv, At
  <2>2. CurrentOf(top[key[2]], key[1], v)
    BY <2>1, TopLists DEF CurrentOf, BaseInv
  <2>3. /\ putting' = [u \in DOMAIN putting \cup {t} |->
                         IF u = t THEN [key |-> key, value |-> v] ELSE putting[u]]
        /\ Goes(t, [at |-> "fill"]) /\ UNCHANGED <<held, tainted>>
        /\ overtaken' = overtaken \ {t}
    BY <1>2 DEF Compute, Cache!BeginPut
  <2> HIDE DEF key, v
  <2>4. ASSUME NEW k \in DOMAIN held' PROVE HeldOk(k)'
    BY <1>1, <2>3 DEF StaleInv, HeldOk
  <2>5. ASSUME NEW u \in DOMAIN putting' PROVE PutOk(u)'
    <3>1. CASE u = t
      BY <1>1, <2>2, <2>3, <3>1 DEF PutOk
    <3>2. CASE u # t
      BY <1>1, <2>3, <3>2 DEF StaleInv, PutOk
    <3> QED
      BY <3>1, <3>2
  <2>6. ASSUME NEW u \in Senders, At(u, {"rank"})' PROVE RankOk(u)'
    BY <1>1, <2>3, <2>6 DEF StaleInv, RankOk, At, Goes
  <2> QED
    BY <2>4, <2>5, <2>6 DEF StaleInv
<1>3. ASSUME ReadCandidates(t) PROVE StaleInv'
  <2> DEFINE key == request[t].key
             w == top[key[2]]
  <2>1. key[2] \in Index!Paths
    BY <1>3, KeyPaths DEF ReadCandidates, BaseInv, RequestInv, At
  <2>2. Index!Candidates(top, key[2]) = w
    BY <2>1, NodeLists DEF BaseInv
  <2>3. /\ Goes(t, [at |-> "rank", key |-> key, candidates |-> w])
        /\ UNCHANGED <<held, putting, tainted>> /\ overtaken' = overtaken \ {t}
    BY <1>3, <2>2 DEF ReadCandidates, cacheVars
  <2>4. \A u \in DOMAIN putting : u # t
    BY <1>3 DEF ReadCandidates, BaseInv, RequestInv, At
  <2> HIDE DEF key, w
  <2>5. ASSUME NEW k \in DOMAIN held' PROVE HeldOk(k)'
    BY <1>1, <2>3 DEF StaleInv, HeldOk
  <2>6. ASSUME NEW u \in DOMAIN putting' PROVE PutOk(u)'
    BY <1>1, <2>3, <2>4 DEF StaleInv, PutOk
  <2>7. ASSUME NEW u \in Senders, At(u, {"rank"})' PROVE RankOk(u)'
    <3>1. CASE u = t
      <4>1. request'[t].candidates = w /\ request'[t].key = key
        BY <1>1, <2>3 DEF Goes
      <4> QED
        BY <1>1, <3>1, <4>1 DEF RankOk, w
    <3>2. CASE u # t
      BY <1>1, <2>3, <2>7, <3>2 DEF StaleInv, RankOk, At, Goes
    <3> QED
      BY <3>1, <3>2
  <2> QED
    BY <2>5, <2>6, <2>7 DEF StaleInv
<1>4. ASSUME ReadRecency(t) PROVE StaleInv'
  <2> DEFINE key == request[t].key
             cand == request[t].candidates
             v == FirstOf(RankByScore(CurrentMany(cand)), Limit)
  <2>1. At(t, {"rank"}) /\ key[1] = "recency" /\ cand \in Seq(IP!Entry) /\ Attested(store, cand)
    BY <1>4 DEF ReadRecency, ShownInv, BaseInv, RequestInv, At
  <2>2. cand = top[key[2]] => CurrentOf(top[key[2]], key[1], v)
    <3>1. /\ Len(v) = Min({Limit, Len(cand)})
          /\ \A i \in DOMAIN v : \E j \in DOMAIN cand :
               v[i].query = cand[j].query /\ v[i].count = cand[j].count
      <4>1. PICK r : r = RankByScore(CurrentMany(cand))
        OBVIOUS
      <4>2. v = FirstOf(r, Limit)
        BY <4>1
      <4> HIDE DEF v, cand
      <4> QED
        BY <2>1, <4>1, <4>2, RankedAttested
    <3> HIDE DEF v, cand
    <3> QED
      BY <2>1, <3>1 DEF CurrentOf
  <2>3. cand = top[key[2]] \/ InFlush(key) \/ t \in overtaken
    BY <2>1 DEF StaleInv, RankOk
  <2>4. /\ putting' = [u \in DOMAIN putting \cup {t} |->
                         IF u = t THEN [key |-> key, value |-> v] ELSE putting[u]]
        /\ Goes(t, [at |-> "fill"]) /\ UNCHANGED <<held, tainted, overtaken>>
    BY <1>4 DEF ReadRecency, Cache!BeginPut, FirstOf, history
  <2> HIDE DEF key, v, cand
  <2>5. ASSUME NEW k \in DOMAIN held' PROVE HeldOk(k)'
    BY <1>1, <2>4 DEF StaleInv, HeldOk
  <2>6. ASSUME NEW u \in DOMAIN putting' PROVE PutOk(u)'
    <3>1. CASE u = t
      BY <1>1, <2>2, <2>3, <2>4, <3>1 DEF PutOk
    <3>2. CASE u # t
      BY <1>1, <2>4, <3>2 DEF StaleInv, PutOk
    <3> QED
      BY <3>1, <3>2
  <2>7. ASSUME NEW u \in Senders, At(u, {"rank"})' PROVE RankOk(u)'
    BY <1>1, <2>4, <2>7 DEF StaleInv, RankOk, At, Goes
  <2> QED
    BY <2>5, <2>6, <2>7 DEF StaleInv
<1>5. ASSUME Fill(t) PROVE StaleInv'
  <2> DEFINE key == putting[t].key
             v == putting[t].value
  <2>1. PICK kept \in SUBSET (DOMAIN held \cup {key}) :
          held' = [k \in kept |-> IF k = key THEN v ELSE held[k]]
    BY <1>5 DEF Fill, Cache!Put
  <2>2. /\ t \in DOMAIN putting /\ Goes(t, Idle)
        /\ putting' = [u \in DOMAIN putting \ {t} |-> putting[u]]
        /\ tainted' = (IF t \in overtaken THEN tainted \cup {key} ELSE tainted \ {key})
                        \cap DOMAIN held'
        /\ overtaken' = overtaken \ {t}
    BY <1>5 DEF Fill, Cache!Put, Cache!Restrict
  <2>3. CurrentOf(top[key[2]], key[1], v) \/ InFlush(key) \/ t \in overtaken
    BY <2>2 DEF StaleInv, PutOk
  <2> HIDE DEF key, v
  <2>4. ASSUME NEW k \in DOMAIN held' PROVE HeldOk(k)'
    <3>1. CASE k = key
      BY <1>1, <2>1, <2>2, <2>3, <3>1 DEF HeldOk
    <3>2. CASE k # key
      <4>1. k \in DOMAIN held /\ held'[k] = held[k] /\ (k \in tainted => k \in tainted')
        BY <2>1, <2>2, <3>2
      <4> QED
        BY <1>1, <4>1 DEF StaleInv, HeldOk
    <3> QED
      BY <3>1, <3>2
  <2>5. ASSUME NEW u \in DOMAIN putting' PROVE PutOk(u)'
    BY <1>1, <2>2 DEF StaleInv, PutOk
  <2>6. ASSUME NEW u \in Senders, At(u, {"rank"})' PROVE RankOk(u)'
    BY <1>1, <2>2, <2>6 DEF StaleInv, RankOk, At, Goes, Idle
  <2> QED
    BY <2>4, <2>5, <2>6 DEF StaleInv
<1> QED
  BY <1>2, <1>3, <1>4, <1>5

(* A flush inserts a query into the nodes on its path only, and has all    *)
(* the keys of these.                                                      *)
LEMMA RefreshTouches ==
  ASSUME BaseInv, RowsInv, IndexInv, Refresh, NEW k \in Keys, ~InFlush(k)
  PROVE  top'[k[2]] = top[k[2]]
<1>1. PICK q \in Queries : InRows(q) /\ top' = IP!WalkOffer(top, q, store[q])
  BY RefreshIndex, Zenon DEF BaseInv
<1>2. \A p \in Prefixes(q) \ {<<>>}, m \in Modes : InFlush(<<m, p>>)
  BY <1>1 DEF InRows, RowsInv, Refresh
<1> DEFINE p == k[2]
<1>3. p \in Index!Paths /\ k[1] \in Modes /\ k = <<k[1], p>> /\ p # <<>>
  BY KeyPaths DEF Keys, Prefixed
<1>4. p \notin Prefixes(q)
  BY <1>2, <1>3
<1>5. ~IP!IsPrefix(p, q)
  <2> SUFFICES ASSUME IP!IsPrefix(p, q) PROVE p \in Prefixes(q)
    BY <1>4
  <2>1. Len(p) <= Len(q) /\ SubSeq(p, 1, Len(p)) = SubSeq(q, 1, Len(p))
    BY DEF IP!IsPrefix
  <2>2. \E A : p \in Seq(A)
    BY <1>3, IndexAssumption, IndexOperators, IP!PathIsSequence
  <2>3. p = SubSeq(p, 1, Len(p)) /\ Len(p) \in Nat
    <3>1. \A A : \A x \in Seq(A) : x = SubSeq(x, 1, Len(x)) /\ Len(x) \in Nat
      OBVIOUS
    <3> HIDE DEF p
    <3> QED
      BY <2>2, <3>1
  <2>4. Len(q) \in Nat
    BY ServiceAssumption
  <2> DEFINE l == Len(p)
  <2>5. l \in 0..Len(q) /\ p = SubSeq(q, 1, l)
    BY <2>1, <2>3, <2>4
  <2> HIDE DEF l, p
  <2> QED
    BY <2>5 DEF Prefixes
<1>6. p \in IP!Paths
  BY <1>3, IndexOperators
<1> HIDE DEF p
<1>7. top'[p] = top[p]
  BY <1>1, <1>5, <1>6 DEF IP!WalkOffer
<1> QED
  BY <1>7 DEF p

(* The flush. *)
LEMMA FlushStale ==
  ASSUME BaseInv, RowsInv, IndexInv, StaleInv, FlushStep
  PROVE  StaleInv'
<1>1. DOMAIN held \subseteq Keys /\ (\A t \in DOMAIN putting : putting[t].key \in Keys)
      /\ (\A t \in Senders : At(t, {"rank"}) => request[t].key \in Keys)
      /\ DOMAIN putting = {t \in Senders : At(t, {"fill"})}
  BY DEF BaseInv, RequestInv, At
<1>2. ASSUME ApplyBatch PROVE StaleInv'
  <2>1. \A k : ~InFlush(k)
    BY <1>2 DEF ApplyBatch, BaseInv, FlushInv, AtRest, InFlush
  <2>2. UNCHANGED <<top, held, putting, request, overtaken, tainted>>
    BY <1>2 DEF ApplyBatch, indexVars, cacheVars, history
  <2>3. \A k : HeldOk(k) => HeldOk(k)'
    BY <2>1, <2>2 DEF HeldOk
  <2>4. \A t : PutOk(t) => PutOk(t)'
    BY <2>1, <2>2 DEF PutOk
  <2>5. \A t : (RankOk(t) => RankOk(t)') /\ (At(t, {"rank"})' => At(t, {"rank"}))
    BY <2>1, <2>2 DEF RankOk, At
  <2> QED
    BY <2>2, <2>3, <2>4, <2>5 DEF StaleInv
<1>3. ASSUME Refresh PROVE StaleInv'
  <2>1. flush'.keys = flush.keys
    BY <1>3, RefreshedRows DEF BaseInv
  <2>2. \A k : InFlush(k)' <=> InFlush(k)
    BY <2>1 DEF InFlush
  <2>3. UNCHANGED <<held, putting, request, overtaken, tainted>>
    BY <1>3 DEF Refresh, cacheVars, history
  <2>4. \A k \in Keys : InFlush(k) \/ top'[k[2]] = top[k[2]]
    BY <1>3, RefreshTouches
  <2>5. \A k \in Keys : HeldOk(k) => HeldOk(k)'
    BY <2>2, <2>3, <2>4 DEF HeldOk
  <2>6. \A t : putting[t].key \in Keys /\ PutOk(t) => PutOk(t)'
    BY <2>2, <2>3, <2>4 DEF PutOk
  <2>7. \A t : /\ request[t].key \in Keys /\ RankOk(t) => RankOk(t)'
               /\ At(t, {"rank"})' => At(t, {"rank"})
    BY <2>2, <2>3, <2>4 DEF RankOk, At
  <2> QED
    BY <1>1, <2>3, <2>5, <2>6, <2>7 DEF StaleInv
<1>4. ASSUME InvalidateKey PROVE StaleInv'
  <2> DEFINE k0 == Head(flush.keys)
  <2>1. /\ flush' = [at |-> "invalidate", rows |-> flush.rows, keys |-> Tail(flush.keys)]
        /\ flush.keys # <<>> /\ flush.keys \in Seq(Keys)
        /\ UNCHANGED <<top, putting, request>>
        /\ held' = [x \in DOMAIN held \ {k0} |-> held[x]]
        /\ overtaken' = overtaken \cup {t \in Senders : Fills(t, k0)}
        /\ tainted' = tainted \ {k0}
    BY <1>4 DEF InvalidateKey, Cache!Invalidate, Cache!Restrict, indexVars, BaseInv, FlushInv,
       RowsInv
  <2>2. \A k : InFlush(k) => k = k0 \/ InFlush(k)'
    <3> SUFFICES ASSUME NEW k, InFlush(k), k # k0
                 PROVE  InFlush(k)'
      OBVIOUS
    <3>0. PICK i \in DOMAIN flush.keys : flush.keys[i] = k
      BY DEF InFlush
    <3>1. \A s \in Seq(Keys) : s # <<>> => \A j \in DOMAIN s :
            s[j] # Head(s) => j - 1 \in DOMAIN Tail(s) /\ Tail(s)[j - 1] = s[j]
      <4> SUFFICES ASSUME NEW s \in Seq(Keys), s # <<>>, NEW j \in DOMAIN s, s[j] # Head(s)
                   PROVE  j - 1 \in DOMAIN Tail(s) /\ Tail(s)[j - 1] = s[j]
        OBVIOUS
      <4>1. /\ Len(s) \in Nat /\ DOMAIN s = 1..Len(s) /\ Head(s) = s[1]
            /\ Tail(s) \in Seq(Keys) /\ Len(Tail(s)) = Len(s) - 1
            /\ \A n \in 1..Len(Tail(s)) : Tail(s)[n] = s[n + 1]
        BY HeadTailProperties
      <4>2. DOMAIN Tail(s) = 1..(Len(s) - 1)
        BY <4>1
      <4>3. j # 1
        BY <4>1
      <4>4. j - 1 \in 1..(Len(s) - 1) /\ (j - 1) + 1 = j
        BY <4>1, <4>3
      <4> QED
        BY <4>1, <4>2, <4>4
    <3>2. i - 1 \in DOMAIN Tail(flush.keys) /\ Tail(flush.keys)[i - 1] = flush.keys[i]
      BY <2>1, <3>0, <3>1
    <3>3. flush'.keys = Tail(flush.keys)
      BY <2>1
    <3>4. Tail(flush.keys)[i - 1] = k
      BY <3>0, <3>2
    <3> QED
      BY <3>2, <3>3, <3>4 DEF InFlush
  <2> HIDE DEF k0
  <2>3. ASSUME NEW k \in DOMAIN held' PROVE HeldOk(k)'
    <3>1. k \in DOMAIN held /\ k # k0 /\ held'[k] = held[k]
      BY <2>1
    <3>2. HeldOk(k)
      BY <3>1 DEF StaleInv
    <3> QED
      BY <2>1, <2>2, <3>1, <3>2 DEF HeldOk
  <2>4. ASSUME NEW t \in DOMAIN putting' PROVE PutOk(t)'
    <3>1. t \in DOMAIN putting /\ PutOk(t) /\ t \in Senders /\ request[t].at = "fill"
      BY <1>1, <2>1 DEF StaleInv, At
    <3>2. CASE putting[t].key = k0
      BY <2>1, <3>1, <3>2 DEF PutOk, Fills
    <3>3. CASE putting[t].key # k0
      BY <2>1, <2>2, <3>1, <3>3 DEF PutOk
    <3> QED
      BY <3>2, <3>3
  <2>5. ASSUME NEW t \in Senders, At(t, {"rank"})' PROVE RankOk(t)'
    <3>1. RankOk(t) /\ request[t].at = "rank"
      BY <2>1, <2>5 DEF StaleInv, At
    <3>2. CASE request[t].key = k0
      BY <2>1, <3>1, <3>2 DEF RankOk, Fills
    <3>3. CASE request[t].key # k0
      BY <2>1, <2>2, <3>1, <3>3 DEF RankOk
    <3> QED
      BY <3>2, <3>3
  <2> QED
    BY <2>3, <2>4, <2>5 DEF StaleInv
<1>5. ASSUME FlushReturns PROVE StaleInv'
  <2>1. \A k : ~InFlush(k)
    BY <1>5 DEF FlushReturns, InFlush
  <2>2. UNCHANGED <<top, held, putting, request, overtaken, tainted>>
    BY <1>5 DEF FlushReturns, indexVars, cacheVars, history
  <2>3. \A k : HeldOk(k) => HeldOk(k)'
    BY <2>1, <2>2 DEF HeldOk
  <2>4. \A t : PutOk(t) => PutOk(t)'
    BY <2>1, <2>2 DEF PutOk
  <2>5. \A t : (RankOk(t) => RankOk(t)') /\ (At(t, {"rank"})' => At(t, {"rank"}))
    BY <2>1, <2>2 DEF RankOk, At
  <2> QED
    BY <2>2, <2>3, <2>4, <2>5 DEF StaleInv
<1> QED
  BY <1>2, <1>3, <1>4, <1>5 DEF FlushStep

LEMMA StaleStays ==
  ASSUME ListsInv, StaleInv, [Next]_vars
  PROVE  StaleInv'
<1> USE DEF ListsInv, LinkInv
<1>1. ASSUME UNCHANGED <<top, flush, putting, overtaken>>,
             \A k \in DOMAIN held' : /\ k \in DOMAIN held /\ held'[k] = held[k]
                                     /\ k \in tainted => k \in tainted',
             \A t \in Senders : At(t, {"rank"})' => request'[t] = request[t]
      PROVE  StaleInv'
  <2>1. \A k : InFlush(k)' <=> InFlush(k)
    BY <1>1 DEF InFlush
  <2>2. \A k \in DOMAIN held' : HeldOk(k)'
    BY <1>1, <2>1 DEF StaleInv, HeldOk
  <2>3. \A t \in DOMAIN putting' : PutOk(t)'
    BY <1>1, <2>1 DEF StaleInv, PutOk
  <2>4. \A t \in Senders : At(t, {"rank"})' => RankOk(t)'
    BY <1>1, <2>1 DEF StaleInv, RankOk, At
  <2> QED
    BY <2>2, <2>3, <2>4 DEF StaleInv
<1>2. DOMAIN request = Senders
  BY DEF BaseInv, RequestInv
<1>3. ASSUME NEW t \in Senders, NEW k \in Asked, SuggestHit(t, k) \/ SuggestMiss(t, k)
      PROVE  StaleInv'
  <2>1. CASE SuggestHit(t, k)
    <3>1. UNCHANGED <<top, flush, putting, overtaken, held, tainted, request>>
      BY <2>1 DEF SuggestHit, Cache!Hit, own, history, indexVars
    <3> QED
      BY <1>1, <3>1
  <2>2. CASE SuggestMiss(t, k)
    <3>1. /\ UNCHANGED <<top, flush, putting, overtaken>> /\ tainted' = tainted \ {k}
          /\ held' = [x \in DOMAIN held \ {k} |-> held[x]]
          /\ Goes(t, [at |-> "compute", key |-> k])
      BY <2>2 DEF SuggestMiss, Cache!Miss, Cache!Restrict, indexVars
    <3>2. \A u \in Senders : At(u, {"rank"})' => request'[u] = request[u]
      BY <1>2, <3>1 DEF Goes, At
    <3> QED
      BY <1>1, <3>1, <3>2
  <2> QED
    BY <1>3, <2>1, <2>2
<1>4. ASSUME NEW t \in Senders, NEW q \in Queries, Search(t, q) \/ Enqueue(t) PROVE StaleInv'
  <2>1. /\ UNCHANGED <<top, flush, putting, overtaken, held, tainted>>
        /\ \E a : Goes(t, a) /\ a.at # "rank"
    <3>1. [at |-> "enqueue", query |-> q].at # "rank" /\ Idle.at # "rank"
      BY DEF Idle
    <3> QED
      BY <1>4, <3>1 DEF Search, Enqueue, cacheVars, indexVars, history
  <2>2. \A u \in Senders : At(u, {"rank"})' => request'[u] = request[u]
    BY <1>2, <2>1 DEF Goes, At
  <2> QED
    BY <1>1, <2>1, <2>2
<1>5. ASSUME NEW t \in Senders, RequestStep(t) PROVE StaleInv'
  <2>1. CASE Enqueue(t)
    <3>1. \E q \in Queries : TRUE
      BY <2>1 DEF Enqueue, BaseInv, RequestInv, At
    <3> QED
      BY <1>4, <2>1, <3>1
  <2>2. CASE Trip(t)
    <3>1. UNCHANGED <<top, flush, putting, overtaken, held, tainted, request>>
      BY <2>2 DEF Trip, own, history, indexVars, cacheVars
    <3> QED
      BY <1>1, <3>1
  <2>3. CASE Compute(t) \/ ReadCandidates(t) \/ ReadRecency(t) \/ Fill(t)
    BY <2>3, RequestsStale
  <2> QED
    BY <1>5, <2>1, <2>2, <2>3 DEF RequestStep
<1>6. ASSUME NEW k \in Keys, Expire(k) PROVE StaleInv'
  <2>1. /\ UNCHANGED <<top, flush, putting, overtaken, request>> /\ tainted' = tainted \ {k}
        /\ held' = [x \in DOMAIN held \ {k} |-> held[x]]
    BY <1>6 DEF Expire, Cache!Invalidate, Cache!Restrict, indexVars, own
  <2> QED
    BY <1>1, <2>1
<1>7. ASSUME BuildIndex PROVE StaleInv'
  <2>1. UNCHANGED <<held, putting, request>> /\ main = "starting"
    BY <1>7 DEF BuildIndex, cacheVars, own
  <2>2. DOMAIN held' = {} /\ \A t \in Senders : ~At(t, {"rank"})' /\ ~At(t, {"fill"})
    BY <2>1 DEF BaseInv, RequestInv, At, Idle
  <2>3. DOMAIN putting' = {}
    BY <2>1, <2>2 DEF BaseInv, RequestInv
  <2> QED
    BY <2>2, <2>3 DEF StaleInv
<1>8. ASSUME ProcessEnds PROVE StaleInv'
  <2>1. held' = <<>> /\ putting' = <<>> /\ request' = [t \in Senders |-> Idle]
    BY <1>8 DEF ProcessEnds
  <2> QED
    BY <2>1 DEF StaleInv, At, Idle
<1>9. ASSUME \/ \E q \in Queries : Fade(q)
             \/ WriterLoop \/ ApplyToClosed \/ ApplyFails \/ ReadBackFails
             \/ Start \/ Stop \/ CloseStore \/ UNCHANGED vars
      PROVE  StaleInv'
  <2>1. UNCHANGED <<top, flush, putting, overtaken, held, tainted, request>>
    BY <1>9 DEF Fade, WriterLoop, ApplyToClosed, ApplyFails, ReadBackFails, Start, Stop,
       CloseStore, vars, own, history, indexVars, cacheVars
  <2> QED
    BY <1>1, <2>1
<1>10. FlushStep => StaleInv'
  BY FlushStale
<1> QED
  BY <1>3, <1>4, <1>5, <1>6, <1>7, <1>8, <1>9, <1>10, Zenon DEF Next

(* A cached list is stale only while the flush that made it so still has   *)
(* to invalidate its key, or if the invalidation came between a request's  *)
(* read of the index and its write to the cache.                           *)
THEOREM StaleExplained == Spec => []StaleOnlyIfOvertaken
<1>1. ListsInv /\ StaleInv => StaleOnlyIfOvertaken
  <2> SUFFICES ASSUME ListsInv, StaleInv, NEW k \in DOMAIN held
               PROVE  Current(k) \/ BeingInvalidated(k) \/ k \in tainted
    BY DEF StaleOnlyIfOvertaken
  <2> USE DEF ListsInv, LinkInv
  <2>1. k \in Keys /\ k[2] \in Index!Paths /\ k[1] \in Modes
    BY KeyPaths DEF BaseInv, RequestInv
  <2>2. /\ Index!TopForPrefix(top, k[2], Limit) = FirstOf(top[k[2]], Limit)
        /\ Index!Candidates(top, k[2]) = top[k[2]]
    BY <2>1, TopLists, NodeLists, ServiceAssumption DEF BaseInv
  <2>3. CurrentOf(top[k[2]], k[1], held[k]) => Current(k)
    BY <2>2 DEF CurrentOf, Current
  <2>4. InFlush(k) => BeingInvalidated(k)
    BY DEF InFlush, BeingInvalidated
  <2> QED
    BY <2>3, <2>4 DEF StaleInv, HeldOk
<1>2. ListsInv /\ StaleInv /\ [Next]_vars => StaleInv'
  BY StaleStays
<1> QED
  BY <1>1, <1>2, StaleInit, ListsInvariant, PTL DEF Spec

--------------------------------------------------------------------------------
(* Types.                                                                  *)

CrashesInv == crashes \in 0..MaxCrashes

LEMMA CrashesStay ==
  ASSUME CrashesInv, [Next]_vars
  PROVE  CrashesInv'
<1>1. CASE ProcessEnds
  BY <1>1, ServiceAssumption DEF ProcessEnds, CrashesInv
<1>2. CASE ~ProcessEnds
  <2>1. ASSUME NEW t \in Senders, NEW k \in Asked, SuggestHit(t, k) \/ SuggestMiss(t, k)
        PROVE  UNCHANGED crashes
    BY <2>1 DEF SuggestHit, SuggestMiss, history
  <2>2. ASSUME NEW t \in Senders, RequestStep(t) PROVE UNCHANGED crashes
    BY <2>2 DEF RequestStep, Compute, ReadCandidates, ReadRecency, Fill, Enqueue, Trip, history
  <2>3. UNCHANGED crashes
    BY <1>2, <2>1, <2>2 DEF Next, vars, history, Search, Fade, Expire, WriterLoop, FlushStep,
       ApplyBatch, Refresh, InvalidateKey, FlushReturns, ApplyToClosed, ApplyFails, ReadBackFails,
       BuildIndex, Start, Stop, CloseStore
  <2> QED
    BY <2>3 DEF CrashesInv
<1> QED
  BY <1>1, <1>2

(* Every variable keeps its type, the components' included: in particular  *)
(* every node's list stays within node_cap.                                *)
THEOREM TypesOfTheService == Spec => []TypeOK
<1>1. Init => CrashesInv
  BY ServiceAssumption DEF Init, CrashesInv
<1>2. CrashesInv /\ [Next]_vars => CrashesInv'
  BY CrashesStay
<1>3. LinkInv /\ RecentInv /\ CrashesInv => TypeOK
  <2> SUFFICES ASSUME LinkInv, RecentInv, CrashesInv PROVE TypeOK
    OBVIOUS
  <2> USE DEF LinkInv, BaseInv
  <2>1. Writer!TypeOK
    BY DEF WriterInv, WP!TypeOK, Writer!TypeOK
  <2>2. Index!TrieTypeOK
    <3>1. IP!TrieTypeOK
      BY IndexAssumption, IP!TrieInvMeans DEF IndexInv
    <3> QED
      BY <3>1, IndexOperators DEF IP!TrieTypeOK, Index!TrieTypeOK, IP!Entry, Index!Entry,
         IP!Indexed, Index!Indexed
  <2>3. /\ DOMAIN held \subseteq Keys /\ overtaken \subseteq Senders /\ tainted \subseteq DOMAIN held
        /\ \A t \in Senders : request[t].at \in {"idle", "compute", "rank", "fill", "enqueue"}
    BY DEF RequestInv, At
  <2>4. closed \in BOOLEAN /\ flush.at \in {"apply", "refresh", "invalidate"}
    BY DEF FlushInv
  <2>5. /\ DOMAIN store \subseteq Queries /\ store \in [DOMAIN store -> Nat]
        /\ pending \in [Queries -> Nat]
        /\ recorded \in [Queries -> Nat] /\ lost \in [Queries -> Nat]
    BY DEF StoreInv
  <2>6. recent \in [Queries -> Nat] /\ crashes \in 0..MaxCrashes
    BY DEF RecentInv, CrashesInv
  <2> HIDE DEF LinkInv, BaseInv
  <2> QED
    BY <2>1, <2>2, <2>3, <2>4, <2>5, <2>6, Zenon DEF TypeOK
<1> QED
  BY <1>1, <1>2, <1>3, LinkInvariant, RecentInit, RecentStays, PTL DEF Spec
================================================================================
