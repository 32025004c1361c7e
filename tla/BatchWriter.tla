------------------------------ MODULE BatchWriter ------------------------------
(***************************************************************************)
(* app/batch_writer.py: searches are buffered in memory, coalesced into    *)
(* query -> delta, and handed to a flush callback by one background thread *)
(* that wakes on a timer or when the buffer holds MaxSize queries.         *)
(*                                                                         *)
(* Threads: the request threads (Senders) call enqueue(), the writer       *)
(* thread runs _run(), the main thread calls start() and, after the last   *)
(* request, stop().  Each step below is one critical section of _lock, one *)
(* operation on a threading.Event, or one access to unshared state.        *)
(***************************************************************************)
EXTENDS Integers, FiniteSets

CONSTANTS
  Queries,          \* the normalized queries users search for
  Senders,          \* request threads
  MaxSize,          \* max_size: distinct queries that trip the size trigger
  MaxSearches,      \* bound of the model: searches received
  CallbackMayRaise, \* may the flush callback raise?
  JoinMayTimeOut    \* may the writer outlive the 5 s of join(timeout=5.0)?

ASSUME BatchWriterAssumption ==
  /\ IsFiniteSet(Queries)
  /\ MaxSize \in Int
  /\ MaxSearches \in Nat
  /\ CallbackMayRaise \in BOOLEAN
  /\ JoinMayTimeOut \in BOOLEAN

VARIABLES
  buffer,         \* _buffer as a function; 0 stands for an absent key
  flushNow,       \* the event _flush_now
  stopFlag,       \* the event _stop
  received,       \* total_received
  rowsWritten,    \* total_rows_written
  flushCount,     \* flush_count
  lastFlushRows,  \* last_flush_rows
  sender,         \* per request thread: "idle", or about to "trip" the trigger
  writer,         \* where the writer thread is in _run / _flush
  final,          \* is the writer in the flush after the loop?
  batch,          \* local batch of _flush
  main,           \* where the main thread is in start() / stop()
  accepted,       \* history: searches enqueued, per query
  delivered,      \* history: searches a returned callback has covered
  dropped         \* history: searches in a batch whose callback raised

queueVars == <<buffer, batch, accepted, delivered, dropped>>
statVars == <<received, rowsWritten, flushCount, lastFlushRows>>
vars == <<queueVars, statVars, flushNow, stopFlag, sender, writer, final, main>>

NoSearches == [q \in Queries |-> 0]
Keys(deltas) == {q \in Queries : deltas[q] > 0}
Merge(d, e) == [q \in Queries |-> d[q] + e[q]]

WriterEnded == writer \in {"done", "dead"}
StopReturned == main \in {"joined", "timedOut"}

TypeOK ==
  /\ buffer \in [Queries -> Nat] /\ batch \in [Queries -> Nat]
  /\ accepted \in [Queries -> Nat] /\ delivered \in [Queries -> Nat]
  /\ dropped \in [Queries -> Nat]
  /\ received \in Nat /\ rowsWritten \in Nat
  /\ flushCount \in Nat /\ lastFlushRows \in Nat
  /\ flushNow \in BOOLEAN /\ stopFlag \in BOOLEAN /\ final \in BOOLEAN
  /\ sender \in [Senders -> {"idle", "trip"}]
  /\ writer \in {"unstarted", "test", "wait", "clear", "drain", "callback",
                 "account", "done", "dead"}
  /\ main \in {"starting", "serving", "tripping", "joining", "joined", "timedOut"}

Init ==
  /\ buffer = NoSearches /\ batch = NoSearches
  /\ accepted = NoSearches /\ delivered = NoSearches /\ dropped = NoSearches
  /\ received = 0 /\ rowsWritten = 0 /\ flushCount = 0 /\ lastFlushRows = 0
  /\ flushNow = FALSE /\ stopFlag = FALSE /\ final = FALSE
  /\ sender = [s \in Senders |-> "idle"]
  /\ writer = "unstarted" /\ main = "starting"

--------------------------------------------------------------------------------
(* Plausible bugs.  Each operator here is a faulty variant of the action   *)
(* it is named after; no run uses it as it stands, the mutation runs put   *)
(* it in the action's place to see that the properties notice.             *)

AfterFlush == IF final THEN "done" ELSE "test"

(* enqueue() that overwrites instead of coalescing. *)
Overwritten(q) == [buffer EXCEPT ![q] = 1]

(* enqueue() that trips on > max_size. *)
TripsLate(rows) == rows > MaxSize

(* _run() without the flush after the loop. *)
TestStopWithoutFinalFlush ==
  /\ writer = "test"
  /\ writer' = IF stopFlag THEN "done" ELSE "wait"
  /\ final' = stopFlag
  /\ UNCHANGED <<queueVars, statVars, flushNow, stopFlag, sender, main>>

(* A timer that only restarts the loop. *)
WakeOnTimerSkipsFlush ==
  /\ writer = "wait" /\ ~flushNow
  /\ writer' = "test"
  /\ UNCHANGED <<queueVars, statVars, flushNow, stopFlag, sender, final, main>>

(* _drain() that forgets to replace the buffer. *)
DrainKeepsBuffer ==
  /\ writer = "drain" /\ Keys(buffer) # {}
  /\ batch' = buffer
  /\ writer' = "callback"
  /\ UNCHANGED <<buffer, accepted, delivered, dropped, statVars, flushNow, stopFlag,
                 sender, final, main>>

(* clear() after the flush instead of before it. *)
AccountThenClear ==
  /\ writer = "account"
  /\ flushCount' = flushCount + 1
  /\ lastFlushRows' = Cardinality(Keys(batch))
  /\ rowsWritten' = rowsWritten + Cardinality(Keys(batch))
  /\ batch' = NoSearches
  /\ writer' = AfterFlush
  /\ flushNow' = FALSE
  /\ UNCHANGED <<buffer, accepted, delivered, dropped, received, stopFlag,
                 sender, final, main>>

(* A counter moved the wrong way. *)
WrittenBackwards == rowsWritten - Cardinality(Keys(batch))

(* stop() that leaves the writer in its wait(). *)
StopTripSilent ==
  /\ main = "tripping"
  /\ main' = "joining"
  /\ UNCHANGED <<queueVars, statVars, flushNow, stopFlag, sender, writer, final>>

--------------------------------------------------------------------------------
(* Request threads.                                                        *)

Coalesced(q) == [buffer EXCEPT ![q] = @ + 1]
Trips(rows) == rows >= MaxSize

(* The critical section of enqueue().  Requests are served between the     *)
(* lifespan's start() and its shutdown().                                  *)
Enqueue(s, q) ==
  /\ main = "serving"
  /\ sender[s] = "idle"
  /\ received < MaxSearches
  /\ buffer' = Coalesced(q)
  /\ received' = received + 1
  /\ accepted' = [accepted EXCEPT ![q] = @ + 1]
  /\ sender' = [sender EXCEPT ![s] =
                  IF Trips(Cardinality(Keys(buffer'))) THEN "trip" ELSE "idle"]
  /\ UNCHANGED <<batch, delivered, dropped, rowsWritten, flushCount, lastFlushRows,
                 flushNow, stopFlag, writer, final, main>>

(* The rest of enqueue(): _flush_now.set(), outside the lock. *)
Trip(s) ==
  /\ sender[s] = "trip"
  /\ sender' = [sender EXCEPT ![s] = "idle"]
  /\ flushNow' = TRUE
  /\ UNCHANGED <<queueVars, statVars, stopFlag, writer, final, main>>

--------------------------------------------------------------------------------
(* The writer thread.                                                      *)

(* The loop condition: on to wait(), or out of the loop to the last flush. *)
TestStop ==
  /\ writer = "test"
  /\ writer' = IF stopFlag THEN "drain" ELSE "wait"
  /\ final' = stopFlag
  /\ UNCHANGED <<queueVars, statVars, flushNow, stopFlag, sender, main>>

(* _flush_now.wait(timeout) returns because the event is set ...           *)
WakeOnEvent ==
  /\ writer = "wait" /\ flushNow
  /\ writer' = "clear"
  /\ UNCHANGED <<queueVars, statVars, flushNow, stopFlag, sender, final, main>>

(* ... or because interval seconds have passed.                            *)
WakeOnTimer ==
  /\ writer = "wait" /\ ~flushNow
  /\ writer' = "clear"
  /\ UNCHANGED <<queueVars, statVars, flushNow, stopFlag, sender, final, main>>

Clear ==
  /\ writer = "clear"
  /\ writer' = "drain"
  /\ flushNow' = FALSE
  /\ UNCHANGED <<queueVars, statVars, stopFlag, sender, final, main>>

(* _drain() with nothing buffered: _flush() returns early. *)
DrainNothing ==
  /\ writer = "drain" /\ Keys(buffer) = {}
  /\ writer' = AfterFlush
  /\ UNCHANGED <<queueVars, statVars, flushNow, stopFlag, sender, final, main>>

(* _drain() takes the whole buffer. *)
Drain ==
  /\ writer = "drain" /\ Keys(buffer) # {}
  /\ batch' = buffer
  /\ buffer' = NoSearches
  /\ writer' = "callback"
  /\ UNCHANGED <<accepted, delivered, dropped, statVars, flushNow, stopFlag,
                 sender, final, main>>

(* _flush_callback(batch) returns. *)
CallbackReturns ==
  /\ writer = "callback"
  /\ delivered' = Merge(delivered, batch)
  /\ writer' = "account"
  /\ UNCHANGED <<buffer, batch, accepted, dropped, statVars, flushNow, stopFlag,
                 sender, final, main>>

(* _flush_callback(batch) raises: nothing in _flush() or _run() catches    *)
(* it, so the thread ends, and the batch is no longer in the buffer.       *)
CallbackRaises ==
  /\ CallbackMayRaise
  /\ writer = "callback"
  /\ dropped' = Merge(dropped, batch)
  /\ batch' = NoSearches
  /\ writer' = "dead"
  /\ UNCHANGED <<buffer, accepted, delivered, statVars, flushNow, stopFlag,
                 sender, final, main>>

(* The counters _flush() advances once the callback has returned. *)
Written == rowsWritten + Cardinality(Keys(batch))
Account ==
  /\ writer = "account"
  /\ flushCount' = flushCount + 1
  /\ lastFlushRows' = Cardinality(Keys(batch))
  /\ rowsWritten' = Written
  /\ batch' = NoSearches
  /\ writer' = AfterFlush
  /\ UNCHANGED <<buffer, accepted, delivered, dropped, received, flushNow,
                 stopFlag, sender, final, main>>

--------------------------------------------------------------------------------
(* The main thread.                                                        *)

(* start(), at the end of the lifespan's startup. *)
Start ==
  /\ main = "starting"
  /\ main' = "serving"
  /\ writer' = "test"
  /\ UNCHANGED <<queueVars, statVars, flushNow, stopFlag, sender, final>>

(* stop() sets _stop.  The server runs the lifespan's shutdown only when   *)
(* every request has been answered.                                        *)
StopSet ==
  /\ main = "serving"
  /\ \A s \in Senders : sender[s] = "idle"
  /\ main' = "tripping"
  /\ stopFlag' = TRUE
  /\ UNCHANGED <<queueVars, statVars, flushNow, sender, writer, final>>

(* stop() sets _flush_now to cut the wait short. *)
StopTrip ==
  /\ main = "tripping"
  /\ main' = "joining"
  /\ flushNow' = TRUE
  /\ UNCHANGED <<queueVars, statVars, stopFlag, sender, writer, final>>

JoinReturns ==
  /\ main = "joining" /\ WriterEnded
  /\ main' = "joined"
  /\ UNCHANGED <<queueVars, statVars, flushNow, stopFlag, sender, writer, final>>

(* join(timeout=5.0) gives up on a writer that is still flushing: of all   *)
(* its steps, only the callback does I/O and can take seconds.             *)
JoinTimesOut ==
  /\ JoinMayTimeOut
  /\ main = "joining" /\ writer = "callback"
  /\ main' = "timedOut"
  /\ UNCHANGED <<queueVars, statVars, flushNow, stopFlag, sender, writer, final>>

(* Both threads are gone; nothing is left to do. *)
Exited == StopReturned /\ WriterEnded /\ UNCHANGED vars

--------------------------------------------------------------------------------

WriterStep == TestStop \/ WakeOnEvent \/ Clear \/ DrainNothing \/ Drain \/ Account

Next ==
  \/ \E s \in Senders, q \in Queries : Enqueue(s, q)
  \/ \E s \in Senders : Trip(s)
  \/ WriterStep
  \/ WakeOnTimer
  \/ CallbackReturns
  \/ CallbackRaises
  \/ Start
  \/ StopSet
  \/ StopTrip
  \/ JoinReturns
  \/ JoinTimesOut
  \/ Exited

Spec == Init /\ [][Next]_vars

(* A running thread is scheduled, the callback comes back, by returning or *)
(* by raising, and stop() runs to its end once called.  Requests, the call *)
(* of stop() and the timer are left to chance: what holds here holds       *)
(* however long the interval is.                                           *)
FairSpec ==
  /\ Spec
  /\ WF_vars(WriterStep) /\ WF_vars(CallbackReturns \/ CallbackRaises)
  /\ \A s \in Senders : WF_vars(Trip(s))
  /\ WF_vars(Start) /\ WF_vars(StopTrip) /\ WF_vars(JoinReturns)

--------------------------------------------------------------------------------
(* Properties.                                                             *)

InHand(q) == IF writer = "callback" THEN batch[q] ELSE 0

(* No search is lost or counted twice on its way through enqueue(),        *)
(* _drain() and _flush(): each one accepted is in the buffer, in the batch *)
(* being flushed, delivered, or in a batch whose callback raised.          *)
SearchesConserved ==
  \A q \in Queries :
    accepted[q] = buffer[q] + InHand(q) + delivered[q] + dropped[q]

(* The size trigger is never lost to the writer's clear(): while a full    *)
(* buffer waits, the event is set, or a sender is about to set it, or the  *)
(* writer is already past the wait and will drain it.                      *)
SizeTriggerArmed ==
  (Keys(buffer) # {} /\ Cardinality(Keys(buffer)) >= MaxSize /\ ~WriterEnded) =>
    \/ flushNow
    \/ \E s \in Senders : sender[s] = "trip"
    \/ writer \in {"clear", "drain"}

(* max_size is a trigger and not a limit, but while nothing tells the      *)
(* writer to flush, the buffer has no more rows than do not trip it, and   *)
(* one for each request between its row and its set().  All growth beyond  *)
(* that falls in the time of a writer that is behind, or dead.             *)
Tripping == {s \in Senders : sender[s] = "trip"}
Untripped == IF MaxSize > 0 THEN MaxSize - 1 ELSE 0
GrowsOnlyBehindWriter ==
  ~flushNow /\ writer # "drain" =>
    Cardinality(Keys(buffer)) <= Untripped + Cardinality(Tripping)

(* stop() never leaves the writer asleep: once stop() is joining, a writer *)
(* in wait() has the event set, so join() does not wait out an interval.   *)
StopWakesWriter == main = "joining" /\ writer = "wait" => flushNow

(* Rows never outrun searches: what was written, is being flushed and is   *)
(* still buffered adds up to at most the searches received, so the ratio   *)
(* and the writes_saved of stats() are right whenever they are read.       *)
RowsNeverExceedSearches ==
  rowsWritten + Cardinality(Keys(buffer)) + Cardinality(Keys(batch)) <= received

(* "stop() performs a final flush so a graceful shutdown loses nothing":   *)
(* provided no callback has raised (the thread is then done, not dead) and *)
(* the flush had its time.                                                 *)
GracefulStopLosesNothing == StopReturned /\ writer = "done" => delivered = accepted

(* The write path implements the ledger: delivered is durable.             *)
Ledger == INSTANCE CountLedger WITH durable <- delivered, lost <- dropped
LedgerSpec == Ledger!Spec

(* A full buffer is flushed without the help of the timer, as long as      *)
(* there is a thread to do it.                                             *)
FullBufferDrained ==
  (Keys(buffer) # {} /\ Cardinality(Keys(buffer)) >= MaxSize)
    ~> (Keys(buffer) = {} \/ writer = "dead")

(* stop() returns without the help of the timer, and without that of the   *)
(* join timeout unless the callback is slow.                               *)
StopCompletes == (main = "tripping") ~> StopReturned

(* Every accepted search is flushed in the end, however small the buffer,  *)
(* unless a callback raises; unlike the two above this needs the interval  *)
(* to elapse.                                                              *)
IntervalElapses == WF_vars(WakeOnTimer)
Flushed(q, n) == delivered[q] + dropped[q] >= n
FlushedWhileAlive ==
  IntervalElapses =>
    \A q \in Queries : \A n \in 1..MaxSearches :
      (accepted[q] >= n) ~> (Flushed(q, n) \/ writer = "dead")

(* "un-flushed search increments are lost - at most one window's worth     *)
(* (interval seconds, or max_size queries)": no accepted search stays      *)
(* un-flushed for ever, so there is a bound to what a crash can take.      *)
EverySearchFlushed ==
  IntervalElapses =>
    \A q \in Queries : \A n \in 1..MaxSearches : (accepted[q] >= n) ~> Flushed(q, n)
================================================================================
