--------------------------- MODULE BatchWriterProofs ---------------------------
(***************************************************************************)
(* Theorems about BatchWriter, for every set of queries and threads, every *)
(* max_size and every number of searches.                                  *)
(***************************************************************************)
EXTENDS BatchWriter, FiniteSetTheorems, TLAPS

LEMMA TypeInit == Init => TypeOK
<1>1. /\ NoSearches \in [Queries -> Nat]
      /\ [s \in Senders |-> "idle"] \in [Senders -> {"idle", "trip"}]
      /\ 0 \in Nat
  BY DEF NoSearches
<1>2. QED
  BY <1>1 DEF Init, TypeOK

LEMMA TypeStep == TypeOK /\ [Next]_vars => TypeOK'
<1> SUFFICES ASSUME TypeOK, [Next]_vars PROVE TypeOK'
  OBVIOUS
<1> USE DEF TypeOK, queueVars, statVars
<1>1. \A f \in [Queries -> Nat] : /\ IsFiniteSet(Keys(f))
                                  /\ Cardinality(Keys(f)) \in Nat
  BY BatchWriterAssumption, FS_Subset, FS_CardinalityType DEF Keys
<1>2. ASSUME NEW s \in Senders, NEW q \in Queries, Enqueue(s, q) PROVE TypeOK'
  BY <1>2 DEF Enqueue, Coalesced, Trips
<1>3. ASSUME NEW s \in Senders, Trip(s) PROVE TypeOK'
  BY <1>3 DEF Trip
<1>4. CASE WriterStep
  <2>1. CASE TestStop
    BY <2>1 DEF TestStop
  <2>2. CASE WakeOnEvent
    BY <2>2 DEF WakeOnEvent
  <2>3. CASE Clear
    BY <2>3 DEF Clear
  <2>4. CASE DrainNothing
    BY <2>4 DEF DrainNothing, AfterFlush
  <2>5. CASE Drain
    BY <2>5 DEF Drain, NoSearches
  <2>6. CASE Account
    BY <2>6, <1>1 DEF Account, Written, AfterFlush, NoSearches
  <2>7. QED
    BY <1>4, <2>1, <2>2, <2>3, <2>4, <2>5, <2>6 DEF WriterStep
<1>5. CASE WakeOnTimer
  BY <1>5 DEF WakeOnTimer
<1>6. CASE CallbackReturns
  BY <1>6 DEF CallbackReturns, Merge
<1>7. CASE CallbackRaises
  BY <1>7 DEF CallbackRaises, Merge, NoSearches
<1>8. CASE Start \/ StopSet \/ StopTrip
  BY <1>8 DEF Start, StopSet, StopTrip
<1>9. CASE JoinReturns \/ JoinTimesOut \/ Exited \/ UNCHANGED vars
  BY <1>9 DEF JoinReturns, JoinTimesOut, Exited, vars
<1>10. QED
  BY <1>2, <1>3, <1>4, <1>5, <1>6, <1>7, <1>8, <1>9 DEF Next

(* Every variable keeps its type. *)
THEOREM TypeCorrect == Spec => []TypeOK
BY TypeInit, TypeStep, PTL DEF Spec

--------------------------------------------------------------------------------
(* The handshake between the threads.  What makes it inductive: stop()     *)
(* sets _stop before it sets _flush_now and before it joins, and only the  *)
(* flush after the loop is final, when nobody enqueues any more.           *)

Handshake ==
  /\ stopFlag <=> main \in {"tripping", "joining", "joined", "timedOut"}
  /\ final => stopFlag
  /\ writer = "done" => final
  /\ final /\ writer \in {"callback", "account", "done"} => Keys(buffer) = {}
  /\ writer \notin {"callback", "account"} => Keys(batch) = {}
  /\ main = "joined" => WriterEnded
  /\ writer # "dead" => dropped = NoSearches
  /\ main = "starting" => writer = "unstarted"

LEMMA NoKeys == Keys(NoSearches) = {}
BY DEF Keys, NoSearches

LEMMA HandshakeInit == Init => Handshake
BY NoKeys DEF Init, Handshake

LEMMA HandshakeStep == TypeOK /\ Handshake /\ [Next]_vars => Handshake'
<1> SUFFICES ASSUME TypeOK, Handshake, [Next]_vars PROVE Handshake'
  OBVIOUS
<1> USE DEF TypeOK, Handshake, queueVars, WriterEnded
<1>1. ASSUME NEW s \in Senders, NEW q \in Queries, Enqueue(s, q) PROVE Handshake'
  BY <1>1 DEF Enqueue, Coalesced, Trips, Keys
<1>2. CASE Drain
  BY <1>2, NoKeys DEF Drain, Keys
<1>3. CASE CallbackReturns
  BY <1>3 DEF CallbackReturns, Keys
<1>4. CASE CallbackRaises
  BY <1>4, NoKeys DEF CallbackRaises, Keys
<1>5. CASE Account
  BY <1>5, NoKeys DEF Account, Written, AfterFlush, Keys
<1>6. ASSUME NEW s \in Senders, Trip(s) PROVE Handshake'
  BY <1>6 DEF Trip, Keys
<1>7. CASE TestStop \/ WakeOnEvent \/ WakeOnTimer \/ Clear
  BY <1>7 DEF TestStop, WakeOnEvent, WakeOnTimer, Clear, Keys
<1>8. CASE DrainNothing
  BY <1>8 DEF DrainNothing, AfterFlush, Keys
<1>9. CASE Start \/ StopSet \/ StopTrip
  BY <1>9 DEF Start, StopSet, StopTrip, Keys
<1>10. CASE JoinReturns \/ JoinTimesOut \/ Exited \/ UNCHANGED vars
  BY <1>10 DEF JoinReturns, JoinTimesOut, Exited, vars, Keys
<1>11. QED
  BY <1>1, <1>2, <1>3, <1>4, <1>5, <1>6, <1>7, <1>8, <1>9, <1>10 DEF Next, WriterStep

LEMMA HandshakeInvariant == Spec => []Handshake
BY HandshakeInit, HandshakeStep, TypeCorrect, PTL DEF Spec

--------------------------------------------------------------------------------
(* Every step moves searches from one place to the next, whole; the        *)
(* handshake is needed for start() only, which finds nothing in hand.      *)

(* No search is lost or counted twice between enqueue() and the store.     *)
THEOREM Conservation == Spec => []SearchesConserved
<1>1. Init => SearchesConserved
  BY DEF Init, SearchesConserved, InHand, NoSearches
<1>2. TypeOK /\ Handshake /\ SearchesConserved /\ [Next]_vars => SearchesConserved'
  <2> SUFFICES ASSUME TypeOK, Handshake, SearchesConserved, [Next]_vars,
                      NEW k \in Queries
               PROVE  (accepted[k] = buffer[k] + InHand(k) + delivered[k] + dropped[k])'
    BY DEF SearchesConserved
  <2>0. accepted[k] = buffer[k] + InHand(k) + delivered[k] + dropped[k]
    BY DEF SearchesConserved
  <2> USE DEF TypeOK, InHand, queueVars
  <2>1. ASSUME NEW s \in Senders, NEW q \in Queries, Enqueue(s, q)
        PROVE  (accepted[k] = buffer[k] + InHand(k) + delivered[k] + dropped[k])'
    BY <2>0, <2>1 DEF Enqueue, Coalesced, Trips
  <2>2. CASE Drain
    BY <2>0, <2>2 DEF Drain, NoSearches
  <2>3. CASE CallbackReturns
    BY <2>0, <2>3 DEF CallbackReturns, Merge
  <2>4. CASE CallbackRaises
    BY <2>0, <2>4 DEF CallbackRaises, Merge, NoSearches
  <2>5. CASE Account
    BY <2>0, <2>5 DEF Account, Written, AfterFlush, NoSearches
  <2>6. ASSUME NEW s \in Senders, Trip(s)
        PROVE  (accepted[k] = buffer[k] + InHand(k) + delivered[k] + dropped[k])'
    BY <2>0, <2>6 DEF Trip
  <2>7. CASE TestStop \/ WakeOnEvent \/ WakeOnTimer \/ Clear \/ DrainNothing
    BY <2>0, <2>7 DEF TestStop, WakeOnEvent, WakeOnTimer, Clear, DrainNothing, AfterFlush
  <2>8. CASE Start
    BY <2>0, <2>8 DEF Start, Handshake
  <2>9. CASE StopSet \/ StopTrip \/ JoinReturns \/ JoinTimesOut
    BY <2>0, <2>9 DEF StopSet, StopTrip, JoinReturns, JoinTimesOut
  <2>10. CASE Exited \/ UNCHANGED vars
    BY <2>0, <2>10 DEF Exited, vars
  <2>11. QED
    BY <2>1, <2>2, <2>3, <2>4, <2>5, <2>6, <2>7, <2>9, <2>10, <2>8 DEF Next, WriterStep
<1>3. QED
  BY <1>1, <1>2, TypeCorrect, HandshakeInvariant, PTL DEF Spec

(* When stop() has returned and the writer thread has run to its end,      *)
(* everything that was enqueued has been delivered.                        *)
THEOREM GracefulStop == Spec => []GracefulStopLosesNothing
<1>1. TypeOK /\ Handshake /\ SearchesConserved => GracefulStopLosesNothing
  <2> SUFFICES ASSUME TypeOK, Handshake, SearchesConserved, writer = "done"
               PROVE  delivered = accepted
    BY DEF GracefulStopLosesNothing
  <2>1. Keys(buffer) = {} /\ dropped = NoSearches
    BY DEF Handshake, TypeOK
  <2>2. ASSUME NEW q \in Queries PROVE delivered[q] = accepted[q]
    <3>1. buffer[q] = 0 /\ InHand(q) = 0 /\ dropped[q] = 0
      BY <2>1 DEF Keys, InHand, NoSearches, TypeOK
    <3>2. QED
      BY <3>1 DEF SearchesConserved, TypeOK
  <2>3. QED
    BY <2>2 DEF TypeOK
<1>2. QED
  BY <1>1, TypeCorrect, HandshakeInvariant, Conservation, PTL
--------------------------------------------------------------------------------
(* The two facts about the event _flush_now.  Only Clear resets it, and    *)
(* the writer that has reset it drains before it can wait again.           *)

(* A full buffer always has a wake-up on its way. *)
THEOREM NoLostSizeTrigger == Spec => []SizeTriggerArmed
<1>1. Init => SizeTriggerArmed
  BY NoKeys DEF Init, SizeTriggerArmed
<1>2. TypeOK /\ Handshake /\ SizeTriggerArmed /\ [Next]_vars => SizeTriggerArmed'
  <2> SUFFICES ASSUME TypeOK, Handshake, SizeTriggerArmed, [Next]_vars
               PROVE  SizeTriggerArmed'
    OBVIOUS
  <2> USE DEF TypeOK, SizeTriggerArmed, queueVars, WriterEnded
  <2>1. ASSUME NEW s \in Senders, NEW q \in Queries, Enqueue(s, q)
        PROVE  SizeTriggerArmed'
    BY <2>1 DEF Enqueue, Coalesced, Trips
  <2>2. ASSUME NEW s \in Senders, Trip(s) PROVE SizeTriggerArmed'
    BY <2>2 DEF Trip
  <2>3. CASE TestStop \/ WakeOnEvent \/ WakeOnTimer \/ Clear
    BY <2>3 DEF TestStop, WakeOnEvent, WakeOnTimer, Clear, Keys
  <2>4. CASE DrainNothing
    BY <2>4 DEF DrainNothing, AfterFlush, Keys
  <2>5. CASE Drain
    BY <2>5, NoKeys DEF Drain, Keys
  <2>6. CASE CallbackReturns \/ CallbackRaises
    BY <2>6 DEF CallbackReturns, CallbackRaises, Keys
  <2>7. CASE Account
    BY <2>7 DEF Account, Written, AfterFlush, Keys
  <2>8. CASE Start \/ StopSet \/ StopTrip
    BY <2>8 DEF Start, StopSet, StopTrip, Keys, Handshake
  <2>9. CASE JoinReturns \/ JoinTimesOut \/ Exited \/ UNCHANGED vars
    BY <2>9 DEF JoinReturns, JoinTimesOut, Exited, vars, Keys
  <2>10. QED
    BY <2>1, <2>2, <2>3, <2>4, <2>5, <2>6, <2>7, <2>8, <2>9 DEF Next, WriterStep
<1>3. QED
  BY <1>1, <1>2, TypeCorrect, HandshakeInvariant, PTL DEF Spec

(* A writer that stop() is waiting for is never asleep. *)
THEOREM StopReachesWriter == Spec => []StopWakesWriter
<1>1. Init => StopWakesWriter
  BY DEF Init, StopWakesWriter
<1>2. TypeOK /\ Handshake /\ StopWakesWriter /\ [Next]_vars => StopWakesWriter'
  <2> SUFFICES ASSUME TypeOK, Handshake, StopWakesWriter, [Next]_vars
               PROVE  StopWakesWriter'
    OBVIOUS
  <2> USE DEF TypeOK, Handshake, StopWakesWriter, queueVars
  <2>1. ASSUME NEW s \in Senders, NEW q \in Queries, Enqueue(s, q)
        PROVE  StopWakesWriter'
    BY <2>1 DEF Enqueue, Coalesced, Trips
  <2>2. ASSUME NEW s \in Senders, Trip(s) PROVE StopWakesWriter'
    BY <2>2 DEF Trip
  <2>3. CASE WriterStep \/ WakeOnTimer
    BY <2>3 DEF WriterStep, TestStop, WakeOnEvent, WakeOnTimer, Clear,
                DrainNothing, Drain, Account, AfterFlush
  <2>4. CASE CallbackReturns \/ CallbackRaises
    BY <2>4 DEF CallbackReturns, CallbackRaises
  <2>5. CASE Start \/ StopSet \/ StopTrip
    BY <2>5 DEF Start, StopSet, StopTrip
  <2>6. CASE JoinReturns \/ JoinTimesOut \/ Exited \/ UNCHANGED vars
    BY <2>6 DEF JoinReturns, JoinTimesOut, Exited, vars
  <2>7. QED
    BY <2>1, <2>2, <2>3, <2>4, <2>5, <2>6 DEF Next
<1>3. QED
  BY <1>1, <1>2, TypeCorrect, HandshakeInvariant, PTL DEF Spec

--------------------------------------------------------------------------------
(* Rows against searches: an enqueue() adds one search and at most one row. *)

LEMMA KeysFinite ==
  ASSUME NEW f \in [Queries -> Nat]
  PROVE  IsFiniteSet(Keys(f)) /\ Cardinality(Keys(f)) \in Nat
BY BatchWriterAssumption, FS_Subset, FS_CardinalityType DEF Keys

LEMMA KeysOfEnqueue ==
  ASSUME NEW f \in [Queries -> Nat], NEW q \in Queries
  PROVE  Cardinality(Keys([f EXCEPT ![q] = @ + 1])) <= Cardinality(Keys(f)) + 1
<1>1. Keys([f EXCEPT ![q] = @ + 1]) = Keys(f) \cup {q}
  BY DEF Keys
<1>2. IsFiniteSet(Keys(f)) /\ Cardinality(Keys(f)) \in Nat
  BY KeysFinite
<1>3. Cardinality(Keys(f) \cup {q}) <= Cardinality(Keys(f)) + 1
  BY <1>2, FS_AddElement
<1>4. QED
  BY <1>1, <1>3

(* stats() never reports more rows written than searches received. *)
THEOREM RowsBounded == Spec => []RowsNeverExceedSearches
<1>1. Init => RowsNeverExceedSearches
  BY NoKeys, FS_EmptySet DEF Init, RowsNeverExceedSearches
<1>2. TypeOK /\ Handshake /\ RowsNeverExceedSearches /\ [Next]_vars
        => RowsNeverExceedSearches'
  <2> SUFFICES ASSUME TypeOK, Handshake, RowsNeverExceedSearches, [Next]_vars
               PROVE  RowsNeverExceedSearches'
    OBVIOUS
  <2>0. /\ Cardinality(Keys(buffer)) \in Nat /\ Cardinality(Keys(batch)) \in Nat
        /\ Cardinality(Keys(NoSearches)) = 0
    BY KeysFinite, NoKeys, FS_EmptySet DEF TypeOK
  <2> USE <2>0 DEF TypeOK, RowsNeverExceedSearches, queueVars, statVars
  <2>1. ASSUME NEW s \in Senders, NEW q \in Queries, Enqueue(s, q)
        PROVE  RowsNeverExceedSearches'
    <3>1. Cardinality(Keys(buffer')) <= Cardinality(Keys(buffer)) + 1
      <4>1. buffer' = [buffer EXCEPT ![q] = @ + 1]
        BY <2>1 DEF Enqueue, Coalesced, Trips
      <4>2. QED
        BY <4>1, KeysOfEnqueue
    <3>2. Cardinality(Keys(buffer')) \in Nat
      <4>1. buffer' \in [Queries -> Nat]
        BY <2>1 DEF Enqueue, Coalesced, Trips
      <4>2. QED
        BY <4>1, KeysFinite
    <3>3. QED
      BY <2>1, <3>1, <3>2 DEF Enqueue, Coalesced, Trips, Keys
  <2>2. CASE Drain
    <3>1. Cardinality(Keys(batch)) = 0
      BY <2>2, FS_EmptySet DEF Drain, Handshake
    <3>2. QED
      BY <2>2, <3>1 DEF Drain, Keys
  <2>3. CASE Account
    BY <2>3 DEF Account, Written, Keys
  <2>4. CASE CallbackRaises
    BY <2>4 DEF CallbackRaises, Keys
  <2>5. ASSUME NEW s \in Senders, Trip(s) PROVE RowsNeverExceedSearches'
    BY <2>5 DEF Trip, Keys
  <2>6. CASE TestStop \/ WakeOnEvent \/ WakeOnTimer \/ Clear \/ DrainNothing
    BY <2>6 DEF TestStop, WakeOnEvent, WakeOnTimer, Clear, DrainNothing, Keys
  <2>7. CASE CallbackReturns \/ Start \/ StopSet \/ StopTrip
    BY <2>7 DEF CallbackReturns, Start, StopSet, StopTrip, Keys
  <2>8. CASE JoinReturns \/ JoinTimesOut \/ Exited \/ UNCHANGED vars
    BY <2>8 DEF JoinReturns, JoinTimesOut, Exited, vars, Keys
  <2>9. QED
    BY <2>1, <2>2, <2>3, <2>4, <2>5, <2>6, <2>7, <2>8 DEF Next, WriterStep
<1>3. QED
  BY <1>1, <1>2, TypeCorrect, HandshakeInvariant, PTL DEF Spec

--------------------------------------------------------------------------------
(* The size of the buffer.  The bound counts requests, which are finitely  *)
(* many only between enqueue() and set(): that is part of the invariant.   *)

SizeInv == GrowsOnlyBehindWriter /\ IsFiniteSet(Tripping)

LEMMA BufferEmptied ==
  ASSUME TypeOK', SizeInv, Keys(buffer') = {}, UNCHANGED sender
  PROVE  SizeInv'
<1>1. Tripping' = Tripping
  BY DEF Tripping
<1>2. Cardinality(Keys(buffer')) = 0 /\ Cardinality(Tripping) \in Nat /\ Untripped \in Nat
  BY BatchWriterAssumption, FS_EmptySet, FS_CardinalityType DEF SizeInv, Untripped
<1>3. Keys(buffer)' = Keys(buffer') /\ Untripped' = Untripped
  BY DEF Keys, Untripped
<1> QED
  BY <1>1, <1>2, <1>3 DEF SizeInv, GrowsOnlyBehindWriter

LEMMA EnqueueInSize ==
  ASSUME TypeOK, SizeInv, NEW s \in Senders, NEW q \in Queries, Enqueue(s, q)
  PROVE  SizeInv'
<1> DEFINE rows == Cardinality(Keys(buffer))
           rowsNext == Cardinality(Keys(buffer'))
           t == Cardinality(Tripping)
<1>1. /\ sender \in [Senders -> {"idle", "trip"}] /\ sender[s] = "idle"
      /\ sender' = [sender EXCEPT ![s] = IF Trips(rowsNext) THEN "trip" ELSE "idle"]
      /\ UNCHANGED <<flushNow, writer>>
  BY DEF Enqueue, TypeOK
<1>2. buffer' = [buffer EXCEPT ![q] = @ + 1] /\ buffer \in [Queries -> Nat]
  BY DEF Enqueue, Coalesced, TypeOK
<1>3. rows \in Nat /\ rowsNext \in Nat /\ rowsNext <= rows + 1
  <2>1. buffer' \in [Queries -> Nat]
    BY <1>2
  <2>2. rowsNext <= rows + 1
    BY <1>2, KeysOfEnqueue
  <2>3. rows \in Nat /\ rowsNext \in Nat
    BY <1>2, <2>1, KeysFinite
  <2> QED
    BY <2>2, <2>3
<1>4. IsFiniteSet(Tripping) /\ t \in Nat /\ Untripped \in Nat /\ MaxSize \in Int
  BY BatchWriterAssumption, FS_CardinalityType DEF SizeInv, Untripped
<1>5. ~flushNow /\ writer # "drain" => rows <= Untripped + t
  BY DEF SizeInv, GrowsOnlyBehindWriter
<1>6. Keys(buffer)' = Keys(buffer') /\ Untripped' = Untripped
  BY DEF Keys, Untripped
<1>7. CASE Trips(rowsNext)
  <2>1. Tripping' = Tripping \cup {s} /\ s \notin Tripping
    BY <1>1, <1>7 DEF Tripping
  <2>2. IsFiniteSet(Tripping') /\ Cardinality(Tripping') = t + 1
    BY <1>4, <2>1, FS_AddElement
  <2> HIDE DEF rows, rowsNext, t
  <2>3. ~flushNow' /\ writer' # "drain" => rowsNext <= Untripped + Cardinality(Tripping')
    BY <1>1, <1>3, <1>4, <1>5, <2>2
  <2> QED
    BY <1>6, <2>2, <2>3 DEF SizeInv, GrowsOnlyBehindWriter, rowsNext
<1>8. CASE ~Trips(rowsNext)
  <2>1. Tripping' = Tripping
    BY <1>1, <1>8 DEF Tripping
  <2> HIDE DEF rows, rowsNext, t
  <2>2. rowsNext <= Untripped + t
    BY <1>3, <1>4, <1>8 DEF Trips, Untripped
  <2> QED
    BY <1>4, <1>6, <2>1, <2>2 DEF SizeInv, GrowsOnlyBehindWriter, rowsNext, t
<1> QED
  BY <1>7, <1>8

(* While the event is unset and the writer not about to drain, enqueue()   *)
(* has let the buffer grow past max_size by at most one row for each       *)
(* request that has yet to call set().                                     *)
THEOREM BufferGrowth == Spec => []GrowsOnlyBehindWriter
<1>1. Init => SizeInv
  <2> SUFFICES ASSUME Init PROVE SizeInv
    OBVIOUS
  <2>1. Tripping = {} /\ Keys(buffer) = {}
    BY NoKeys DEF Init, Tripping
  <2>2. /\ IsFiniteSet(Tripping) /\ Cardinality(Tripping) = 0
        /\ Cardinality(Keys(buffer)) = 0 /\ Untripped \in Nat
    BY <2>1, BatchWriterAssumption, FS_EmptySet DEF Untripped
  <2> QED
    BY <2>2 DEF SizeInv, GrowsOnlyBehindWriter
<1>2. TypeOK /\ TypeOK' /\ Handshake /\ SizeInv /\ [Next]_vars => SizeInv'
  <2> SUFFICES ASSUME TypeOK, TypeOK', Handshake, SizeInv, [Next]_vars PROVE SizeInv'
    OBVIOUS
  <2> USE DEF queueVars
  <2>1. ASSUME NEW s \in Senders, NEW q \in Queries, Enqueue(s, q) PROVE SizeInv'
    BY <2>1, EnqueueInSize
  <2>2. ASSUME NEW s \in Senders, Trip(s) PROVE SizeInv'
    <3>1. Tripping' = Tripping \ {s} /\ flushNow' = TRUE
      BY <2>2 DEF Trip, Tripping, TypeOK
    <3>2. IsFiniteSet(Tripping')
      BY <3>1, FS_RemoveElement DEF SizeInv
    <3> QED
      BY <3>1, <3>2 DEF SizeInv, GrowsOnlyBehindWriter
  <2>3. CASE Drain \/ DrainNothing
    <3>1. Keys(buffer') = {} /\ UNCHANGED sender
      BY <2>3, NoKeys DEF Drain, DrainNothing
    <3> QED
      BY <3>1, BufferEmptied
  <2>4. ASSUME UNCHANGED <<buffer, sender>>, writer = "drain" => writer' = "drain",
               flushNow' = flushNow \/ flushNow' = TRUE \/ writer' = "drain"
        PROVE  SizeInv'
    BY <2>4 DEF SizeInv, GrowsOnlyBehindWriter, Tripping, Untripped, Keys, TypeOK
  <2>5. CASE TestStop \/ WakeOnEvent \/ WakeOnTimer \/ Clear
    BY <2>4, <2>5 DEF TestStop, WakeOnEvent, WakeOnTimer, Clear
  <2>6. CASE CallbackReturns \/ CallbackRaises \/ Account
    BY <2>4, <2>6 DEF CallbackReturns, CallbackRaises, Account
  <2>7. CASE StopSet \/ StopTrip \/ JoinReturns \/ JoinTimesOut
    BY <2>4, <2>7 DEF StopSet, StopTrip, JoinReturns, JoinTimesOut
  <2>8. CASE Start
    <3>1. writer # "drain"
      BY <2>8 DEF Start, Handshake
    <3> QED
      BY <2>4, <2>8, <3>1 DEF Start
  <2>9. CASE Exited \/ UNCHANGED vars
    BY <2>4, <2>9 DEF Exited, vars
  <2>10. QED
    BY <2>1, <2>2, <2>3, <2>5, <2>6, <2>7, <2>8, <2>9 DEF Next, WriterStep
<1>3. SizeInv => GrowsOnlyBehindWriter
  BY DEF SizeInv
<1>4. QED
  BY <1>1, <1>2, <1>3, TypeCorrect, HandshakeInvariant, PTL DEF Spec

--------------------------------------------------------------------------------
(* The ledger.                                                             *)

(* The writer implements CountLedger: a search is accepted once and        *)
(* settles at most once, as delivered or as dropped.                       *)
THEOREM ImplementsLedger == Spec => LedgerSpec
<1>1. Init => Ledger!Init
  BY DEF Init, Ledger!Init, NoSearches
<1>2. TypeOK /\ TypeOK' /\ SearchesConserved /\ SearchesConserved' /\ [Next]_vars
        => [Ledger!Next]_(Ledger!vars)
  <2> SUFFICES ASSUME TypeOK, TypeOK', SearchesConserved', [Next]_vars
               PROVE  Ledger!Next \/ UNCHANGED Ledger!vars
    OBVIOUS
  <2> USE DEF queueVars, Ledger!vars
  <2>1. ASSUME NEW s \in Senders, NEW q \in Queries, Enqueue(s, q)
        PROVE  Ledger!Accept(q)
    BY <2>1 DEF Enqueue, Coalesced, Trips, Ledger!Accept
  <2>2. CASE CallbackReturns \/ CallbackRaises
    <3>1. \A q \in Queries : delivered'[q] + dropped'[q] <= accepted'[q]
      <4> TAKE q \in Queries
      <4>1. /\ accepted'[q] = buffer'[q] + InHand(q)' + delivered'[q] + dropped'[q]
            /\ InHand(q)' \in Nat
        BY DEF SearchesConserved, InHand, TypeOK
      <4>2. QED
        BY <4>1 DEF TypeOK
    <3>2. \A q \in Queries : delivered[q] <= delivered'[q] /\ dropped[q] <= dropped'[q]
      BY <2>2 DEF CallbackReturns, CallbackRaises, Merge, TypeOK
    <3>3. UNCHANGED accepted
      BY <2>2 DEF CallbackReturns, CallbackRaises
    <3>4. QED
      BY <3>1, <3>2, <3>3 DEF Ledger!Next, Ledger!Settle, TypeOK
  <2>3. ASSUME NEW s \in Senders, Trip(s) PROVE UNCHANGED Ledger!vars
    BY <2>3 DEF Trip
  <2>4. CASE WriterStep \/ WakeOnTimer
    BY <2>4 DEF WriterStep, TestStop, WakeOnEvent, WakeOnTimer, Clear,
                DrainNothing, Drain, Account
  <2>5. CASE Start \/ StopSet \/ StopTrip \/ JoinReturns \/ JoinTimesOut
    BY <2>5 DEF Start, StopSet, StopTrip, JoinReturns, JoinTimesOut
  <2>6. CASE Exited \/ UNCHANGED vars
    BY <2>6 DEF Exited, vars
  <2>7. QED
    BY <2>1, <2>2, <2>3, <2>4, <2>5, <2>6 DEF Next, Ledger!Next
<1>3. QED
  BY <1>1, <1>2, TypeCorrect, Conservation, PTL DEF Spec, LedgerSpec, Ledger!Spec
================================================================================
