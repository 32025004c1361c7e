-------------------------- MODULE RecencyTrackerProofs --------------------------
(***************************************************************************)
(* Theorems about RecencyTracker, for every set of queries and threads and *)
(* every way to decay that has the properties of TrackerAssumption.        *)
(***************************************************************************)
EXTENDS RecencyTracker, TLAPS

(* The longer, the less is left. *)
LEMMA DecaysOn ==
  ASSUME NEW s \in Scores, NEW d \in Ages, NEW e \in Ages, d <= e
  PROVE  Decay(s, e) <= Decay(s, d)
<1>1. e - d \in Ages /\ d + (e - d) = e
  BY TrackerAssumption DEF Ages
<1>2. Decay(s, d) \in 0..s
  BY TrackerAssumption
<1>3. Decay(s, d) \in Scores
  BY <1>2, TrackerAssumption DEF Scores
<1>4. Decay(Decay(s, d), e - d) = Decay(s, e)
  BY <1>1, TrackerAssumption
<1>5. Decay(Decay(s, d), e - d) \in 0..Decay(s, d)
  BY <1>1, <1>3, TrackerAssumption
<1> QED
  BY <1>2, <1>4, <1>5

(* What is left is a score, and not more than there was. *)
LEMMA DecayType ==
  ASSUME NEW s \in Scores, NEW d \in Ages
  PROVE  Decay(s, d) \in Scores /\ Decay(s, d) <= s
<1>1. Decay(s, d) \in 0..s
  BY TrackerAssumption
<1> QED
  BY <1>1, TrackerAssumption DEF Scores

(* _decay() reads an entry at its own age or at a lower one. *)
LEMMA DecayedToType ==
  ASSUME NEW entry \in [score : Unit..MaxScore, age : Ages], NEW age \in Ages
  PROVE  DecayedTo(entry, age) \in Scores
<1> DEFINE d == IF entry.age > age THEN entry.age - age ELSE 0
<1>1. d \in Ages
  BY TrackerAssumption DEF Ages
<1>2. entry.score \in Scores
  BY TrackerAssumption DEF Scores
<1>3. Decay(entry.score, d) \in Scores
  BY <1>1, <1>2, DecayType
<1> QED
  BY <1>3 DEF DecayedTo

(* A search recorded by a call of thread t. *)
LEMMA RaisedType ==
  ASSUME TypeOK, NEW q \in Queries, NEW age \in Ages
  PROVE  Raised(q, age) \in Unit..MaxScore
<1>1. CASE q \in Tracked
  <2>1. scores[q] \in [score : Unit..MaxScore, age : Ages]
    BY <1>1 DEF TypeOK
  <2>2. DecayedTo(scores[q], age) \in Scores
    BY <2>1, DecayedToType
  <2> QED
    BY <1>1, <2>2, TrackerAssumption DEF Raised, Capped, Scores
<1>2. CASE q \notin Tracked
  BY <1>2, TrackerAssumption DEF Raised
<1> QED
  BY <1>1, <1>2

(* A waiting call has a reading that is not too old. *)
LEMMA CallType ==
  ASSUME TypeOK, NEW t \in Threads, call[t] # NoCall
  PROVE  call[t].age \in 0..MaxLag /\ call[t].age \in Ages
<1>1. call[t] \in Calls
  BY DEF TypeOK
<1>2. call[t].age \in 0..MaxLag
  BY <1>1 DEF Calls
<1> QED
  BY <1>2, TrackerAssumption DEF Ages

--------------------------------------------------------------------------------
(* Types.                                                                  *)

LEMMA InitTypeOK == Init => TypeOK
<1> SUFFICES ASSUME Init PROVE TypeOK
  OBVIOUS
<1>1. Tracked = {} /\ scores \in [Tracked -> [score : Unit..MaxScore, age : Ages]]
  BY DEF Init, Tracked
<1>2. 0 \in Scores /\ MaxAge \in Ages
  BY TrackerAssumption DEF Scores, Ages
<1> QED
  BY <1>1, <1>2 DEF Init, TypeOK, Calls, NoCall

LEMMA WaitsTypeOK ==
  ASSUME TypeOK, NEW t \in Threads, NEW c \in Calls, Waits(t, c)
  PROVE  TypeOK'
BY DEF TypeOK, Waits, Tracked

LEMMA RecordTypeOK ==
  ASSUME TypeOK, NEW t \in Threads, NEW q \in Queries, Record(t, q)
  PROVE  TypeOK'
<1>1. call[t].age \in Ages
  BY CallType DEF Record, NoCall
<1>2. Raised(q, call[t].age) \in Unit..MaxScore
  BY <1>1, RaisedType
<1>3. Tracked' = Tracked \cup {q}
  BY DEF Record, Tracked
<1>4. scores' \in [Tracked' -> [score : Unit..MaxScore, age : Ages]]
  BY <1>1, <1>2, <1>3 DEF Record, TypeOK
<1>5. Unit \in Scores
  BY TrackerAssumption DEF Scores
<1>6. Decay(Unit, call[t].age) \in Scores
  BY <1>1, <1>5, DecayType
<1>7. Capped(exact[q] + Decay(Unit, call[t].age)) \in Scores
  BY <1>6, TrackerAssumption DEF Capped, Scores, TypeOK
<1>8. exact' \in [Queries -> Scores] /\ latest' \in [Queries -> Ages]
  BY <1>1, <1>7 DEF Record, TypeOK
<1>9. call' \in [Threads -> Calls]
  BY DEF Record, TypeOK, Calls
<1> QED
  BY <1>3, <1>4, <1>8, <1>9 DEF TypeOK

LEMMA TrendingTypeOK ==
  ASSUME TypeOK, NEW t \in Threads, Trending(t)
  PROVE  TypeOK'
<1>1. /\ Tracked' = {q \in Tracked : ~Faded(q, call[t].age)}
      /\ scores' \in [Tracked' -> [score : Unit..MaxScore, age : Ages]]
  BY DEF Trending, Tracked, Kept, TypeOK
<1>2. call' \in [Threads -> Calls]
  BY DEF Trending, TypeOK, Calls
<1> QED
  BY <1>1, <1>2 DEF Trending, TypeOK

LEMMA TickTypeOK ==
  ASSUME TypeOK, Tick
  PROVE  TypeOK'
<1>1. \A a \in Ages : Older(a) \in Ages
  BY TrackerAssumption DEF Older, Ages
<1>2. Tracked' = Tracked /\ scores' \in [Tracked' -> [score : Unit..MaxScore, age : Ages]]
  BY <1>1 DEF Tick, Tracked, TypeOK
<1>3. call' \in [Threads -> Calls]
  <2> SUFFICES ASSUME NEW t \in Threads, call[t] # NoCall
               PROVE  [call[t] EXCEPT !.age = @ + 1] \in Calls
    BY DEF Tick, Calls
  <2>1. call[t] \in Calls /\ call[t].age \in 0..MaxLag /\ call[t].age < MaxLag
    BY CallType DEF TypeOK, Tick
  <2>2. call[t].age + 1 \in 0..MaxLag
    BY <2>1, TrackerAssumption
  <2>3. CASE call[t] \in [op : {"record"}, query : Queries, age : 0..MaxLag]
    BY <2>2, <2>3 DEF Calls
  <2>4. CASE call[t] \in [op : {"trending"}, age : 0..MaxLag]
    BY <2>2, <2>4 DEF Calls
  <2> QED
    BY <2>1, <2>3, <2>4 DEF Calls
<1>4. 1 \in Ages
  BY TrackerAssumption DEF Ages
<1>5. \A q \in Queries : Decay(exact[q], 1) \in Scores
  BY <1>4, DecayType DEF TypeOK
<1>6. exact' \in [Queries -> Scores] /\ latest' \in [Queries -> Ages]
  BY <1>1, <1>5 DEF Tick, TypeOK
<1> QED
  BY <1>2, <1>3, <1>6 DEF TypeOK

LEMMA StepTypeOK == TypeOK /\ [Next]_vars => TypeOK'
<1> SUFFICES ASSUME TypeOK, [Next]_vars PROVE TypeOK'
  OBVIOUS
<1>1. 0 \in 0..MaxLag
  BY TrackerAssumption
<1>2. ASSUME NEW t \in Threads, NEW q \in Queries, RecordReadsClock(t, q)
      PROVE  TypeOK'
  <2>1. [op |-> "record", query |-> q, age |-> 0] \in Calls
    BY <1>1 DEF Calls
  <2> QED
    BY <1>2, <2>1, WaitsTypeOK DEF RecordReadsClock
<1>3. ASSUME NEW t \in Threads, TrendingReadsClock(t)
      PROVE  TypeOK'
  <2>1. [op |-> "trending", age |-> 0] \in Calls
    BY <1>1 DEF Calls
  <2> QED
    BY <1>3, <2>1, WaitsTypeOK DEF TrendingReadsClock
<1>4. ASSUME NEW t \in Threads, TakesLock(t) PROVE TypeOK'
  BY <1>4, RecordTypeOK, TrendingTypeOK DEF TakesLock
<1>5. CASE Tick
  BY <1>5, TickTypeOK
<1>6. CASE UNCHANGED vars
  BY <1>6 DEF vars, TypeOK, Tracked
<1> QED
  BY <1>2, <1>3, <1>4, <1>5, <1>6 DEF Next

(* Every variable keeps its type. *)
THEOREM TypeCorrect == Spec => []TypeOK
BY InitTypeOK, StepTypeOK, PTL DEF Spec

--------------------------------------------------------------------------------
(* The search recorded last.  What makes it inductive: an entry has the    *)
(* age of the last reading recorded, and where there is no entry, what     *)
(* that reading left had faded.                                            *)

AgesAgree ==
  \A q \in Queries :
    IF q \in Tracked THEN scores[q].age = latest[q]
    ELSE Decay(Unit, latest[q]) < Threshold

LEMMA AgesAgreeInit == Init => AgesAgree
<1> SUFFICES ASSUME Init PROVE AgesAgree
  OBVIOUS
<1>1. Tracked = {}
  BY DEF Init, Tracked
<1>2. Unit \in Scores /\ MaxAge \in Ages /\ MaxAge >= MaxAge - MaxLag
  BY TrackerAssumption DEF Scores, Ages
<1>3. Decay(Unit, MaxAge) = 0
  BY <1>2, TrackerAssumption
<1>4. \A q \in Queries : latest[q] = MaxAge /\ q \notin Tracked
  BY <1>1 DEF Init
<1>5. 0 < Threshold
  BY TrackerAssumption
<1> QED
  BY <1>3, <1>4, <1>5 DEF AgesAgree

LEMMA AgesAgreeStep == TypeOK /\ AgesAgree /\ [Next]_vars => AgesAgree'
<1> SUFFICES ASSUME TypeOK, AgesAgree, [Next]_vars PROVE AgesAgree'
  OBVIOUS
<1>u. Unit \in Scores
  BY TrackerAssumption DEF Scores
<1>1. ASSUME NEW t \in Threads, NEW c \in Calls, Waits(t, c) PROVE AgesAgree'
  BY <1>1 DEF Waits, AgesAgree, Tracked
<1>2. ASSUME NEW t \in Threads, NEW q \in Queries, Record(t, q) PROVE AgesAgree'
  <2>1. Tracked' = Tracked \cup {q}
    BY <1>2 DEF Record, Tracked
  <2>2. scores'[q].age = latest'[q]
    BY <1>2 DEF Record, TypeOK
  <2>3. \A r \in Queries \ {q} :
           latest'[r] = latest[r] /\ (r \in Tracked => scores'[r] = scores[r])
    BY <1>2 DEF Record, TypeOK
  <2> QED
    BY <2>1, <2>2, <2>3 DEF AgesAgree
<1>3. ASSUME NEW t \in Threads, Trending(t) PROVE AgesAgree'
  <2> DEFINE age == call[t].age
  <2>1. age \in Ages
    BY <1>3, CallType DEF Trending, NoCall
  <2>2. /\ Tracked' = {q \in Tracked : ~Faded(q, age)}
        /\ \A q \in Tracked' : scores'[q] = scores[q]
        /\ latest' = latest
    BY <1>3 DEF Trending, Tracked, Kept
  <2>3. ASSUME NEW q \in Queries, q \in Tracked, Faded(q, age)
        PROVE  Decay(Unit, latest[q]) < Threshold
    <3> DEFINE d == IF scores[q].age > age THEN scores[q].age - age ELSE 0
    <3>1. scores[q].score \in Unit..MaxScore /\ scores[q].age \in Ages
      BY <2>3 DEF TypeOK
    <3>2. scores[q].score \in Scores /\ Unit <= scores[q].score
      BY <3>1, TrackerAssumption DEF Scores
    <3>3. d \in Ages /\ d <= scores[q].age
      BY <2>1, <3>1, TrackerAssumption DEF Ages
    <3>4. Decay(scores[q].score, d) < Threshold
      BY <2>3 DEF Faded, DecayedTo
    <3>5. Decay(Unit, d) <= Decay(scores[q].score, d)
      BY <1>u, <3>2, <3>3, TrackerAssumption
    <3>6. Decay(Unit, scores[q].age) <= Decay(Unit, d)
      BY <1>u, <3>1, <3>3, DecaysOn
    <3>7. scores[q].age = latest[q]
      BY <2>3 DEF AgesAgree
    <3>8. /\ Decay(Unit, scores[q].age) \in Scores /\ Decay(Unit, d) \in Scores
          /\ Decay(scores[q].score, d) \in Scores
      BY <1>u, <3>1, <3>2, <3>3, DecayType
    <3> HIDE DEF d
    <3> QED
      BY <3>4, <3>5, <3>6, <3>7, <3>8, TrackerAssumption DEF Scores
  <2> HIDE DEF age
  <2> QED
    BY <2>2, <2>3 DEF AgesAgree
<1>4. CASE Tick
  <2>1. /\ Tracked' = Tracked
        /\ \A q \in Tracked : scores'[q].age = Older(scores[q].age)
        /\ \A q \in Queries : latest'[q] = Older(latest[q])
    BY <1>4 DEF Tick, Tracked, TypeOK
  <2>2. ASSUME NEW q \in Queries, Decay(Unit, latest[q]) < Threshold
        PROVE  Decay(Unit, Older(latest[q])) < Threshold
    <3>1. latest[q] \in Ages /\ Older(latest[q]) \in Ages /\ latest[q] <= Older(latest[q])
      BY TrackerAssumption DEF TypeOK, Older, Ages
    <3>2. Decay(Unit, Older(latest[q])) <= Decay(Unit, latest[q])
      BY <1>u, <3>1, DecaysOn
    <3>3. Decay(Unit, latest[q]) \in Scores /\ Decay(Unit, Older(latest[q])) \in Scores
      BY <1>u, <3>1, DecayType
    <3> QED
      BY <2>2, <3>2, <3>3, TrackerAssumption DEF Scores
  <2> QED
    BY <2>1, <2>2 DEF AgesAgree
<1>5. CASE UNCHANGED vars
  BY <1>5 DEF vars, AgesAgree, Tracked
<1>6. 0 \in 0..MaxLag
  BY TrackerAssumption
<1>7. ASSUME NEW t \in Threads, NEW q \in Queries, RecordReadsClock(t, q)
      PROVE  AgesAgree'
  <2>1. [op |-> "record", query |-> q, age |-> 0] \in Calls
    BY <1>6 DEF Calls
  <2> QED
    BY <1>1, <1>7, <2>1 DEF RecordReadsClock
<1>8. ASSUME NEW t \in Threads, TrendingReadsClock(t)
      PROVE  AgesAgree'
  <2>1. [op |-> "trending", age |-> 0] \in Calls
    BY <1>6 DEF Calls
  <2> QED
    BY <1>1, <1>8, <2>1 DEF TrendingReadsClock
<1> QED
  BY <1>2, <1>3, <1>4, <1>5, <1>7, <1>8 DEF Next, TakesLock

LEMMA AgesAgreeGivesLatest == TypeOK /\ AgesAgree => LatestSearchCounts
<1> SUFFICES ASSUME TypeOK, AgesAgree, NEW q \in Queries,
                    Decay(Unit, latest[q]) >= Threshold
             PROVE  q \in Tracked /\ Now(q) >= Decay(Unit, latest[q])
  BY DEF LatestSearchCounts
<1>1. Unit \in Scores /\ latest[q] \in Ages
  BY TrackerAssumption DEF Scores, TypeOK
<1>2. Decay(Unit, latest[q]) \in Scores
  BY <1>1, DecayType
<1>3. q \in Tracked /\ scores[q].age = latest[q]
  BY <1>2, TrackerAssumption DEF AgesAgree, Scores
<1>4. scores[q].score \in Scores /\ Unit <= scores[q].score
  BY <1>3, TrackerAssumption DEF TypeOK, Scores
<1>5. Now(q) = Decay(scores[q].score, latest[q])
  BY <1>1, <1>3, TrackerAssumption DEF Now, DecayedTo, Ages
<1>6. Decay(Unit, latest[q]) <= Decay(scores[q].score, latest[q])
  BY <1>1, <1>4, TrackerAssumption
<1>7. Decay(scores[q].score, latest[q]) \in Scores
  BY <1>1, <1>4, DecayType
<1> QED
  BY <1>2, <1>3, <1>5, <1>6, <1>7, TrackerAssumption DEF Scores

(* Whatever the order in which clock readings reach the lock, and whoever  *)
(* prunes in between, the search recorded last counts until it has faded.  *)
THEOREM LatestSearchNeverLost == Spec => []LatestSearchCounts
<1>1. Init => TypeOK /\ AgesAgree
  BY InitTypeOK, AgesAgreeInit
<1>2. TypeOK /\ AgesAgree /\ [Next]_vars => (TypeOK /\ AgesAgree)'
  BY StepTypeOK, AgesAgreeStep
<1> QED
  BY <1>1, <1>2, AgesAgreeGivesLatest, PTL DEF Spec

--------------------------------------------------------------------------------
(* Scores are never overstated.  A late reading can only take away: what   *)
(* an entry has left at its own age bounds what it has left at an older    *)
(* reading, and a search adds the same to both sides.                      *)

(* The score after a search, as of now, against the sum of the searches.   *)
LEMMA RaisedBounded ==
  ASSUME NEW d \in Scores, NEW e \in Scores, NEW age \in 0..MaxLag,
         Decay(d, age) <= e
  PROVE  Decay(Capped(d + Unit), age) <= Capped(e + Decay(Unit, age))
<1>1. age \in Ages /\ Unit \in Scores /\ MaxScore \in Scores
  BY TrackerAssumption DEF Ages, Scores
<1>2. Decay(Unit, age) \in Scores /\ Decay(d, age) \in Scores
  BY <1>1, DecayType
<1>3. CASE d + Unit <= MaxScore
  <2>1. d + Unit \in Scores /\ Capped(d + Unit) = d + Unit
    BY <1>1, <1>3, TrackerAssumption DEF Scores, Capped
  <2>2. Decay(d + Unit, age) = Decay(d, age) + Decay(Unit, age)
    BY <2>1, TrackerAssumption
  <2>3. Decay(d + Unit, age) \in Scores
    BY <1>1, <2>1, DecayType
  <2> QED
    BY <1>2, <2>1, <2>2, <2>3, TrackerAssumption DEF Capped, Scores
<1>4. CASE d + Unit > MaxScore
  <2>1. MaxScore - Unit \in Scores /\ MaxScore - Unit <= d
    BY <1>1, <1>4, TrackerAssumption DEF Scores
  <2>2. (MaxScore - Unit) + Unit = MaxScore /\ Capped(d + Unit) = MaxScore
    BY <1>4, TrackerAssumption DEF Capped
  <2>3. Decay(MaxScore, age) = Decay(MaxScore - Unit, age) + Decay(Unit, age)
    BY <1>1, <2>1, <2>2, TrackerAssumption
  <2>4. Decay(MaxScore - Unit, age) <= Decay(d, age)
    BY <1>1, <2>1, TrackerAssumption
  <2>5. Decay(MaxScore, age) \in Scores /\ Decay(MaxScore - Unit, age) \in Scores
    BY <1>1, <2>1, DecayType
  <2> QED
    BY <1>2, <2>2, <2>3, <2>4, <2>5, TrackerAssumption DEF Capped, Scores
<1> QED
  BY <1>1, <1>3, <1>4, TrackerAssumption DEF Scores

LEMMA NowDef ==
  ASSUME TypeOK, NEW q \in Queries, q \in Tracked
  PROVE  /\ scores[q].score \in Scores /\ scores[q].age \in Ages
         /\ Now(q) = Decay(scores[q].score, scores[q].age)
<1>1. scores[q].score \in Scores /\ scores[q].age \in Ages
  BY TrackerAssumption DEF TypeOK, Scores
<1> QED
  BY <1>1, TrackerAssumption DEF Now, DecayedTo, Ages

LEMMA RecordNotOverstated ==
  ASSUME TypeOK, TypeOK', NeverOverstated,
         NEW t \in Threads, NEW q \in Queries, Record(t, q)
  PROVE  NeverOverstated'
<1> DEFINE age == call[t].age
<1>1. age \in 0..MaxLag /\ age \in Ages
  BY CallType DEF Record, NoCall
<1>2. /\ Tracked' = Tracked \cup {q}
      /\ scores'[q] = [score |-> Raised(q, age), age |-> age]
      /\ exact'[q] = Capped(exact[q] + Decay(Unit, age))
      /\ \A r \in Queries \ {q} :
            exact'[r] = exact[r] /\ (r \in Tracked => scores'[r] = scores[r])
  BY DEF Record, Tracked, TypeOK
<1>3. Unit \in Scores /\ exact[q] \in Scores
  BY TrackerAssumption DEF TypeOK, Scores
<1>4. Decay(Raised(q, age), age) <= Capped(exact[q] + Decay(Unit, age))
  <2>1. CASE q \in Tracked
    <3> DEFINE a == scores[q].age
               s == scores[q].score
               d == Decay(s, IF a > age THEN a - age ELSE 0)
    <3>1. s \in Scores /\ a \in Ages /\ Now(q) = Decay(s, a)
      BY <2>1, NowDef
    <3>2. Raised(q, age) = Capped(d + Unit)
      BY <2>1 DEF Raised, DecayedTo
    <3>3. (IF a > age THEN a - age ELSE 0) \in Ages
      BY <1>1, <3>1, TrackerAssumption DEF Ages
    <3>4. d \in Scores
      BY <3>1, <3>3, DecayType
    <3>5. Decay(s, a) \in Scores /\ Decay(s, a) <= exact[q]
      BY <2>1, <3>1, DecayType DEF NeverOverstated
    <3>6. CASE a > age
      <4>1. a - age \in Ages /\ (a - age) + age = a /\ d = Decay(s, a - age)
        BY <1>1, <3>1, <3>6, TrackerAssumption DEF Ages
      <4>2. Decay(d, age) = Decay(s, a)
        BY <1>1, <3>1, <4>1, TrackerAssumption
      <4> QED
        BY <1>1, <1>3, <3>2, <3>4, <3>5, <4>2, RaisedBounded
    <3>7. CASE ~(a > age)
      <4>1. a <= age /\ d = s
        BY <1>1, <3>1, <3>7, TrackerAssumption DEF Ages
      <4>2. Decay(s, age) <= Decay(s, a) /\ Decay(s, age) \in Scores
        BY <1>1, <3>1, <4>1, DecaysOn, DecayType
      <4>3. Decay(d, age) <= exact[q]
        BY <1>3, <3>5, <4>1, <4>2, TrackerAssumption DEF Scores
      <4> QED
        BY <1>1, <1>3, <3>2, <3>4, <4>3, RaisedBounded
    <3> QED
      BY <3>6, <3>7
  <2>2. CASE q \notin Tracked
    <3>1. Raised(q, age) = Unit
      BY <2>2 DEF Raised
    <3>2. Decay(Unit, age) \in Scores
      BY <1>1, <1>3, DecayType
    <3> QED
      BY <1>3, <3>1, <3>2, TrackerAssumption DEF Capped, Scores
  <2> QED
    BY <2>1, <2>2
<1>5. Now(q)' <= exact'[q]
  <2>1. Now(q)' = Decay(Raised(q, age), age)
    BY <1>1, <1>2, TrackerAssumption DEF Now, DecayedTo, Ages
  <2> QED
    BY <1>2, <1>4, <2>1
<1>6. \A r \in Queries \ {q} : r \in Tracked => Now(r)' = Now(r)
  BY <1>2 DEF Now, DecayedTo
<1> HIDE DEF age
<1> QED
  BY <1>2, <1>5, <1>6 DEF NeverOverstated, TypeOK

LEMMA TickNotOverstated ==
  ASSUME TypeOK, TypeOK', NeverOverstated, Tick
  PROVE  NeverOverstated'
<1> SUFFICES ASSUME NEW q \in Queries, q \in Tracked
             PROVE  Now(q)' <= Decay(exact[q], 1)
  BY DEF NeverOverstated, Tick, Tracked, TypeOK
<1> DEFINE s == scores[q].score
           a == scores[q].age
<1>1. s \in Scores /\ a \in Ages /\ Now(q) = Decay(s, a)
  BY NowDef
<1>2. scores'[q] = [scores[q] EXCEPT !.age = Older(a)]
  BY DEF Tick
<1>3. Older(a) \in Ages /\ scores'[q].score = s /\ scores'[q].age = Older(a)
  <2>1. Older(a) \in Ages
    BY <1>1, TrackerAssumption DEF Older, Ages
  <2>2. scores[q] \in [score : Unit..MaxScore, age : Ages]
    BY DEF TypeOK
  <2> QED
    BY <1>2, <2>1, <2>2
<1>4. Now(q)' = Decay(s, Older(a))
  BY <1>3, TrackerAssumption DEF Now, DecayedTo, Ages
<1>5. 1 \in Ages /\ exact[q] \in Scores
  BY TrackerAssumption DEF Ages, TypeOK
<1>6. Decay(exact[q], 1) \in Scores
  BY <1>5, DecayType
<1>7. CASE a = MaxAge
  <2>1. MaxAge >= MaxAge - MaxLag /\ MaxAge \in Ages
    BY TrackerAssumption DEF Ages
  <2>2. Now(q)' = 0
    BY <1>1, <1>4, <1>7, <2>1, TrackerAssumption DEF Older
  <2> QED
    BY <1>6, <2>2, TrackerAssumption DEF Scores
<1>8. CASE a # MaxAge
  <2>1. Older(a) = a + 1 /\ a + 1 \in Ages
    BY <1>3, <1>8 DEF Older
  <2>2. Decay(Decay(s, a), 1) = Decay(s, a + 1)
    BY <1>1, <1>5, <2>1, TrackerAssumption
  <2>3. Decay(s, a) \in Scores /\ Decay(s, a) <= exact[q]
    BY <1>1, DecayType DEF NeverOverstated
  <2>4. Decay(Decay(s, a), 1) <= Decay(exact[q], 1)
    BY <1>5, <2>3, TrackerAssumption
  <2> QED
    BY <1>4, <2>1, <2>2, <2>4
<1> QED
  BY <1>7, <1>8

(* No order in which clock readings reach the lock makes a query look more *)
(* trending than the decayed sum of its searches.                          *)
THEOREM ScoresNotOverstated == Spec => []NeverOverstated
<1>1. Init => TypeOK /\ NeverOverstated
  <2>1. Init => NeverOverstated
    <3>1. Init => Tracked = {}
      BY DEF Init, Tracked
    <3> QED
      BY <3>1 DEF NeverOverstated
  <2> QED
    BY <2>1, InitTypeOK
<1>2. TypeOK /\ NeverOverstated /\ [Next]_vars => (TypeOK /\ NeverOverstated)'
  <2> SUFFICES ASSUME TypeOK, NeverOverstated, [Next]_vars, TypeOK'
               PROVE  NeverOverstated'
    BY StepTypeOK
  <2>1. ASSUME scores' = scores, exact' = exact PROVE NeverOverstated'
    BY <2>1 DEF NeverOverstated, Now, DecayedTo, Tracked
  <2>2. ASSUME NEW t \in Threads, NEW c, Waits(t, c) PROVE NeverOverstated'
    BY <2>1, <2>2 DEF Waits
  <2>3. ASSUME NEW t \in Threads, NEW q \in Queries, Record(t, q) PROVE NeverOverstated'
    BY <2>3, RecordNotOverstated
  <2>4. ASSUME NEW t \in Threads, Trending(t) PROVE NeverOverstated'
    BY <2>4 DEF Trending, NeverOverstated, Now, DecayedTo, Tracked, Kept
  <2>5. CASE Tick
    BY <2>5, TickNotOverstated
  <2>6. CASE UNCHANGED vars
    BY <2>1, <2>6 DEF vars
  <2>7. ASSUME NEW t \in Threads, NEW q \in Queries, RecordReadsClock(t, q)
        PROVE  NeverOverstated'
    BY <2>2, <2>7 DEF RecordReadsClock
  <2>8. ASSUME NEW t \in Threads, TrendingReadsClock(t) PROVE NeverOverstated'
    BY <2>2, <2>8 DEF TrendingReadsClock
  <2> QED
    BY <2>3, <2>4, <2>5, <2>6, <2>7, <2>8 DEF Next, TakesLock
<1> QED
  BY <1>1, <1>2, PTL DEF Spec

--------------------------------------------------------------------------------
(* Only a search changes the order of two queries.                         *)

(* A tick takes from every score in the same proportion. *)
LEMMA NowAfterTick ==
  ASSUME TypeOK, TypeOK', Tick, NEW q \in Queries, q \in Tracked
  PROVE  Now(q) \in Scores /\ Now(q)' = Decay(Now(q), 1)
<1> DEFINE s == scores[q].score
           a == scores[q].age
<1>1. s \in Scores /\ a \in Ages /\ Now(q) = Decay(s, a)
  BY NowDef
<1>2. Older(a) \in Ages
  BY <1>1, TrackerAssumption DEF Older, Ages
<1>3. scores'[q].score = s /\ scores'[q].age = Older(a)
  <2>1. scores[q] \in [score : Unit..MaxScore, age : Ages]
    BY DEF TypeOK
  <2> QED
    BY <2>1 DEF Tick
<1>4. Now(q)' = Decay(s, Older(a))
  BY <1>2, <1>3, TrackerAssumption DEF Now, DecayedTo, Ages
<1>5. 1 \in Ages /\ 0 \in Scores /\ Now(q) \in Scores
  BY <1>1, DecayType, TrackerAssumption DEF Ages, Scores
<1>6. CASE a = MaxAge
  <2>1. MaxAge >= MaxAge - MaxLag /\ MaxAge \in Ages
    BY TrackerAssumption DEF Ages
  <2>2. Now(q) = 0 /\ Now(q)' = 0
    BY <1>1, <1>4, <1>6, <2>1, TrackerAssumption DEF Older
  <2>3. Decay(0, 1) \in 0..0
    BY <1>5, TrackerAssumption
  <2> QED
    BY <1>5, <2>2, <2>3
<1>7. CASE a # MaxAge
  <2>1. Older(a) = a + 1 /\ a + 1 \in Ages
    BY <1>2, <1>7 DEF Older
  <2> QED
    BY <1>1, <1>4, <1>5, <2>1, TrackerAssumption
<1> QED
  BY <1>6, <1>7

(* A search whose reading is not behind its entry never lowers the score. *)
LEMMA RecordRaises ==
  ASSUME TypeOK, NEW t \in Threads, NEW q \in Queries, Record(t, q),
         q \in Tracked, ~(call[t].age > scores[q].age)
  PROVE  Now(q) <= Now(q)'
<1> DEFINE age == call[t].age
           s == scores[q].score
           a == scores[q].age
           d == DecayedTo(scores[q], age)
<1>1. age \in 0..MaxLag /\ age \in Ages
  BY CallType DEF Record, NoCall
<1>2. s \in Scores /\ a \in Ages /\ Now(q) = Decay(s, a)
  BY NowDef
<1>3. age <= a /\ a - age \in Ages /\ (a - age) + age = a
  BY <1>1, <1>2, TrackerAssumption DEF Ages
<1>4. d = Decay(s, a - age)
  BY <1>1, <1>2, <1>3, TrackerAssumption DEF DecayedTo, Ages
<1>5. d \in Scores
  BY <1>2, <1>3, <1>4, DecayType
<1>6. Decay(d, age) = Now(q)
  BY <1>1, <1>2, <1>3, <1>4, TrackerAssumption
<1>7. Raised(q, age) = Capped(d + Unit)
  BY DEF Raised
<1>8. Raised(q, age) \in Scores /\ d <= Raised(q, age)
  BY <1>5, <1>7, TrackerAssumption DEF Capped, Scores
<1>9. Now(q)' = Decay(Raised(q, age), age)
  <2>1. scores'[q] = [score |-> Raised(q, age), age |-> age]
    BY DEF Record, Tracked
  <2> QED
    BY <1>1, <2>1, TrackerAssumption DEF Now, DecayedTo, Ages
<1> HIDE DEF d, age
<1>10. Decay(d, age) <= Decay(Raised(q, age), age)
  BY <1>1, <1>5, <1>8, TrackerAssumption
<1> QED
  BY <1>6, <1>9, <1>10

(* Between two searches for either of them, and unless one's reading came  *)
(* late, two queries keep their order, whatever ticks and prunes.          *)
THEOREM OnlySearchesOvertake == Spec => OvertakenOnlyBySearch
<1> DEFINE Keeps ==
      \A q, r \in Tracked \cap Tracked' :
        Now(q) >= Now(r) /\ Now(q)' < Now(r)' => Recorded(r) \/ RecordedLate(q)
<1>1. TypeOK /\ TypeOK' /\ [Next]_vars => [Keeps]_vars
  <2> SUFFICES ASSUME TypeOK, TypeOK', Next,
                      NEW q \in Tracked, NEW r \in Tracked, q \in Tracked', r \in Tracked',
                      Now(q) >= Now(r), Now(q)' < Now(r)'
               PROVE  Recorded(r) \/ RecordedLate(q)
    OBVIOUS
  <2>1. q \in Queries /\ r \in Queries
    BY DEF TypeOK
  <2>2. Now(q) \in Int /\ Now(r) \in Int /\ Now(q)' \in Int /\ Now(r)' \in Int
    <3>1. \A x \in {q, r} : Now(x) \in Scores
      BY <2>1, NowDef, DecayType
    <3>2. \A x \in {q, r} : Now(x)' \in Scores
      <4> SUFFICES ASSUME NEW x \in {q, r} PROVE Now(x)' \in Scores
        OBVIOUS
      <4>1. scores'[x] \in [score : Unit..MaxScore, age : Ages]
        BY DEF TypeOK
      <4>2. 0 \in Ages
        BY TrackerAssumption DEF Ages
      <4>3. DecayedTo(scores'[x], 0) \in Scores
        BY <4>1, <4>2, DecayedToType
      <4> QED
        BY <4>3 DEF Now
    <3> QED
      BY <3>1, <3>2, TrackerAssumption DEF Scores
  <2>3. ASSUME Now(q)' = Now(q), Now(r)' = Now(r) PROVE FALSE
    BY <2>2, <2>3
  <2>4. ASSUME NEW t \in Threads, NEW c, Waits(t, c) PROVE FALSE
    BY <2>3, <2>4 DEF Waits, Now, DecayedTo
  <2>5. ASSUME NEW t \in Threads, Trending(t) PROVE FALSE
    BY <2>3, <2>5 DEF Trending, Now, DecayedTo, Tracked, Kept
  <2>6. ASSUME NEW t \in Threads, NEW x \in Queries, Record(t, x)
        PROVE  Recorded(r) \/ RecordedLate(q)
    <3>1. call[t].op = "record" /\ call[t].query = x /\ call'[t] = NoCall
      BY <2>6 DEF Record, TypeOK
    <3>2. CASE x = r
      BY <3>1, <3>2 DEF Recorded
    <3>3. CASE x # r
      <4>1. Now(r)' = Now(r)
        BY <2>6, <3>3 DEF Record, Now, DecayedTo, Tracked
      <4>2. CASE x # q
        <5>1. Now(q)' = Now(q)
          BY <2>6, <4>2 DEF Record, Now, DecayedTo, Tracked
        <5> QED
          BY <2>3, <4>1, <5>1
      <4>3. CASE x = q /\ call[t].age > scores[q].age
        BY <3>1, <4>3 DEF RecordedLate
      <4>4. CASE x = q /\ ~(call[t].age > scores[q].age)
        <5>1. Now(q) <= Now(q)'
          BY <2>1, <2>6, <4>4, RecordRaises
        <5> QED
          BY <2>2, <4>1, <5>1
      <4> QED
        BY <4>2, <4>3, <4>4
    <3> QED
      BY <3>2, <3>3
  <2>7. CASE Tick
    <3>1. /\ Now(q) \in Scores /\ Now(q)' = Decay(Now(q), 1)
          /\ Now(r) \in Scores /\ Now(r)' = Decay(Now(r), 1)
      BY <2>1, <2>7, NowAfterTick
    <3>2. 1 \in Ages /\ Now(r) <= Now(q)
      BY <2>2, TrackerAssumption DEF Ages
    <3>3. Decay(Now(r), 1) <= Decay(Now(q), 1)
      BY <3>1, <3>2, TrackerAssumption
    <3> QED
      BY <2>2, <3>1, <3>3
  <2>8. ASSUME NEW t \in Threads, NEW x \in Queries, RecordReadsClock(t, x) PROVE FALSE
    BY <2>4, <2>8 DEF RecordReadsClock
  <2>9. ASSUME NEW t \in Threads, TrendingReadsClock(t) PROVE FALSE
    BY <2>4, <2>9 DEF TrendingReadsClock
  <2> QED
    BY <2>5, <2>6, <2>7, <2>8, <2>9 DEF Next, TakesLock
<1> QED
  BY <1>1, TypeCorrect, PTL DEF Spec, OvertakenOnlyBySearch
================================================================================
