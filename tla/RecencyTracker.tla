----------------------------- MODULE RecencyTracker -----------------------------
(***************************************************************************)
(* class RecencyTracker of app/ranking.py: for each query a score that     *)
(* every search raises and that halves with every half-life, kept as the   *)
(* score at the last update and the time of it, and decayed when it is     *)
(* read.                                                                   *)
(*                                                                         *)
(* A caller reads the clock before it waits for the lock, so the readings  *)
(* reach the lock in any order.  Time is relative: a timestamp is          *)
(* represented by its age, which a tick of the clock raises, so that       *)
(* nothing grows for ever.                                                 *)
(***************************************************************************)
EXTENDS Integers

CONSTANTS
  Queries,      \* normalized queries
  Threads,      \* request threads
  Unit,         \* what a search adds to a score: 1.0, in the units of scores
  Threshold,    \* prune_threshold, in the same units
  Decay(_, _),  \* score, time |-> what is left of the score after that time
  MaxScore,     \* bound of the model: scores above it are not told apart
  MaxAge,       \* bound of the model: ages above it are not told apart
  MaxLag        \* bound of the model: time from a clock reading to the lock

Scores == 0..MaxScore
Ages == 0..MaxAge

(* Decay forgets in proportion, as exp(-lambda * dt) does: nothing in no   *)
(* time, the more the longer, the same in one stretch as in two.  What     *)
(* came in together fades together, and what has the greatest age has      *)
(* faded also at the time of any clock reading.                            *)
ASSUME TrackerAssumption ==
  /\ MaxScore \in Nat /\ MaxAge \in Nat \ {0} /\ MaxLag \in 0..MaxAge
  /\ Unit \in 1..MaxScore /\ Threshold \in 1..Unit
  /\ \A s \in Scores, d \in Ages : Decay(s, d) \in 0..s
  /\ \A s \in Scores : Decay(s, 0) = s
  /\ \A s \in Scores, d \in Ages : d >= MaxAge - MaxLag => Decay(s, d) = 0
  /\ \A s, t \in Scores, d \in Ages : s <= t => Decay(s, d) <= Decay(t, d)
  /\ \A s \in Scores, d, e \in Ages :
       d + e \in Ages => Decay(Decay(s, d), e) = Decay(s, d + e)
  /\ \A s \in Scores, d \in 0..MaxLag :
       s + Unit \in Scores => Decay(s + Unit, d) = Decay(s, d) + Decay(Unit, d)

VARIABLES
  scores,   \* _scores: tracked query -> score and age of last_ts
  call,     \* thread -> the call it is in and the age of its clock reading
  exact,    \* history: query -> what all its searches add up to now
  latest    \* history: query -> age of the reading of the search recorded last

vars == <<scores, call, exact, latest>>

NoCall == [op |-> "none"]
Calls == {NoCall} \cup [op : {"record"}, query : Queries, age : 0..MaxLag]
                  \cup [op : {"trending"}, age : 0..MaxLag]
Tracked == DOMAIN scores

TypeOK ==
  /\ Tracked \subseteq Queries
  /\ scores \in [Tracked -> [score : Unit..MaxScore, age : Ages]]
  /\ call \in [Threads -> Calls]
  /\ exact \in [Queries -> Scores]
  /\ latest \in [Queries -> Ages]

Init ==
  /\ scores = <<>>
  /\ call = [t \in Threads |-> NoCall]
  /\ exact = [q \in Queries |-> 0]
  /\ latest = [q \in Queries |-> MaxAge]

--------------------------------------------------------------------------------
(* _decay() of an entry to a clock reading; not at all to an earlier one.  *)
DecayedTo(entry, age) ==
  Decay(entry.score, IF entry.age > age THEN entry.age - age ELSE 0)

Capped(score) == IF score > MaxScore THEN MaxScore ELSE score
Older(age) == IF age = MaxAge THEN MaxAge ELSE age + 1

(* current() and current_many(): the score at this moment. *)
Now(q) == DecayedTo(scores[q], 0)

(* Plausible bugs: faulty variants of the definitions below, used by the   *)
(* mutation runs only.                                                     *)

(* A search added to the score as it was at the last update. *)
RaisedUndecayed(q, age) ==
  IF q \in Tracked THEN Capped(scores[q].score + Unit) ELSE Unit

(* An entry at the threshold counts as faded, or none ever does. *)
FadedAtThreshold(q, age) == DecayedTo(scores[q], age) <= Threshold
FadedNever(q, age) == FALSE

(* trending() that stores the scores it has computed, or the time.         *)
KeptDecayed(q, age) == [score |-> DecayedTo(scores[q], age), age |-> age]
KeptTouched(q, age) == [score |-> scores[q].score, age |-> age]

--------------------------------------------------------------------------------
(* A call: the clock is read, then the lock is taken.                      *)

Waits(t, c) ==
  /\ call[t] = NoCall
  /\ call' = [call EXCEPT ![t] = c]
  /\ UNCHANGED <<scores, exact, latest>>

RecordReadsClock(t, q) == Waits(t, [op |-> "record", query |-> q, age |-> 0])
TrendingReadsClock(t) == Waits(t, [op |-> "trending", age |-> 0])

(* record() of a query that is new or decayed to the clock reading. *)
Raised(q, age) ==
  IF q \in Tracked THEN Capped(DecayedTo(scores[q], age) + Unit) ELSE Unit

Record(t, q) ==
  /\ call[t].op = "record" /\ call[t].query = q
  /\ scores' = [r \in Tracked \cup {q} |->
                  IF r = q THEN [score |-> Raised(q, call[t].age), age |-> call[t].age]
                  ELSE scores[r]]
  /\ exact' = [exact EXCEPT ![q] = Capped(@ + Decay(Unit, call[t].age))]
  /\ latest' = [latest EXCEPT ![q] = call[t].age]
  /\ call' = [call EXCEPT ![t] = NoCall]

(* trending(): entries that have faded are deleted.  The rest, sorted and  *)
(* cut to k, is the answer.                                                *)
Faded(q, age) == DecayedTo(scores[q], age) < Threshold
Kept(q, age) == scores[q]

Trending(t) ==
  /\ call[t].op = "trending"
  /\ scores' = [q \in {r \in Tracked : ~Faded(r, call[t].age)} |-> Kept(q, call[t].age)]
  /\ call' = [call EXCEPT ![t] = NoCall]
  /\ UNCHANGED <<exact, latest>>

(* Time passes. *)
Tick ==
  /\ \A t \in Threads : call[t] # NoCall => call[t].age < MaxLag
  /\ scores' = [q \in Tracked |-> [scores[q] EXCEPT !.age = Older(@)]]
  /\ call' = [t \in Threads |-> IF call[t] = NoCall THEN NoCall
                                ELSE [call[t] EXCEPT !.age = @ + 1]]
  /\ exact' = [q \in Queries |-> Decay(exact[q], 1)]
  /\ latest' = [q \in Queries |-> Older(latest[q])]

--------------------------------------------------------------------------------

TakesLock(t) == Trending(t) \/ \E q \in Queries : Record(t, q)

Next ==
  \/ \E t \in Threads, q \in Queries : RecordReadsClock(t, q)
  \/ \E t \in Threads : TrendingReadsClock(t) \/ TakesLock(t)
  \/ Tick

Spec == Init /\ [][Next]_vars

(* Time passes, and a thread that waits for the lock gets it: its holders  *)
(* only compute.  Nobody has to search or to look at the trends.           *)
FairSpec == Spec /\ WF_vars(Tick) /\ \A t \in Threads : WF_vars(TakesLock(t))

--------------------------------------------------------------------------------
(* Properties.                                                             *)

(* However late a clock reading gets to the lock, a score is never more    *)
(* than the decayed sum of the query's searches: no order of readings      *)
(* makes a query more trending than it is.  (It can make it less: a late   *)
(* reading takes last_ts back, and what came since is decayed too much.)   *)
NeverOverstated == \A q \in Tracked : Now(q) <= exact[q]

(* The search recorded last is never lost, to an older clock reading of    *)
(* its own or to a trending() of any reading: until it has faded itself    *)
(* its query is tracked with what is left of it at least.                  *)
LatestSearchCounts ==
  \A q \in Queries :
    LET left == Decay(Unit, latest[q])
    IN  left >= Threshold => q \in Tracked /\ Now(q) >= left

(* All scores decay alike, so a query is overtaken only by a search: one   *)
(* for the other query, or one for it whose reading came late.             *)
Recorded(q) == \E t \in Threads : call[t].op = "record" /\ call[t].query = q /\ call'[t] = NoCall
RecordedLate(q) ==
  \E t \in Threads : call[t].op = "record" /\ call[t].query = q /\ call'[t] = NoCall
                     /\ call[t].age > scores[q].age
OvertakenOnlyBySearch ==
  [][\A q, r \in Tracked \cap Tracked' :
       Now(q) >= Now(r) /\ Now(q)' < Now(r)' => Recorded(r) \/ RecordedLate(q)]_vars

(* "a query that was hot for a minute decays back to nothing": each query  *)
(* is searched for again and again or it is forgotten, provided a page is  *)
(* open that asks for the trends: only trending() prunes.                  *)
PageOpen == SF_vars(\E t \in Threads : TrendingReadsClock(t))
SpikesAreForgotten ==
  PageOpen =>
    \A q \in Queries :
      []<>(q \notin Tracked) \/ []<><<\E t \in Threads : Record(t, q)>>_vars
================================================================================
