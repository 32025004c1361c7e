---------------------------- MODULE SearchUIProofs ----------------------------
(***************************************************************************)
(* Theorems about the search box, for every set of texts, every answer of  *)
(* the service and every number of requests.                               *)
(***************************************************************************)
EXTENDS SearchUI, TLAPS

Flags == /\ recency \in BOOLEAN /\ hidden \in BOOLEAN
         /\ spinner \in BOOLEAN /\ left \in BOOLEAN
Data ==
  /\ value \in Texts \cup {Blank} /\ timer \in Texts \cup {Blank}
  /\ seq \in 0..MaxFetches /\ failed \in 0..MaxFetches
  /\ inflight \subseteq Request /\ shown \in Request \cup {NoRequest}
  /\ items \in Seq(Texts)
  /\ active \in Int /\ active >= -1
Bounded == active >= 0 => active < Len(items)

LEMMA FlagsInvariant == Spec => []Flags
<1>1. Init => Flags
  BY Zenon DEF Init, Flags
<1>2. Flags /\ [Next]_vars => Flags'
  <2> SUFFICES ASSUME Flags, [Next]_vars PROVE Flags'
    OBVIOUS
  <2> USE DEF Flags, fetchVars, listVars, Closes, Fetches, Selects, SubmitSearch, ClosesOnly
  <2>1. ASSUME NEW text \in Texts, OnInput(text) \/ ClickChip(text) PROVE Flags'
    BY <2>1 DEF OnInput, ClickChip
  <2>2. CASE OnInputBlank \/ Escape \/ ClickOutside \/ Focus
    BY <2>2 DEF OnInputBlank, Escape, ClickOutside, Focus
  <2>3. CASE DebounceFires \/ ArrowDownFetches
    BY <2>3 DEF DebounceFires, ArrowDownFetches
  <2>4. ASSUME NEW mode \in BOOLEAN, SetMode(mode) PROVE Flags'
    BY <2>4 DEF SetMode
  <2>5. CASE ArrowDown \/ ArrowUp \/ EnterSelected \/ SubmitForm
    BY <2>5 DEF ArrowDown, ArrowUp, EnterSelected, SubmitForm
  <2>6. ASSUME NEW i \in 0..Len(items), Hover(i) \/ ClickItem(i) PROVE Flags'
    BY <2>6 DEF Hover, ClickItem
  <2>7. ASSUME NEW r \in inflight, AnswerArrives(r) PROVE Flags'
    BY <2>7 DEF AnswerArrives, Renders, SpinnerAfter
  <2>8. ASSUME NEW r \in inflight, AnswerFails(r) PROVE Flags'
    BY <2>8 DEF AnswerFails, SpinnerAfter
  <2>9. CASE UNCHANGED vars
    BY <2>9 DEF vars
  <2>10. QED
    BY <2>1, <2>2, <2>3, <2>4, <2>5, <2>6, <2>7, <2>8, <2>9 DEF Next, User, Settles
<1>3. QED
  BY <1>1, <1>2, PTL DEF Spec

LEMMA ConstantFacts == Blank \notin Texts /\ MaxFetches \in Nat \ {0}
BY SearchUIAssumption

(* What fetchSuggestions() does before its await. *)
LEMMA FetchesTyped ==
  ASSUME Data, NEW text \in Texts, NEW mode \in BOOLEAN, Fetches(text, mode)
  PROVE  seq' \in 0..MaxFetches /\ inflight' \subseteq Request
<1>1. seq + 1 \in 1..MaxFetches
  BY ConstantFacts DEF Data, Fetches
<1>2. [token |-> seq + 1, prefix |-> text, recency |-> mode] \in Request
  BY <1>1 DEF Request
<1>3. QED
  BY <1>1, <1>2 DEF Data, Fetches

LEMMA DataInvariant == Spec => [](Data /\ Bounded)
<1>1. Init => Data /\ Bounded
  <2> SUFFICES ASSUME Init PROVE Data /\ Bounded
    OBVIOUS
  <2>1. seq \in 0..MaxFetches /\ failed \in 0..MaxFetches
    BY ConstantFacts DEF Init
  <2>2. inflight \subseteq Request
    <3>1. ASSUME value \in Texts
          PROVE  [token |-> 1, prefix |-> value, recency |-> TRUE] \in Request
      BY <3>1, ConstantFacts DEF Request
    <3>2. QED
      BY <3>1 DEF Init
  <2>3. QED
    BY <2>1, <2>2 DEF Init, Data, Bounded
<1>2. Data /\ Bounded /\ Flags /\ [Next]_vars => (Data /\ Bounded)'
  <2> SUFFICES ASSUME Data, Bounded, Flags, [Next]_vars PROVE (Data /\ Bounded)'
    OBVIOUS
  <2> USE DEF Data, Bounded, fetchVars, listVars, Closes, Selects, SubmitSearch, ClosesOnly
  <2>1. ASSUME NEW text \in Texts, OnInput(text) \/ ClickChip(text) PROVE (Data /\ Bounded)'
    BY <2>1 DEF OnInput, ClickChip
  <2>2. CASE OnInputBlank \/ Escape \/ ClickOutside \/ Focus
    BY <2>2 DEF OnInputBlank, Escape, ClickOutside, Focus
  <2>3. CASE DebounceFires
    <3>1. seq' \in 0..MaxFetches /\ inflight' \subseteq Request
      BY <2>3, FetchesTyped DEF DebounceFires, Flags
    <3>2. QED
      BY <2>3, <3>1 DEF DebounceFires
  <2>4. CASE ArrowDownFetches
    <3>1. seq' \in 0..MaxFetches /\ inflight' \subseteq Request
      BY <2>4, FetchesTyped DEF ArrowDownFetches, Flags
    <3>2. QED
      BY <2>4, <3>1 DEF ArrowDownFetches
  <2>5. ASSUME NEW mode \in BOOLEAN, SetMode(mode) PROVE (Data /\ Bounded)'
    <3>1. seq' \in 0..MaxFetches /\ inflight' \subseteq Request
      BY <2>5, FetchesTyped DEF SetMode
    <3>2. QED
      BY <2>5, <3>1 DEF SetMode
  <2>6. CASE ArrowDown \/ ArrowUp
    <3>1. Len(items) \in Nat \ {0}
      BY <2>6 DEF ArrowDown, ArrowUp, Navigable
    <3>2. /\ Below(active, Len(items)) \in 0..(Len(items) - 1)
          /\ Above(active, Len(items)) \in 0..(Len(items) - 1)
      BY <3>1 DEF Below, Above
    <3>3. active' \in 0..(Len(items) - 1)
      BY <2>6, <3>2 DEF ArrowDown, ArrowUp
    <3>4. QED
      BY <2>6, <3>1, <3>3 DEF ArrowDown, ArrowUp
  <2>7. ASSUME NEW i \in 0..Len(items), Hover(i) \/ ClickItem(i) PROVE (Data /\ Bounded)'
    BY <2>7 DEF Hover, ClickItem
  <2>8. CASE EnterSelected \/ SubmitForm
    <3>1. EnterSelected => items[active + 1] \in Texts
      BY DEF EnterSelected, Navigable
    <3>2. QED
      BY <2>8, <3>1 DEF EnterSelected, SubmitForm
  <2>9. ASSUME NEW r \in inflight, AnswerArrives(r) PROVE (Data /\ Bounded)'
    <3>1. Answer[r.recency][r.prefix] \in Seq(Texts)
      BY SearchUIAssumption DEF Request
    <3>2. items' \in Seq(Texts) /\ shown' \in Request \cup {NoRequest}
      BY <2>9, <3>1 DEF AnswerArrives, Renders
    <3>3. QED
      BY <2>9, <3>2 DEF AnswerArrives, Renders
  <2>10. ASSUME NEW r \in inflight, AnswerFails(r) PROVE (Data /\ Bounded)'
    BY <2>10 DEF AnswerFails
  <2>11. CASE UNCHANGED vars
    BY <2>11 DEF vars
  <2>12. QED
    BY <2>1, <2>2, <2>3, <2>4, <2>5, <2>6, <2>7, <2>8, <2>9, <2>10, <2>11
       DEF Next, User, Settles
<1>3. QED
  BY <1>1, <1>2, FlagsInvariant, PTL DEF Spec

(* Every variable of the page's search box keeps its type. *)
THEOREM TypeCorrect == Spec => []TypeOK
<1>1. Flags /\ Data => TypeOK
  BY DEF Flags, Data, TypeOK
<1>2. QED
  BY <1>1, FlagsInvariant, DataInvariant, PTL

--------------------------------------------------------------------------------
(* The selection. *)

Visible == active # -1 => hidden = FALSE

(* Enter never submits what is not on screen: the selection is an item of  *)
(* the open list.                                                          *)
THEOREM SelectionShown == Spec => []EnterPicksAShownItem
<1>1. Init => Visible
  BY DEF Init, Visible
<1>2. Visible /\ Flags /\ [Next]_vars => Visible'
  <2> SUFFICES ASSUME Visible, Flags, [Next]_vars PROVE Visible'
    OBVIOUS
  <2> USE DEF Visible, Flags, Closes, Selects, SubmitSearch, ClosesOnly
  <2>1. ASSUME NEW text \in Texts, OnInput(text) \/ ClickChip(text) PROVE Visible'
    BY <2>1 DEF OnInput, ClickChip
  <2>2. CASE OnInputBlank \/ Escape \/ ClickOutside \/ Focus
    BY <2>2 DEF OnInputBlank, Escape, ClickOutside, Focus
  <2>3. CASE DebounceFires \/ ArrowDownFetches
    BY <2>3 DEF DebounceFires, ArrowDownFetches
  <2>4. ASSUME NEW mode \in BOOLEAN, SetMode(mode) PROVE Visible'
    BY <2>4 DEF SetMode
  <2>5. CASE ArrowDown \/ ArrowUp
    BY <2>5 DEF ArrowDown, ArrowUp, Navigable
  <2>6. CASE EnterSelected \/ SubmitForm
    BY <2>6 DEF EnterSelected, SubmitForm
  <2>7. ASSUME NEW i \in 0..Len(items), Hover(i) \/ ClickItem(i) PROVE Visible'
    BY <2>7 DEF Hover, ClickItem, Navigable
  <2>8. ASSUME NEW r \in inflight, AnswerArrives(r) \/ AnswerFails(r) PROVE Visible'
    BY <2>8 DEF AnswerArrives, AnswerFails, Renders
  <2>9. CASE UNCHANGED vars
    BY <2>9 DEF vars
  <2>10. QED
    BY <2>1, <2>2, <2>3, <2>4, <2>5, <2>6, <2>7, <2>8, <2>9 DEF Next, User, Settles
<1>3. Visible /\ Data /\ Bounded => EnterPicksAShownItem
  BY DEF Visible, Data, Bounded, EnterPicksAShownItem
<1>4. QED
  BY <1>1, <1>2, <1>3, FlagsInvariant, DataInvariant, PTL DEF Spec

--------------------------------------------------------------------------------
(* The request token. *)

(* Every request in flight has a token of its own, none newer than seq. *)
TokensUnique ==
  /\ \A r \in inflight : r.token <= seq
  /\ \A r, s \in inflight : r.token = s.token => r = s
Spinning == spinner = TRUE <=> NewestInFlight
Tokens == TokensUnique /\ Spinning /\ NewestAnswerStands

(* What fetchSuggestions() does before its await: the new request becomes  *)
(* the newest.                                                             *)
LEMMA FetchesNewest ==
  ASSUME Data, Tokens, NEW text \in Texts, NEW mode \in BOOLEAN, Fetches(text, mode)
  PROVE  Tokens'
<1> DEFINE new == [token |-> seq + 1, prefix |-> text, recency |-> mode]
<1>1. seq \in Nat /\ \A r \in inflight : r.token \in Nat
  BY ConstantFacts DEF Data, Request
<1>2. seq' = seq + 1 /\ inflight' = inflight \cup {new} /\ spinner' = TRUE
  BY DEF Fetches
<1>3. new.token = seq + 1
  OBVIOUS
<1> HIDE DEF new
<1>4. TokensUnique'
  BY <1>1, <1>2, <1>3 DEF Tokens, TokensUnique
<1>5. NewestInFlight'
  BY <1>2, <1>3 DEF NewestInFlight
<1>6. QED
  BY <1>2, <1>4, <1>5 DEF Tokens, Spinning, NewestAnswerStands

(* An answer, or none, takes one request out of flight. *)
LEMMA SettlesTokens ==
  ASSUME Data, Tokens, NEW r \in inflight, AnswerArrives(r) \/ AnswerFails(r)
  PROVE  Tokens'
<1>1. inflight' = inflight \ {r} /\ seq' = seq /\ spinner' = SpinnerAfter(r)
  BY DEF AnswerArrives, AnswerFails
<1>2. TokensUnique'
  BY <1>1 DEF Tokens, TokensUnique
<1>3. CASE r.token = seq
  <2>1. ~NewestInFlight'
    BY <1>1, <1>3 DEF Tokens, TokensUnique, NewestInFlight
  <2>2. spinner' = FALSE
    BY <1>1, <1>3 DEF SpinnerAfter
  <2>3. shown'.token = seq' \/ failed' = seq'
    BY <1>1, <1>3 DEF AnswerArrives, AnswerFails, Renders, Outdated
  <2>4. QED
    BY <1>2, <2>1, <2>2, <2>3 DEF Tokens, Spinning, NewestAnswerStands
<1>4. CASE r.token # seq
  <2>1. NewestInFlight' <=> NewestInFlight
    BY <1>1, <1>4 DEF NewestInFlight
  <2>2. spinner' = spinner
    BY <1>1, <1>4 DEF SpinnerAfter
  <2>3. shown' = shown /\ failed' = failed
    BY <1>4 DEF AnswerArrives, AnswerFails, Outdated, listVars
  <2>4. QED
    BY <1>1, <1>2, <2>1, <2>2, <2>3 DEF Tokens, Spinning, NewestAnswerStands
<1>5. QED
  BY <1>3, <1>4

LEMMA TokensInvariant == Spec => []Tokens
<1>1. Init => Tokens
  <2> SUFFICES ASSUME Init PROVE Tokens
    OBVIOUS
  <2> DEFINE first == [token |-> 1, prefix |-> value, recency |-> TRUE]
  <2>1. first.token = 1
    OBVIOUS
  <2>2. CASE seq = 0 /\ inflight = {} /\ spinner = FALSE
    BY <2>2 DEF Tokens, TokensUnique, Spinning, NewestAnswerStands, NewestInFlight
  <2>3. CASE seq = 1 /\ inflight = {first} /\ spinner = TRUE
    <3> HIDE DEF first
    <3>1. TokensUnique
      BY <2>1, <2>3 DEF TokensUnique
    <3>2. NewestInFlight
      BY <2>1, <2>3 DEF NewestInFlight
    <3>3. QED
      BY <2>3, <3>1, <3>2 DEF Tokens, Spinning, NewestAnswerStands
  <2>4. QED
    BY <2>2, <2>3 DEF Init
<1>2. Tokens /\ Data /\ Flags /\ [Next]_vars => Tokens'
  <2> SUFFICES ASSUME Tokens, Data, Flags, [Next]_vars PROVE Tokens'
    OBVIOUS
  <2>1. CASE UNCHANGED <<fetchVars, shown, failed>>
    BY <2>1 DEF fetchVars, Tokens, TokensUnique, Spinning, NewestAnswerStands, NewestInFlight
  <2>2. ASSUME NEW text \in Texts, OnInput(text) \/ ClickChip(text) PROVE Tokens'
    BY <2>1, <2>2 DEF OnInput, ClickChip, SubmitSearch, fetchVars, listVars
  <2>3. CASE OnInputBlank \/ Escape \/ ClickOutside \/ Focus
    BY <2>1, <2>3
       DEF OnInputBlank, Escape, ClickOutside, Focus, ClosesOnly, fetchVars, listVars
  <2>4. CASE DebounceFires
    BY <2>4, FetchesNewest DEF DebounceFires, Data, Flags
  <2>5. CASE ArrowDownFetches
    BY <2>5, FetchesNewest DEF ArrowDownFetches, Data, Flags
  <2>6. ASSUME NEW mode \in BOOLEAN, SetMode(mode) PROVE Tokens'
    BY <2>1, <2>6, FetchesNewest DEF SetMode, Data, fetchVars, listVars
  <2>7. CASE ArrowDown \/ ArrowUp
    BY <2>1, <2>7 DEF ArrowDown, ArrowUp, Selects, fetchVars, listVars
  <2>8. CASE EnterSelected \/ SubmitForm
    BY <2>1, <2>8 DEF EnterSelected, SubmitForm, SubmitSearch, fetchVars, listVars
  <2>9. ASSUME NEW i \in 0..Len(items), Hover(i) \/ ClickItem(i) PROVE Tokens'
    BY <2>1, <2>9 DEF Hover, ClickItem, Selects, SubmitSearch, fetchVars, listVars
  <2>10. ASSUME NEW r \in inflight, AnswerArrives(r) \/ AnswerFails(r) PROVE Tokens'
    BY <2>10, SettlesTokens
  <2>11. CASE UNCHANGED vars
    BY <2>1, <2>11 DEF vars, fetchVars, listVars
  <2>12. QED
    BY <2>2, <2>3, <2>4, <2>5, <2>6, <2>7, <2>8, <2>9, <2>10, <2>11
       DEF Next, User, Settles
<1>3. QED
  BY <1>1, <1>2, FlagsInvariant, DataInvariant, PTL DEF Spec

(* The request token does its work for every order of the answers: the     *)
(* list is that of the newest request.                                     *)
THEOREM StaleAnswersDropped == Spec => []NewestAnswerStands
<1>1. Tokens => NewestAnswerStands
  BY DEF Tokens
<1>2. QED
  BY <1>1, TokensInvariant, PTL

(* No handler hides the spinner too early or leaves it on. *)
THEOREM SpinnerCorrect == Spec => []SpinnerIffNewestInFlight
<1>1. Tokens /\ Flags => SpinnerIffNewestInFlight
  BY DEF Tokens, Spinning, Flags, SpinnerIffNewestInFlight
<1>2. QED
  BY <1>1, TokensInvariant, FlagsInvariant, PTL

--------------------------------------------------------------------------------
(* What an open list is for. *)

(* The newest request, once sent, was for the text in the box and the mode *)
(* then chosen; what changes either of them asks again at once, starts the *)
(* timer, or is one of the exceptions.                                     *)
NewestFits == \E r \in inflight : r.token = seq /\ r.prefix = value /\ r.recency = recency
ShownFits == shown.prefix = value /\ shown.recency = recency
Explained ==
  \/ timer # Blank \/ left
  \/ NewestInFlight /\ NewestFits
  \/ ~NewestInFlight /\ (ShownFits \/ failed = seq)
TimerFits == timer # Blank => timer = value \/ left
BlankAtFirst == value = Blank => left \/ (seq = 0 /\ failed = 0)
Explanation == Explained /\ TimerFits /\ BlankAtFirst

(* A request for what is in the box explains the list, whatever it was. *)
LEMMA FetchesFit ==
  ASSUME NEW text, NEW mode, Fetches(text, mode), value' = text, recency' = mode
  PROVE  NewestFits' /\ NewestInFlight'
<1> DEFINE new == [token |-> seq + 1, prefix |-> text, recency |-> mode]
<1>1. new \in inflight' /\ seq' = seq + 1
  BY DEF Fetches
<1>2. new.token = seq + 1 /\ new.prefix = text /\ new.recency = mode
  OBVIOUS
<1> HIDE DEF new
<1>3. QED
  BY <1>1, <1>2 DEF NewestFits, NewestInFlight

LEMMA ExplanationInvariant == Spec => []Explanation
<1>1. Init => Explanation
  <2> SUFFICES ASSUME Init PROVE Explanation
    OBVIOUS
  <2>1. timer = Blank /\ failed = 0
    BY DEF Init
  <2>2. CASE value = Blank /\ seq = 0 /\ inflight = {}
    BY <2>1, <2>2 DEF NewestInFlight, Explanation, Explained, TimerFits, BlankAtFirst
  <2>3. CASE value \in Texts /\ seq = 1 /\ recency = TRUE
             /\ inflight = {[token |-> 1, prefix |-> value, recency |-> TRUE]}
    <3>1. NewestFits /\ NewestInFlight
      BY <2>3 DEF NewestFits, NewestInFlight
    <3>2. QED
      BY <2>1, <2>3, <3>1, ConstantFacts DEF Explanation, Explained, TimerFits, BlankAtFirst
  <2>4. QED
    BY <2>2, <2>3 DEF Init
<1>2. Explanation /\ Tokens /\ Data /\ [Next]_vars => Explanation'
  <2> SUFFICES ASSUME Explanation, Tokens, Data, [Next]_vars PROVE Explanation'
    OBVIOUS
  <2>1. ASSUME UNCHANGED <<value, timer, recency, fetchVars, shown, failed, left>>
        PROVE  Explanation'
    BY <2>1 DEF fetchVars, Explanation, Explained, TimerFits, BlankAtFirst, NewestFits, ShownFits,
           NewestInFlight
  <2>2. ASSUME NEW text \in Texts, OnInput(text) PROVE Explanation'
    BY <2>2, ConstantFacts DEF OnInput, Explanation, Explained, TimerFits, BlankAtFirst
  <2>3. ASSUME left' = TRUE PROVE Explanation'
    BY <2>3 DEF Explanation, Explained, TimerFits, BlankAtFirst
  <2>4. CASE Escape \/ ClickOutside \/ Focus
    BY <2>1, <2>4 DEF Escape, ClickOutside, Focus, ClosesOnly, listVars
  <2>5. CASE DebounceFires
    <3>1. Fetches(timer, recency) /\ UNCHANGED <<value, recency, left>> /\ timer' = Blank
      BY <2>5 DEF DebounceFires
    <3>2. CASE left
      BY <2>3, <2>5, <3>2 DEF DebounceFires, Explanation, Explained, TimerFits, BlankAtFirst
    <3>3. CASE ~left
      <4>1. timer = value /\ timer # Blank
        BY <2>5, <3>3 DEF DebounceFires, Explanation, TimerFits
      <4>2. NewestFits' /\ NewestInFlight'
        BY <3>1, <4>1, FetchesFit
      <4>3. QED
        BY <3>1, <4>1, <4>2 DEF Explanation, Explained, TimerFits, BlankAtFirst
    <3>4. QED
      BY <3>2, <3>3
  <2>6. CASE ArrowDownFetches
    <3>1. NewestFits' /\ NewestInFlight'
      BY <2>6, FetchesFit DEF ArrowDownFetches
    <3>2. QED
      BY <2>6, <3>1
         DEF ArrowDownFetches, Explanation, Explained, TimerFits, BlankAtFirst
  <2>7. ASSUME NEW mode \in BOOLEAN, SetMode(mode) PROVE Explanation'
    <3>1. CASE value # Blank
      <4>1. NewestFits' /\ NewestInFlight'
        BY <2>7, <3>1, FetchesFit DEF SetMode
      <4>2. QED
        BY <2>7, <3>1, <4>1 DEF SetMode, Explanation, Explained, TimerFits, BlankAtFirst
    <3>2. CASE value = Blank
      <4>1. left \/ (seq = 0 /\ failed = 0)
        BY <3>2 DEF Explanation, BlankAtFirst
      <4>2. UNCHANGED <<value, timer, seq, inflight, failed, left>>
        BY <2>7, <3>2 DEF SetMode, fetchVars
      <4>3. seq = 0 => ~NewestInFlight
        BY ConstantFacts DEF Data, Request, NewestInFlight
      <4>4. QED
        BY <3>2, <4>1, <4>2, <4>3
           DEF Explanation, Explained, TimerFits, BlankAtFirst, NewestInFlight
    <3>3. QED
      BY <3>1, <3>2
  <2>8. CASE ArrowDown \/ ArrowUp
    BY <2>1, <2>8 DEF ArrowDown, ArrowUp, Selects, listVars
  <2>9. ASSUME NEW i \in 0..Len(items), Hover(i) PROVE Explanation'
    BY <2>1, <2>9 DEF Hover, Selects, listVars
  <2>10. CASE \/ OnInputBlank \/ EnterSelected \/ SubmitForm
              \/ \E text \in Texts : ClickChip(text)
              \/ \E i \in 0..Len(items) : ClickItem(i)
    BY <2>3, <2>10 DEF OnInputBlank, EnterSelected, SubmitForm, ClickChip, ClickItem, SubmitSearch
  <2>11. ASSUME NEW r \in inflight, AnswerArrives(r) \/ AnswerFails(r) PROVE Explanation'
    <3>1. /\ inflight' = inflight \ {r}
          /\ UNCHANGED <<value, timer, recency, seq, left>>
      BY <2>11 DEF AnswerArrives, AnswerFails
    <3>2. CASE r.token # seq
      <4>1. UNCHANGED <<shown, failed>>
        BY <2>11, <3>2 DEF AnswerArrives, AnswerFails, Outdated, listVars
      <4>2. (NewestFits => NewestFits') /\ (NewestInFlight <=> NewestInFlight')
        BY <3>1, <3>2 DEF NewestFits, NewestInFlight
      <4>3. QED
        BY <3>1, <4>1, <4>2 DEF Explanation, Explained, TimerFits, BlankAtFirst, ShownFits
    <3>3. CASE r.token = seq
      <4>1. ~NewestInFlight'
        BY <3>1, <3>3 DEF NewestInFlight, Tokens, TokensUnique
      <4>2. value = Blank => left \/ (seq = 0 /\ failed = 0)
        BY DEF Explanation, BlankAtFirst
      <4>3. seq # 0 /\ NewestInFlight
        BY <3>3, ConstantFacts DEF Data, Request, NewestInFlight
      <4>4. CASE timer # Blank \/ left
        BY <3>1, <4>2, <4>3, <4>4 DEF Explanation, Explained, TimerFits, BlankAtFirst
      <4>5. CASE timer = Blank /\ ~left
        <5>1. r.prefix = value /\ r.recency = recency
          BY <3>3, <4>3, <4>5
             DEF Explanation, Explained, NewestFits, Tokens, TokensUnique
        <5>2. shown' = r \/ failed' = seq'
          BY <2>11, <3>3 DEF AnswerArrives, AnswerFails, Outdated, Renders
        <5>3. QED
          BY <3>1, <4>1, <4>2, <4>3, <4>5, <5>1, <5>2
             DEF Explanation, Explained, TimerFits, BlankAtFirst, ShownFits
      <4>6. QED
        BY <4>4, <4>5
    <3>4. QED
      BY <3>2, <3>3
  <2>12. CASE UNCHANGED vars
    BY <2>1, <2>12 DEF vars, listVars
  <2>13. QED
    BY <2>2, <2>4, <2>5, <2>6, <2>7, <2>8, <2>9, <2>10, <2>11, <2>12 DEF Next, User, Settles
<1>3. QED
  BY <1>1, <1>2, TokensInvariant, DataInvariant, PTL DEF Spec

(* A list on screen is the one for the text in the box and the chosen      *)
(* mode, however keystrokes, timers, mode switches and answers interleave, *)
(* unless a newer one is on its way or failed to come, or a search or a    *)
(* cleared box left late answers behind.                                   *)
THEOREM OpenListFits == Spec => []OpenListExplained
<1>1. Explanation => OpenListExplained
  BY DEF Explanation, Explained, ShownFits, OpenListExplained
<1>2. QED
  BY <1>1, ExplanationInvariant, PTL
================================================================================
