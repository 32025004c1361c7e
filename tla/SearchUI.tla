-------------------------------- MODULE SearchUI --------------------------------
(***************************************************************************)
(* static/app.js: the search box of the page.  Handlers run one at a time, *)
(* but a keystroke, a timer and the answers of earlier requests come in    *)
(* any order, and an answer may come long after its request, or never be   *)
(* more than an error.                                                     *)
(*                                                                         *)
(* A text stands for all that normalize() to it, and the service's answer  *)
(* to a text and a mode is taken as fixed.  The page's other half, toasts  *)
(* and the polled dashboard, shares no state with the search box.          *)
(***************************************************************************)
EXTENDS Integers, Sequences

CONSTANTS
  Texts,      \* what users type and the service suggests
  Answer,     \* what the service answers: ranking mode -> text -> queries
  MaxFetches  \* bound of the model: requests for suggestions

Blank == ""
ASSUME SearchUIAssumption ==
  /\ Blank \notin Texts
  /\ Answer \in [BOOLEAN -> [Texts -> Seq(Texts)]]
  /\ MaxFetches \in Nat \ {0}

VARIABLES
  value,    \* els.input.value
  timer,    \* debounceTimer: the text it will fetch for, or Blank
  recency,  \* state.recency
  seq,      \* state.seq
  inflight, \* requests that have not been answered
  items,    \* state.items
  active,   \* state.activeIndex
  hidden,   \* els.list.hidden
  spinner,  \* is the spinner visible?
  shown,    \* history: the request whose answer was rendered last
  failed,   \* history: the token of the last request that failed as the newest
  left      \* history: has the box been cleared or a search sent since the last typing?

listVars == <<items, shown>>
fetchVars == <<seq, inflight, spinner>>
vars == <<value, timer, recency, fetchVars, listVars, active, hidden, failed, left>>

Request == [token : 1..MaxFetches, prefix : Texts, recency : BOOLEAN]
NoRequest == [token |-> 0, prefix |-> Blank, recency |-> TRUE]

TypeOK ==
  /\ value \in Texts \cup {Blank} /\ timer \in Texts \cup {Blank}
  /\ recency \in BOOLEAN /\ hidden \in BOOLEAN /\ spinner \in BOOLEAN /\ left \in BOOLEAN
  /\ seq \in 0..MaxFetches /\ failed \in 0..MaxFetches
  /\ inflight \subseteq Request /\ shown \in Request \cup {NoRequest}
  /\ items \in Seq(Texts)
  /\ active \in Int /\ active >= -1

(* init(), with /?q=... filling the box and asking for its suggestions.  (A *)
(* blank q takes a token without a request; it is left out.)               *)
Init ==
  /\ \/ value = Blank /\ seq = 0 /\ inflight = {} /\ spinner = FALSE
     \/ /\ value \in Texts /\ seq = 1 /\ spinner = TRUE
        /\ inflight = {[token |-> 1, prefix |-> value, recency |-> TRUE]}
  /\ timer = Blank /\ recency = TRUE
  /\ items = <<>> /\ active = -1 /\ hidden = TRUE
  /\ shown = NoRequest
  /\ failed = 0 /\ left = FALSE

--------------------------------------------------------------------------------
(* closeSuggestions(), and fetchSuggestions() up to its await. *)
Closes == hidden' = TRUE /\ active' = -1
Fetches(text, mode) ==
  /\ seq < MaxFetches
  /\ seq' = seq + 1
  /\ inflight' = inflight \cup {[token |-> seq + 1, prefix |-> text, recency |-> mode]}
  /\ spinner' = TRUE

--------------------------------------------------------------------------------
(* Plausible bugs: faulty variants of the definitions below, used by the   *)
(* mutation runs only.                                                     *)

(* No request token. *)
NeverOutdated(r) == FALSE

(* A finally that does not look at the token. *)
SpinnerOff(r) == FALSE

(* A mode switch that waits for the next keystroke. *)
SetModeOnly(mode) ==
  /\ recency' = mode
  /\ Closes
  /\ UNCHANGED <<value, timer, fetchVars, listVars, failed, left>>

(* A list that keeps its selection for the next one. *)
RendersKeepsActive(r) ==
  /\ items' = Answer[r.recency][r.prefix] /\ shown' = r
  /\ hidden' = FALSE /\ UNCHANGED active

(* Hiding the spinner after a success only. *)
AnswerFailsSpinning(r) ==
  /\ inflight' = inflight \ {r}
  /\ failed' = IF r.token # seq THEN failed ELSE seq
  /\ UNCHANGED <<value, timer, recency, seq, spinner, listVars, active, hidden, left>>

(* JavaScript's % keeps the sign: without + n the first item leads to none *)
(* and none to a negative index.                                           *)
AboveUnwrapped(i, n) == i - 1

--------------------------------------------------------------------------------
(* The input event.                                                        *)

(* Some text: (re)start the debounce timer. *)
OnInput(text) ==
  /\ value' = text /\ timer' = text
  /\ left' = FALSE
  /\ UNCHANGED <<recency, fetchVars, listVars, active, hidden, failed>>

(* The box was cleared: stop the timer, close the list. *)
OnInputBlank ==
  /\ value' = Blank /\ timer' = Blank
  /\ Closes
  /\ left' = TRUE
  /\ UNCHANGED <<recency, fetchVars, listVars, failed>>

DebounceFires ==
  /\ timer # Blank
  /\ timer' = Blank
  /\ Fetches(timer, recency)
  /\ UNCHANGED <<value, recency, listVars, active, hidden, failed, left>>

--------------------------------------------------------------------------------
(* The rest of fetchSuggestions(), when the service has answered.          *)

Outdated(r) == r.token # seq
SpinnerAfter(r) == IF r.token # seq THEN spinner ELSE FALSE

(* renderSuggestions(): new items, nothing selected, list open. *)
Renders(r) ==
  /\ items' = Answer[r.recency][r.prefix] /\ shown' = r
  /\ active' = -1 /\ hidden' = FALSE

AnswerArrives(r) ==
  /\ inflight' = inflight \ {r}
  /\ \/ Outdated(r) /\ UNCHANGED <<listVars, active, hidden>>
     \/ ~Outdated(r) /\ Renders(r)
  /\ spinner' = SpinnerAfter(r)
  /\ UNCHANGED <<value, timer, recency, seq, failed, left>>

(* No answer, or not a good one: the list stays as it is. *)
AnswerFails(r) ==
  /\ inflight' = inflight \ {r}
  /\ spinner' = SpinnerAfter(r)
  /\ failed' = IF Outdated(r) THEN failed ELSE seq
  /\ UNCHANGED <<value, timer, recency, seq, listVars, active, hidden, left>>

--------------------------------------------------------------------------------
(* Keys and mouse.                                                         *)

Below(i, n) == (i + 1) % n
Above(i, n) == (i - 1 + n) % n
Navigable == ~hidden /\ items # <<>>

Selects(i) ==
  /\ active' = i
  /\ UNCHANGED <<value, timer, recency, fetchVars, listVars, hidden, failed, left>>

ArrowDown == Navigable /\ Selects(Below(active, Len(items)))
ArrowUp == Navigable /\ Selects(Above(active, Len(items)))
Hover(i) == Navigable /\ i \in 0..(Len(items) - 1) /\ Selects(i)

(* With no list to move in, the down arrow asks for one. *)
ArrowDownFetches ==
  /\ ~Navigable /\ value # Blank
  /\ Fetches(value, recency)
  /\ UNCHANGED <<value, timer, recency, listVars, active, hidden, failed, left>>

(* Escape does nothing to a list without suggestions; a click outside the  *)
(* box closes any.                                                         *)
ClosesOnly ==
  /\ Closes
  /\ UNCHANGED <<value, timer, recency, fetchVars, listVars, failed, left>>
Escape == Navigable /\ ClosesOnly
ClickOutside == ~hidden /\ ClosesOnly

(* The focus event opens the last list again. *)
Focus ==
  /\ items # <<>> /\ value # Blank
  /\ hidden' = FALSE
  /\ UNCHANGED <<value, timer, recency, fetchVars, listVars, active, failed, left>>

(* A mode button, also that of the mode in use.  The click goes on to the  *)
(* document, which closes the list.                                        *)
SetMode(mode) ==
  /\ recency' = mode
  /\ Closes
  /\ \/ value # Blank /\ Fetches(value, mode)
     \/ value = Blank /\ UNCHANGED fetchVars
  /\ UNCHANGED <<value, timer, listVars, failed, left>>

(* submitSearch(): the query goes into the box and to the service.  The    *)
(* timer and the requests for suggestions go on.                           *)
SubmitSearch(query) ==
  /\ value' = query
  /\ Closes
  /\ left' = TRUE
  /\ UNCHANGED <<timer, recency, fetchVars, listVars, failed>>

EnterSelected == Navigable /\ active >= 0 /\ SubmitSearch(items[active + 1])
SubmitForm == value # Blank /\ SubmitSearch(value)
ClickItem(i) == Navigable /\ i \in DOMAIN items /\ SubmitSearch(items[i])
ClickChip(query) == SubmitSearch(query)

--------------------------------------------------------------------------------

User ==
  \/ \E text \in Texts : OnInput(text) \/ ClickChip(text)
  \/ OnInputBlank
  \/ ArrowDown \/ ArrowUp \/ ArrowDownFetches \/ Escape \/ EnterSelected \/ SubmitForm
  \/ \E i \in 0..Len(items) : Hover(i) \/ ClickItem(i)
  \/ ClickOutside \/ Focus
  \/ \E mode \in BOOLEAN : SetMode(mode)

Settles(n) == \E r \in inflight : r.token = n /\ (AnswerArrives(r) \/ AnswerFails(r))

Next == User \/ DebounceFires \/ \E n \in 1..MaxFetches : Settles(n)

Spec == Init /\ [][Next]_vars

(* Timers fire and every request is settled, be it by a network error. *)
FairSpec ==
  Spec /\ WF_vars(DebounceFires) /\ \A n \in 1..MaxFetches : WF_vars(Settles(n))

--------------------------------------------------------------------------------
(* Properties.                                                             *)

NewestInFlight == \E r \in inflight : r.token = seq

(* "request token to drop stale responses": whatever the order of the      *)
(* answers, once the newest request is settled its answer is the list, and *)
(* no older answer replaces it.                                            *)
NewestAnswerStands ==
  seq > 0 /\ ~NewestInFlight => shown.token = seq \/ failed = seq

(* The spinner shows exactly while the newest request is out: an older     *)
(* answer does not hide it, and no handler leaves it spinning.             *)
SpinnerIffNewestInFlight == spinner <=> NewestInFlight

(* The selection is always an item of the open list, so Enter never        *)
(* submits a query that is not on screen, whatever list came or went since *)
(* the selection was made.                                                 *)
EnterPicksAShownItem == active >= 0 => ~hidden /\ active < Len(items)

(* An open list is the list for the text in the box and the chosen mode,   *)
(* or a newer one is awaited or has failed to come; the exceptions are a   *)
(* box that was cleared and one that a search has filled, after which late *)
(* answers, late timers and the focus event still open the list.           *)
OpenListExplained ==
  ~hidden =>
    \/ shown.prefix = value /\ shown.recency = recency
    \/ timer # Blank \/ NewestInFlight \/ failed = seq
    \/ left

(* "a newer keystroke won - drop this result": the keystroke that clears   *)
(* the box closes the list, and it stays closed.                           *)
NoListForEmptyBox == value = Blank => hidden

(* The spinner does not spin for ever. *)
SpinnerStops == spinner ~> ~spinner
================================================================================
