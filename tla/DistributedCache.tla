---------------------------- MODULE DistributedCache ----------------------------
(***************************************************************************)
(* app/distributed_cache.py: suggestion lists under prefix keys, spread    *)
(* over nodes by a consistent-hashing ring, each node an LRU list with an  *)
(* expiry time per entry.                                                  *)
(*                                                                         *)
(* get() and set() read the clock before they wait for the node's lock, so *)
(* each is two steps, and other threads and the clock may come between.    *)
(* The ring does not change while the service runs: it is the constant     *)
(* Owner.                                                                  *)
(***************************************************************************)
EXTENDS Integers, FiniteSets, SequencesExt

CONSTANTS
  Nodes,      \* cache node names
  Keys,       \* prefix keys, mode included
  Values,     \* suggestion lists
  Threads,
  Owner,      \* key -> node, by ring.get_node()
  Ttl,        \* key -> the ttl the service stores it with
  Capacity,   \* capacity_per_node
  MaxClock,   \* bound of the model: how far time.time() runs
  MaxCalls    \* bound of the model: get() and set() calls made

ASSUME CacheAssumption ==
  /\ IsFiniteSet(Keys)
  /\ Owner \in [Keys -> Nodes]
  /\ Ttl \in [Keys -> Nat]
  /\ Capacity \in Nat
  /\ MaxClock \in Nat /\ MaxCalls \in Nat
  /\ "miss" \notin Values

VARIABLES
  store,        \* node -> _store: entries, least recently used first
  stats,        \* node -> hits, misses, evictions, expirations
  clock,        \* time.time()
  call,         \* what each thread is about to do under a node's lock
  reply,        \* what each thread's last get() returned
  calls,        \* calls made
  added,        \* history: node -> entries created
  invalidated,  \* history: node -> entries deleted by invalidation
  served,       \* history: the last hit, with the clock its get() read
  newer         \* history: <<k, l>> if k, of the same node as l, was used after l

vars == <<store, stats, clock, call, reply, calls, added, invalidated, served, newer>>

Idle == [op |-> "none"]
NothingServed == [key |-> "none"]

(* born, the time its set() read the clock, is history: not in the code. *)
Entry == [key : Keys, value : Values, expiry : Nat, born : 0..MaxClock]
Counters == [hits : Nat, misses : Nat, evictions : Nat, expirations : Nat]
Calls ==
  {Idle}
    \cup [op : {"get"}, key : Keys, now : 0..MaxClock]
    \cup [op : {"set"}, entry : Entry]

KeysOf(list) == {list[i].key : i \in DOMAIN list}
At(list, k) == CHOOSE i \in DOMAIN list : list[i].key = k
Without(list, k) == IF k \in KeysOf(list) THEN RemoveAt(list, At(list, k)) ELSE list
Bump(n, counter) == [stats EXCEPT ![n][counter] = @ + 1]

TypeOK ==
  /\ store \in [Nodes -> Seq(Entry)]
  /\ stats \in [Nodes -> Counters]
  /\ clock \in 0..MaxClock /\ calls \in 0..MaxCalls
  /\ call \in [Threads -> Calls]
  /\ reply \in [Threads -> Values \cup {"miss"}]
  /\ added \in [Nodes -> Nat] /\ invalidated \in [Nodes -> Nat]
  /\ served \in {NothingServed} \cup [key : Keys, now : 0..MaxClock, born : 0..MaxClock]
  /\ newer \subseteq Keys \X Keys

Init ==
  /\ store = [n \in Nodes |-> <<>>]
  /\ stats = [n \in Nodes |-> [hits |-> 0, misses |-> 0, evictions |-> 0, expirations |-> 0]]
  /\ clock = 0 /\ calls = 0
  /\ call = [t \in Threads |-> Idle]
  /\ reply = [t \in Threads |-> "miss"]
  /\ added = [n \in Nodes |-> 0] /\ invalidated = [n \in Nodes |-> 0]
  /\ served = NothingServed
  /\ newer = {}

(* k is used: it is now newer than every other key of its node. *)
Rivals(k) == {l \in Keys : l # k /\ Owner[l] = Owner[k]}
Used(k) == (newer \ (Rivals(k) \X {k})) \cup ({k} \X Rivals(k))

(* Is k in its node's list, and has its entry expired at time now? *)
Has(k) == k \in KeysOf(store[Owner[k]])
EntryOf(k) == store[Owner[k]][At(store[Owner[k]], k)]
ExpiredAt(k, now) == EntryOf(k).expiry <= now

--------------------------------------------------------------------------------
(* Plausible bugs: faulty variants of the definitions below, used by the   *)
(* mutation runs only.                                                     *)

(* A hit that does not move its entry, or that starts its ttl again. *)
OnHitStays(list, k) == list
OnHitRenews(list, k) ==
  Append(Without(list, k), [list[At(list, k)] EXCEPT !.expiry = clock + Ttl[k]])

(* A set() that moves the key but does not assign the new value. *)
OnSetKeepsOld(list, e) ==
  IF e.key \in KeysOf(list)
  THEN Append(Without(list, e.key), list[At(list, e.key)]) ELSE Append(list, e)

(* A get() that counts an expiration as any other miss. *)
OnExpiryAsMiss(n) == Bump(n, "misses")

--------------------------------------------------------------------------------
(* What the operations do to a node's list and counters.                   *)

(* _store[key] = ..., then move_to_end(key). *)
MoveToEnd(list, e) == Append(Without(list, e.key), e)
OnHit(list, k) == MoveToEnd(list, list[At(list, k)])
OnSet(list, e) == MoveToEnd(list, e)
OnExpiry(n) == [stats EXCEPT ![n].expirations = @ + 1, ![n].misses = @ + 1]

--------------------------------------------------------------------------------
(* get(): time.time(), then the lookup under the node's lock.              *)

GetReadsClock(t, k) ==
  /\ call[t] = Idle /\ calls < MaxCalls
  /\ call' = [call EXCEPT ![t] = [op |-> "get", key |-> k, now |-> clock]]
  /\ calls' = calls + 1
  /\ UNCHANGED <<store, stats, clock, reply, added, invalidated, served, newer>>

GetAbsent(t) ==
  /\ call[t].op = "get"
  /\ ~Has(call[t].key)
  /\ stats' = Bump(Owner[call[t].key], "misses")
  /\ reply' = [reply EXCEPT ![t] = "miss"]
  /\ call' = [call EXCEPT ![t] = Idle]
  /\ UNCHANGED <<store, clock, calls, added, invalidated, served, newer>>

(* An expired entry is deleted and counts as a miss. *)
GetExpired(t) ==
  /\ call[t].op = "get"
  /\ LET k == call[t].key
         n == Owner[k]
     IN  /\ Has(k) /\ ExpiredAt(k, call[t].now)
         /\ store' = [store EXCEPT ![n] = Without(@, k)]
         /\ stats' = OnExpiry(n)
  /\ reply' = [reply EXCEPT ![t] = "miss"]
  /\ call' = [call EXCEPT ![t] = Idle]
  /\ UNCHANGED <<clock, calls, added, invalidated, served, newer>>

GetHit(t) ==
  /\ call[t].op = "get"
  /\ LET k == call[t].key
         n == Owner[k]
     IN  /\ Has(k) /\ ~ExpiredAt(k, call[t].now)
         /\ store' = [store EXCEPT ![n] = OnHit(@, k)]
         /\ stats' = Bump(n, "hits")
         /\ reply' = [reply EXCEPT ![t] = EntryOf(k).value]
         /\ served' = [key |-> k, now |-> call[t].now, born |-> EntryOf(k).born]
         /\ newer' = Used(k)
  /\ call' = [call EXCEPT ![t] = Idle]
  /\ UNCHANGED <<clock, calls, added, invalidated>>

--------------------------------------------------------------------------------
(* set(): time.time() + ttl, then the insertion under the node's lock.     *)

SetReadsClock(t, k, v) ==
  /\ call[t] = Idle /\ calls < MaxCalls
  /\ call' = [call EXCEPT ![t] =
                [op |-> "set",
                 entry |-> [key |-> k, value |-> v, expiry |-> clock + Ttl[k], born |-> clock]]]
  /\ calls' = calls + 1
  /\ UNCHANGED <<store, stats, clock, reply, added, invalidated, served, newer>>

(* The new entry goes to the recent end, then the oldest ones go until the *)
(* list fits.                                                              *)
SetStores(t) ==
  /\ call[t].op = "set"
  /\ LET e == call[t].entry
         n == Owner[e.key]
         list == OnSet(store[n], e)
         excess == Max({0, Len(list) - Capacity})
     IN  /\ store' = [store EXCEPT ![n] = SubSeq(list, excess + 1, Len(list))]
         /\ stats' = [stats EXCEPT ![n].evictions = @ + excess]
         /\ added' = [added EXCEPT ![n] = IF Has(e.key) THEN @ ELSE @ + 1]
         /\ newer' = Used(e.key)
  /\ call' = [call EXCEPT ![t] = Idle]
  /\ UNCHANGED <<clock, reply, calls, invalidated, served>>

--------------------------------------------------------------------------------

(* invalidate(), and each round of the loop in invalidate_keys(). *)
Invalidate(k) ==
  /\ Has(k)
  /\ store' = [store EXCEPT ![Owner[k]] = Without(@, k)]
  /\ invalidated' = [invalidated EXCEPT ![Owner[k]] = @ + 1]
  /\ UNCHANGED <<stats, clock, call, reply, calls, added, served, newer>>

Tick ==
  /\ clock < MaxClock
  /\ clock' = clock + 1
  /\ UNCHANGED <<store, stats, call, reply, calls, added, invalidated, served, newer>>

Next ==
  \/ \E t \in Threads, k \in Keys : GetReadsClock(t, k)
  \/ \E t \in Threads : GetAbsent(t) \/ GetExpired(t) \/ GetHit(t) \/ SetStores(t)
  \/ \E t \in Threads, k \in Keys, v \in Values : SetReadsClock(t, k, v)
  \/ \E k \in Keys : Invalidate(k)
  \/ Tick

Spec == Init /\ [][Next]_vars

--------------------------------------------------------------------------------
(* Properties.                                                             *)

(* A node's list is within capacity and in the order of the last get() or  *)
(* set() of its keys, over all threads.                                    *)
LruOrder ==
  \A n \in Nodes :
    /\ Len(store[n]) <= Capacity
    /\ \A i, j \in DOMAIN store[n] : i < j => <<store[n][j].key, store[n][i].key>> \in newer

(* Eviction takes what is over capacity, the least recently used first:    *)
(* every key it leaves was used after every key it takes.                  *)
EvictsLeastRecent ==
  [][\A n \in Nodes :
       stats'[n].evictions > stats[n].evictions =>
         /\ Len(store'[n]) = Capacity
         /\ \A k \in KeysOf(store[n]) \ KeysOf(store'[n]), l \in KeysOf(store'[n]) :
              <<l, k>> \in newer']_vars

(* "stale rankings cannot live forever": a list served by a get() that     *)
(* began at time now was stored less than its ttl before, however often it *)
(* was served in between.                                                  *)
ServedWithinTtl ==
  served # NothingServed => served.now < served.born + Ttl[served.key]

(* The counters account for every entry that ever came into being.         *)
EntriesAccounted ==
  \A n \in Nodes :
    added[n] = Len(store[n]) + stats[n].evictions + stats[n].expirations + invalidated[n]

(* Nodes, capacity and expiry together implement a lossy cache: a get()    *)
(* returns what the last set() of its key stored, or nothing, and no entry *)
(* that was invalidated, evicted or expired comes back.                    *)
Held ==
  [k \in UNION {KeysOf(store[n]) : n \in Nodes} |-> EntryOf(k).value]
Putting ==
  [t \in {u \in Threads : call[u].op = "set"} |->
     [key |-> call[t].entry.key, value |-> call[t].entry.value]]
Replies == [t \in {u \in Threads : reply[u] # "miss"} |-> reply[t]]
Lossy == INSTANCE LossyCache WITH held <- Held, putting <- Putting, reply <- Replies
LossySpec == Lossy!Spec
================================================================================
