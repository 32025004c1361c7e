------------------------------- MODULE LossyCache -------------------------------
(***************************************************************************)
(* What the service may rely on when it caches a suggestion list, however  *)
(* many nodes, capacities and expiry times stand behind it: a read returns *)
(* the list that was stored last under its key, or nothing; entries vanish *)
(* at any time; what was invalidated or has vanished never comes back by   *)
(* itself.                                                                 *)
(***************************************************************************)
EXTENDS Functions

CONSTANTS Keys, Values, Threads

VARIABLES held,    \* key -> value, for the keys that are held
          putting, \* thread -> key and value it is about to store, if any
          reply    \* thread -> what its last read returned, if that was a hit

vars == <<held, putting, reply>>

Init ==
  /\ held = <<>>
  /\ putting = <<>>
  /\ reply = <<>>

BeginPut(t, k, v) ==
  /\ t \notin DOMAIN putting
  /\ putting' = [u \in DOMAIN putting \cup {t} |->
                   IF u = t THEN [key |-> k, value |-> v] ELSE putting[u]]
  /\ UNCHANGED <<held, reply>>

(* The value is stored; that may push out anything, itself included. *)
Put(t) ==
  /\ t \in DOMAIN putting
  /\ \E kept \in SUBSET (DOMAIN held \cup {putting[t].key}) :
       held' = [k \in kept |-> IF k = putting[t].key THEN putting[t].value ELSE held[k]]
  /\ putting' = Restrict(putting, DOMAIN putting \ {t})
  /\ UNCHANGED reply

Hit(t, k) ==
  /\ k \in DOMAIN held
  /\ reply' = [u \in DOMAIN reply \cup {t} |-> IF u = t THEN held[k] ELSE reply[u]]
  /\ UNCHANGED <<held, putting>>

(* A miss finds nothing, or finds an expired entry and drops it. *)
Miss(t, k) ==
  /\ reply' = Restrict(reply, DOMAIN reply \ {t})
  /\ held' = Restrict(held, DOMAIN held \ {k})
  /\ UNCHANGED putting

Invalidate(k) ==
  /\ held' = Restrict(held, DOMAIN held \ {k})
  /\ UNCHANGED <<putting, reply>>

Next ==
  \/ \E t \in Threads, k \in Keys, v \in Values : BeginPut(t, k, v)
  \/ \E t \in Threads : Put(t)
  \/ \E t \in Threads, k \in Keys : Hit(t, k) \/ Miss(t, k)
  \/ \E k \in Keys : Invalidate(k)

Spec == Init /\ [][Next]_vars
================================================================================
