------------------------------ MODULE CountLedger ------------------------------
(***************************************************************************)
(* What the write path promises about search counts, whatever its threads, *)
(* buffers and triggers do: a search is accepted once and afterwards       *)
(* settles at most once, either into the durable count or into the losses. *)
(* Nothing is invented, nothing settles twice, nothing settled comes back. *)
(***************************************************************************)
EXTENDS Naturals

CONSTANT Queries

VARIABLES accepted,  \* searches POST /search has answered "recorded"
          durable,   \* searches that have reached the store
          lost       \* searches that never will

vars == <<accepted, durable, lost>>

Init ==
  /\ accepted = [q \in Queries |-> 0]
  /\ durable = [q \in Queries |-> 0]
  /\ lost = [q \in Queries |-> 0]

(* One search of q is accepted. *)
Accept(q) ==
  /\ accepted' = [accepted EXCEPT ![q] = @ + 1]
  /\ UNCHANGED <<durable, lost>>

(* Any number of outstanding searches settles, each in one way only.       *)
Settle ==
  /\ UNCHANGED accepted
  /\ DOMAIN durable' = Queries /\ DOMAIN lost' = Queries
  /\ \A q \in Queries :
       /\ durable[q] <= durable'[q]
       /\ lost[q] <= lost'[q]
       /\ durable'[q] + lost'[q] <= accepted[q]

Next == Settle \/ \E q \in Queries : Accept(q)

Spec == Init /\ [][Next]_vars
================================================================================
