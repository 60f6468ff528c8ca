----------------------------- MODULE BoundedFifo -----------------------------
(***************************************************************************)
(* What a bounded queue with one consumer promises, without slots or       *)
(* counters.  items is what the consumer can still take, in order; hand is *)
(* the element it is in the middle of taking, which keeps its place        *)
(* occupied until the take is finished.  A put is requested, and then      *)
(* either appended or, if the queue has no place left, refused.            *)
(***************************************************************************)
EXTENDS Naturals, Sequences

CONSTANTS Producers, Capacity, Element, Nothing

VARIABLES items, hand, request, outcome

fifoVars == <<items, hand, request, outcome>>

Occupied == Len(items) + (IF hand = Nothing THEN 0 ELSE 1)

Init ==
    /\ items \in {<<>>} \cup {[i \in 1..Capacity |-> e] : e \in Element}
    /\ hand = Nothing
    /\ request = [p \in Producers |-> Nothing]
    /\ outcome = [p \in Producers |-> "none"]

(* p asks for e to be put; its previous request has been answered. *)
Request(p, e) ==
    /\ request[p] = Nothing
    /\ request' = [request EXCEPT ![p] = e]
    /\ outcome' = [outcome EXCEPT ![p] = "none"]
    /\ UNCHANGED <<items, hand>>

(* The element p asked for, and no other, is appended, once. *)
Put(p) ==
    /\ request[p] # Nothing /\ Occupied < Capacity
    /\ items' = Append(items, request[p])
    /\ request' = [request EXCEPT ![p] = Nothing]
    /\ outcome' = [outcome EXCEPT ![p] = "pushed"]
    /\ UNCHANGED hand

(* A request is refused only when every place is occupied. *)
Refuse(p) ==
    /\ request[p] # Nothing /\ Occupied = Capacity
    /\ request' = [request EXCEPT ![p] = Nothing]
    /\ outcome' = [outcome EXCEPT ![p] = "full"]
    /\ UNCHANGED <<items, hand>>

Take ==
    /\ hand = Nothing /\ items # <<>>
    /\ hand' = Head(items)
    /\ items' = Tail(items)
    /\ UNCHANGED <<request, outcome>>

Finish ==
    /\ hand # Nothing
    /\ hand' = Nothing
    /\ UNCHANGED <<items, request, outcome>>

Reset ==
    /\ hand = Nothing /\ \A p \in Producers : request[p] = Nothing
    /\ items' = <<>>
    /\ UNCHANGED <<hand, request, outcome>>

Next ==
    \/ \E p \in Producers : \/ \E e \in Element : Request(p, e)
                            \/ Put(p) \/ Refuse(p)
    \/ Take \/ Finish \/ Reset

Spec == Init /\ [][Next]_fifoVars
=============================================================================
