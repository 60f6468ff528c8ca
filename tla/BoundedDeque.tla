---------------------------- MODULE BoundedDeque ----------------------------
(***************************************************************************)
(* What a bounded double-ended buffer promises, without slots or indices:  *)
(* items is the sequence of its elements, returned the result of the last  *)
(* pop, gone whether it has been destroyed.  Appending to a full buffer    *)
(* drops the first element, inserting into one drops the last.             *)
(***************************************************************************)
EXTENDS Naturals, Sequences

CONSTANTS Elements, Capacity, Nothing

VARIABLES items, returned, gone

Full == Len(items) = Capacity

Init ==
    /\ items \in {<<>>} \cup [1..Capacity -> Elements]
    /\ returned = Nothing /\ gone = FALSE

PushBack(e) ==
    /\ items' = Append(IF Full THEN Tail(items) ELSE items, e)
    /\ UNCHANGED returned

PopFront ==
    IF items = <<>>
       THEN returned' = Nothing /\ UNCHANGED items
       ELSE returned' = Head(items) /\ items' = Tail(items)

PopBack ==
    IF items = <<>>
       THEN returned' = Nothing /\ UNCHANGED items
       ELSE /\ returned' = items[Len(items)]
            /\ items' = SubSeq(items, 1, Len(items) - 1)

(* e comes to stand before the element at index i, counted from 0. *)
InsertAt(i, e) ==
    LET kept == IF Full THEN SubSeq(items, 1, Len(items) - 1) ELSE items
    IN  /\ i <= Len(kept)
        /\ items' = SubSeq(kept, 1, i) \o <<e>> \o SubSeq(kept, i + 1, Len(kept))
        /\ UNCHANGED returned

EraseAt(i) ==
    /\ items' = SubSeq(items, 1, i) \o SubSeq(items, i + 2, Len(items))
    /\ UNCHANGED returned

Destroy == gone' = TRUE /\ items' = <<>> /\ UNCHANGED returned

Next ==
    /\ ~ gone
    /\ \/ /\ \/ \E e \in Elements :
                  \/ PushBack(e)
                  \/ \E i \in 0..Len(items) : InsertAt(i, e)
             \/ PopFront \/ PopBack
             \/ \E i \in 0..(Len(items) - 1) : EraseAt(i)
          /\ UNCHANGED gone
       \/ Destroy

Spec == Init /\ [][Next]_<<items, returned, gone>>
=============================================================================
