------------------------------ MODULE BoundedFifo ------------------------------
(***************************************************************************)
(* What LockfreeFifo (vst/Utility.h) promises to one writer and one        *)
(* reader: a bounded queue that hands over every value once and in order.  *)
(* A push that finds it full changes nothing, so it is no step here.       *)
(***************************************************************************)
EXTENDS Naturals, Sequences

CONSTANTS Values, NoValue, Capacity

VARIABLES items,      \* what was pushed and not yet popped
          offered,    \* the value of the push under way, or NoValue
          received    \* what the last successful pop returned

vars == <<items, offered, received>>

Init == items = <<>> /\ offered = NoValue /\ received = NoValue

Offer == /\ offered = NoValue
         /\ offered' \in Values
         /\ UNCHANGED <<items, received>>

Push == /\ offered # NoValue
        /\ Len(items) < Capacity
        /\ items' = Append(items, offered)
        /\ offered' = NoValue
        /\ UNCHANGED received

Pop == /\ items # <<>>
       /\ received' = Head(items)
       /\ items' = Tail(items)
       /\ UNCHANGED offered

\* the reader discards the oldest values: all that it knows of
Drop == /\ \E k \in 1..Len(items) : items' = SubSeq(items, k + 1, Len(items))
        /\ UNCHANGED <<offered, received>>

Next == Offer \/ Push \/ Pop \/ Drop

Spec == Init /\ [][Next]_vars
================================================================================
