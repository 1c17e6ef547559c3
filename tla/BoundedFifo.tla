----------------------------- MODULE BoundedFifo -----------------------------
(***************************************************************************)
(* What a synchronous FIFO promises its users, whatever the memory and the *)
(* flags behind it look like: in one clock cycle an item may be appended   *)
(* at the back while there is room, the oldest item may leave at the       *)
(* front, or both.  Nothing is lost, duplicated or reordered.              *)
(***************************************************************************)
EXTENDS Integers, Sequences

CONSTANTS Data,      \* the words the FIFO stores
          Capacity   \* the number of words it holds

VARIABLE items       \* oldest word first

Init == items = << >>

Put == /\ Len(items) < Capacity
       /\ \E d \in Data : items' = Append(items, d)

Get == /\ items # << >>
       /\ items' = Tail(items)

PutAndGet == /\ items # << >>
             /\ Len(items) < Capacity
             /\ \E d \in Data : items' = Append(Tail(items), d)

Next == Put \/ Get \/ PutAndGet

Spec == Init /\ [][Next]_items
=============================================================================
