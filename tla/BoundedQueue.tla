----------------------------- MODULE BoundedQueue -----------------------------
(***************************************************************************)
(* What the FIFO buffer API promises its caller (the doc comments of       *)
(* util/Message_FIFO.h, implemented by unit-testing's FIFO.c), without the *)
(* pointer array and the offsets: a queue of at most Cap items.  fifoAdd  *)
(* appends an item when there is room and otherwise returns false and     *)
(* changes nothing; fifoGet removes the front item when there is one and  *)
(* otherwise returns false and changes nothing.                           *)
(***************************************************************************)
EXTENDS Naturals, Sequences

CONSTANTS Cap, Items

VARIABLE q

\* fifoCreate(number_of_items): an empty buffer of that capacity.
Init == q = <<>>

\* fifoAdd on a buffer with room.
Add(m) == Len(q) < Cap /\ q' = Append(q, m)

\* fifoGet on a buffer that holds an item.
Get == q # <<>> /\ q' = Tail(q)

Next == (\E m \in Items : Add(m)) \/ Get

\* A full fifoAdd or an empty fifoGet is a stuttering step.
QueueSpec == Init /\ [][Next]_q
=============================================================================
