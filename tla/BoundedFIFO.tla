---------------------------- MODULE BoundedFIFO ----------------------------
(***************************************************************************)
(* What a message queue promises to the two processes that hold its ends:  *)
(* a first-in first-out buffer of at most Capacity bytes, out of which the *)
(* reader takes exactly the bytes that were put in, once each, in order.   *)
(***************************************************************************)
EXTENDS Naturals, Sequences

CONSTANTS Item,      \* what can be put into the buffer
          Capacity   \* how many items fit

VARIABLES queue,     \* the items put and not yet taken, oldest first
          last       \* the item the reader took last

vars == <<queue, last>>

Init == queue = <<>>

Put(d) == /\ Len(queue) < Capacity
          /\ queue' = Append(queue, d)
          /\ UNCHANGED last

Get == /\ queue # <<>>
       /\ last' = Head(queue)
       /\ queue' = Tail(queue)

Next == Get \/ \E d \in Item : Put(d)

Spec == Init /\ [][Next]_vars
=============================================================================
