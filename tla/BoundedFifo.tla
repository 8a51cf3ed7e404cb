----------------------------- MODULE BoundedFifo -----------------------------
(***************************************************************************)
(* What os/lib/ringbufindex.c promises to its users: a first-in first-out  *)
(* queue that holds at most Capacity elements.  It is the specification    *)
(* RingBufIndex is shown to implement; nothing here is translated from a   *)
(* particular line of the code.                                            *)
(***************************************************************************)
EXTENDS Naturals, Sequences

CONSTANTS
    Values,     \* the elements stored (packet pointers, received frames)
    Capacity    \* how many of them fit

VARIABLE fifo

Init == fifo = << >>

Enqueue == \E v \in Values : /\ Len(fifo) < Capacity
                             /\ fifo' = Append(fifo, v)

Dequeue == /\ fifo # << >>
           /\ fifo' = Tail(fifo)

Next == Enqueue \/ Dequeue

Spec == Init /\ [][Next]_fifo
=============================================================================
