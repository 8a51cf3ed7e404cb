----------------------------- MODULE RingBufIndex -----------------------------
(***************************************************************************)
(* The lock-free index ring buffer of os/lib/ringbufindex.c, used the way  *)
(* TSCH uses it: one side fills an element of a plain array at the index   *)
(* given by ringbufindex_peek_put and commits it with ringbufindex_put;    *)
(* the other side looks at the element at ringbufindex_peek_get, works on  *)
(* it in place, and removes it with ringbufindex_get.  One of the two      *)
(* sides runs in the rtimer interrupt and the other in a process           *)
(* (input_ringbuf: produced by tsch_rx_slot, consumed by                   *)
(* tsch_rx_process_pending; dequeued_ringbuf: produced by tsch_tx_slot,    *)
(* consumed by tsch_tx_process_pending), so the steps of the two sides     *)
(* interleave.                                                             *)
(*                                                                         *)
(* The definitions marked "Faulty variant" are not part of the             *)
(* specification: they are plausible mistakes, each of which one of the    *)
(* properties rejects when it replaces the definition below it.            *)
(*                                                                         *)
(* The size is a power of two, so "x & mask" is x % Size.                  *)
(***************************************************************************)
EXTENDS Integers, Sequences

CONSTANTS
    Size,       \* number of array elements
    Values,     \* what the array elements hold
    NoValue     \* content of an element that was never written

\* "Initialize a ring buffer. The size must be a power of two"; it is given
\* as a uint8_t.
ASSUME SizeAssumption == Size \in {1, 2, 4, 8, 16, 32, 64, 128}

ASSUME NoValueAssumption == NoValue \notin Values

VARIABLES
    put_ptr,    \* r->put_ptr
    get_ptr,    \* r->get_ptr
    array,      \* input_array / dequeued_array / tx_array
    ppc, pidx,  \* the producer: where it is, the index peek_put gave it
    cpc, cidx   \* the consumer: where it is, the index peek_get gave it

ringVars == <<put_ptr, get_ptr, array>>
vars == <<put_ptr, get_ptr, array, ppc, pidx, cpc, cidx>>

Slots == 0 .. Size - 1

-----------------------------------------------------------------------------
(* The functions of ringbufindex.c *)

ringbufindex_init == /\ put_ptr = 0
                     /\ get_ptr = 0

ringbufindex_elements == (put_ptr - get_ptr) % Size

\* Faulty variant: counts the mask instead of the size, so it never is full
fullOffByOne == ringbufindex_elements = Size

ringbufindex_full == ringbufindex_elements = Size - 1

ringbufindex_empty == ringbufindex_elements = 0

\* The index, or -1 when the buffer is full
ringbufindex_peek_put == IF ringbufindex_full THEN -1 ELSE put_ptr

\* Faulty variant: the emptiness check is missing
peekGetUnchecked == get_ptr

\* The index, or -1 when the buffer is empty
ringbufindex_peek_get == IF ringbufindex_elements > 0 THEN get_ptr ELSE -1

\* Faulty variant: the index is not wrapped
putUnwrapped == /\ put_ptr' = IF ringbufindex_full THEN put_ptr ELSE put_ptr + 1
                /\ UNCHANGED get_ptr

\* Commits the element the producer filled; refused when full
ringbufindex_put == /\ put_ptr' = IF ringbufindex_full THEN put_ptr
                                  ELSE (put_ptr + 1) % Size
                    /\ UNCHANGED get_ptr

\* Removes the first element; nothing to remove when empty
ringbufindex_get == /\ get_ptr' = IF ringbufindex_elements > 0
                                  THEN (get_ptr + 1) % Size ELSE get_ptr
                    /\ UNCHANGED put_ptr

-----------------------------------------------------------------------------
(* The two sides *)

Init == /\ ringbufindex_init
        /\ array = [i \in Slots |-> NoValue]
        /\ ppc = "idle" /\ pidx = -1
        /\ cpc = "idle" /\ cidx = -1

\* The producer asks for an index; on -1 it gives up and may ask again later
ProducerPeek == /\ ppc = "idle"
                /\ pidx' = ringbufindex_peek_put
                /\ ppc' = IF ringbufindex_peek_put = -1 THEN "idle" ELSE "peeked"
                /\ UNCHANGED <<put_ptr, get_ptr, array, cpc, cidx>>

\* ... fills the array element ...
ProducerFill == /\ ppc = "peeked"
                /\ \E v \in Values : array' = [array EXCEPT ![pidx] = v]
                /\ ppc' = "filled"
                /\ UNCHANGED <<put_ptr, get_ptr, pidx, cpc, cidx>>

\* ... or drops the frame (not for us, not valid) without committing it ...
ProducerAbandon == /\ ppc \in {"peeked", "filled"}
                   /\ ppc' = "idle"
                   /\ UNCHANGED <<put_ptr, get_ptr, array, pidx, cpc, cidx>>

\* Faulty variant: the index is committed before the element is filled
PutBeforeFill == /\ ppc \in {"peeked", "filled"}
                 /\ ringbufindex_put
                 /\ ppc' = "idle"
                 /\ UNCHANGED <<array, pidx, cpc, cidx>>

\* ... and commits it
ProducerPut == /\ ppc = "filled"
               /\ ringbufindex_put
               /\ ppc' = "idle"
               /\ UNCHANGED <<array, pidx, cpc, cidx>>

\* The consumer's loop test: leaves the loop on -1
ConsumerPeek == /\ cpc = "idle"
                /\ cidx' = ringbufindex_peek_get
                /\ cpc' = IF ringbufindex_peek_get = -1 THEN "idle" ELSE "using"
                /\ UNCHANGED <<put_ptr, get_ptr, array, ppc, pidx>>

\* The consumer is done with array[cidx] and removes it
ConsumerGet == /\ cpc = "using"
               /\ ringbufindex_get
               /\ cpc' = "idle"
               /\ UNCHANGED <<array, ppc, pidx, cidx>>

Next == \/ ProducerPeek \/ ProducerFill \/ ProducerAbandon \/ ProducerPut
        \/ ConsumerPeek \/ ConsumerGet

Spec == Init /\ [][Next]_vars

-----------------------------------------------------------------------------
(* Properties *)

\* The pointers stay inside the array, and a side that holds an index holds
\* a valid one.
TypeOK == /\ put_ptr \in Slots
          /\ get_ptr \in Slots
          /\ array \in [Slots -> Values \cup {NoValue}]
          /\ ppc \in {"idle", "peeked", "filled"}
          /\ pidx \in Slots \cup {-1}
          /\ cpc \in {"idle", "using"}
          /\ cidx \in Slots \cup {-1}

\* While tsch_rx_process_pending (or tsch_tx_process_pending) works on the
\* element it peeked at, the interrupt neither fills that element nor owns
\* its index: the element is used in place, with no lock.
NoOverwriteInUse ==
    cpc = "using" /\ ppc \in {"peeked", "filled"} => pidx # cidx

\* Both sides act on the index they were given earlier although the other
\* side moved its pointer in between: the committed element is the one that
\* was filled, the removed one is the one that was used.
IndexStillValid == /\ ppc \in {"peeked", "filled"} =>
                          pidx = put_ptr /\ ~ringbufindex_full
                   /\ cpc = "using" =>
                          cidx = get_ptr /\ ~ringbufindex_empty

\* Every committed element has been filled, and so has the one about to be:
\* the consumer never meets an array element nobody wrote.
CommittedAreFilled ==
    /\ \A k \in 0 .. ringbufindex_elements - 1 :
           array[(get_ptr + k) % Size] \in Values
    /\ ppc = "filled" => array[pidx] \in Values

\* The queue the ring buffer stands for
Contents == [k \in 1 .. ringbufindex_elements |->
                 array[(get_ptr + k - 1) % Size]]

Fifo == INSTANCE BoundedFifo WITH fifo <- Contents, Capacity <- Size - 1

\* ringbufindex.c is a first-in first-out queue of Size - 1 elements
ImplementsFifo == Fifo!Spec
=============================================================================
