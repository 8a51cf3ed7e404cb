-------------------------- MODULE RingBufIndexProofs --------------------------
(***************************************************************************)
(* Proofs about RingBufIndex for every allowed size of the array and every *)
(* set of values: the index a side was given stays valid until it uses it, *)
(* an element in use is never overwritten, and the ring buffer implements  *)
(* a first-in first-out queue of Size - 1 elements.                        *)
(***************************************************************************)
EXTENDS RingBufIndex, SequenceTheorems, TLAPS

\* The pointer arithmetic of ringbufindex.c, with "& mask" written % Size.
LEMMA SizeFacts == Size \in Nat /\ Size > 0
  BY SizeAssumption

LEMMA ModInRange == ASSUME NEW x \in Int PROVE x % Size \in Slots
  BY SizeFacts DEF Slots

LEMMA ModSmall == ASSUME NEW x \in Int, 0 <= x, x < Size PROVE x % Size = x
  BY SizeFacts

LEMMA ModWrap == ASSUME NEW x \in Int, Size <= x, x < 2 * Size
                 PROVE  x % Size = x - Size
  BY SizeFacts

LEMMA ModNeg == ASSUME NEW x \in Int, -Size <= x, x < 0
                PROVE  x % Size = x + Size
  BY SizeFacts

\* The number of elements, as a difference of pointers
LEMMA Elements ==
    ASSUME NEW p \in Slots, NEW g \in Slots
    PROVE  /\ (p - g) % Size \in Slots
           /\ (p - g) % Size = IF g <= p THEN p - g ELSE p - g + Size
  BY SizeFacts, ModSmall, ModNeg, ModInRange DEF Slots

LEMMA Successor ==
    ASSUME NEW p \in Slots
    PROVE  /\ (p + 1) % Size \in Slots
           /\ (p + 1) % Size = IF p + 1 = Size THEN 0 ELSE p + 1
  <1>1. CASE p + 1 = Size
    BY <1>1, SizeFacts, ModWrap DEF Slots
  <1>2. CASE p + 1 # Size
    BY <1>2, SizeFacts, ModSmall DEF Slots
  <1> QED BY <1>1, <1>2

\* Committing adds one element when the buffer is not full; removing takes
\* one away when it is not empty.
LEMMA PutAddsOne ==
    ASSUME NEW p \in Slots, NEW g \in Slots, (p - g) % Size # Size - 1
    PROVE  (((p + 1) % Size) - g) % Size = ((p - g) % Size) + 1
  <1> DEFINE q == (p + 1) % Size
  <1>1. q \in Slots /\ q = IF p + 1 = Size THEN 0 ELSE p + 1
    BY Successor
  <1>2. (q - g) % Size = IF g <= q THEN q - g ELSE q - g + Size
    BY <1>1, Elements
  <1>3. (p - g) % Size = IF g <= p THEN p - g ELSE p - g + Size
    BY Elements
  <1> QED BY <1>1, <1>2, <1>3, SizeFacts DEF Slots

LEMMA GetTakesOne ==
    ASSUME NEW p \in Slots, NEW g \in Slots, (p - g) % Size > 0
    PROVE  (p - ((g + 1) % Size)) % Size = ((p - g) % Size) - 1
  <1> DEFINE h == (g + 1) % Size
  <1>1. h \in Slots /\ h = IF g + 1 = Size THEN 0 ELSE g + 1
    BY Successor
  <1>2. (p - h) % Size = IF h <= p THEN p - h ELSE p - h + Size
    BY <1>1, Elements
  <1>3. (p - g) % Size = IF g <= p THEN p - g ELSE p - g + Size
    BY Elements
  <1> QED BY <1>1, <1>2, <1>3, SizeFacts DEF Slots

\* Position k after g, for positions inside one turn of the buffer
LEMMA Position ==
    ASSUME NEW g \in Slots, NEW k \in Slots
    PROVE  /\ (g + k) % Size \in Slots
           /\ (g + k) % Size = IF g + k < Size THEN g + k ELSE g + k - Size
  <1>1. CASE g + k < Size
    BY <1>1, SizeFacts, ModSmall DEF Slots
  <1>2. CASE ~(g + k < Size)
    BY <1>2, SizeFacts, ModWrap DEF Slots
  <1> QED BY <1>1, <1>2

\* The element at position k after the next get is at position k + 1 now
LEMMA PositionAfterGet ==
    ASSUME NEW g \in Slots, NEW k \in Nat, k + 1 < Size
    PROVE  (((g + 1) % Size) + k) % Size = (g + (k + 1)) % Size
  <1> DEFINE h == (g + 1) % Size
  <1>1. h \in Slots /\ h = IF g + 1 = Size THEN 0 ELSE g + 1
    BY Successor
  <1>2. (h + k) % Size = IF h + k < Size THEN h + k ELSE h + k - Size
    BY <1>1, Position, SizeFacts DEF Slots
  <1>3. (g + (k + 1)) % Size =
            IF g + (k + 1) < Size THEN g + (k + 1) ELSE g + (k + 1) - Size
    BY Position, SizeFacts DEF Slots
  <1> QED BY <1>1, <1>2, <1>3, SizeFacts DEF Slots

\* put_ptr is the position right after the last element, and no committed
\* element is stored there
LEMMA PutPosition ==
    ASSUME NEW p \in Slots, NEW g \in Slots
    PROVE  /\ (g + ((p - g) % Size)) % Size = p
           /\ \A k \in 0 .. ((p - g) % Size) - 1 : (g + k) % Size # p
  <1>1. (p - g) % Size \in Slots
        /\ (p - g) % Size = IF g <= p THEN p - g ELSE p - g + Size
    BY Elements
  <1>2. ASSUME NEW k \in Slots
        PROVE  (g + k) % Size = IF g + k < Size THEN g + k ELSE g + k - Size
    BY Position
  <1> QED BY <1>1, <1>2, SizeFacts DEF Slots

-----------------------------------------------------------------------------
(* Safety *)

IInv == TypeOK /\ IndexStillValid /\ CommittedAreFilled

LEMMA InitIInv == Init => IInv
  <1> SUFFICES ASSUME Init PROVE IInv
    OBVIOUS
  <1>1. TypeOK
    BY SizeFacts DEF Init, ringbufindex_init, TypeOK, Slots
  <1>2. ringbufindex_elements = 0
    BY SizeFacts, ModSmall DEF Init, ringbufindex_init, ringbufindex_elements
  <1> QED BY <1>1, <1>2 DEF Init, IInv, IndexStillValid, CommittedAreFilled

LEMMA NextIInv == IInv /\ [Next]_vars => IInv'
  <1> SUFFICES ASSUME IInv, [Next]_vars PROVE IInv'
    OBVIOUS
  <1> USE DEF IInv
  <1>e. ringbufindex_elements \in Slots
    BY Elements DEF TypeOK, ringbufindex_elements
  <1>1. CASE ProducerPeek
    BY <1>1, SizeFacts
    DEF ProducerPeek, TypeOK, IndexStillValid, CommittedAreFilled, Slots,
        ringbufindex_peek_put, ringbufindex_full, ringbufindex_empty,
        ringbufindex_elements
  <1>2. CASE ProducerFill
    <2>1. pidx \in Slots /\ pidx = put_ptr
      BY <1>2 DEF ProducerFill, TypeOK, IndexStillValid
    <2>2. PICK v \in Values : array' = [array EXCEPT ![pidx] = v]
      BY <1>2 DEF ProducerFill
    <2>3. TypeOK'
      BY <1>2, <2>1, <2>2 DEF ProducerFill, TypeOK
    <2>4. IndexStillValid'
      BY <1>2 DEF ProducerFill, IndexStillValid, ringbufindex_full,
                  ringbufindex_empty, ringbufindex_elements
    <2>5. CommittedAreFilled'
      <3>1. \A k \in 0 .. ringbufindex_elements - 1 :
                (get_ptr + k) % Size \in Slots /\ (get_ptr + k) % Size # put_ptr
        BY <1>e, PutPosition, ModInRange, SizeFacts
        DEF TypeOK, ringbufindex_elements, Slots
      <3>2. ringbufindex_elements' = ringbufindex_elements /\ get_ptr' = get_ptr
        BY <1>2 DEF ProducerFill, ringbufindex_elements
      <3>3. \A i \in Slots : i # put_ptr => array'[i] = array[i]
        BY <2>1, <2>2 DEF TypeOK
      <3>4. array'[pidx'] \in Values
        BY <1>2, <2>1, <2>2 DEF ProducerFill, TypeOK
      <3> QED BY <3>1, <3>2, <3>3, <3>4 DEF CommittedAreFilled
    <2> QED BY <2>3, <2>4, <2>5
  <1>3. CASE ProducerAbandon
    BY <1>3 DEF ProducerAbandon, TypeOK, IndexStillValid, CommittedAreFilled,
                ringbufindex_full, ringbufindex_empty, ringbufindex_elements
  <1>4. CASE ProducerPut
    <2>1. /\ ppc = "filled" /\ ~ringbufindex_full /\ pidx = put_ptr
          /\ array[put_ptr] \in Values
      BY <1>4 DEF ProducerPut, IndexStillValid, CommittedAreFilled
    <2>2. /\ put_ptr' = (put_ptr + 1) % Size /\ get_ptr' = get_ptr
          /\ UNCHANGED <<array, pidx, cpc, cidx>> /\ ppc' = "idle"
      BY <1>4, <2>1 DEF ProducerPut, ringbufindex_put
    <2>3. ringbufindex_elements' = ringbufindex_elements + 1
      BY <2>1, <2>2, PutAddsOne DEF TypeOK, ringbufindex_elements, ringbufindex_full
    <2>4. TypeOK'
      BY <2>2, Successor DEF TypeOK
    <2>5. IndexStillValid'
      BY <2>2, <2>3, <1>e DEF IndexStillValid, ringbufindex_empty, Slots
    <2>6. CommittedAreFilled'
      <3>1. (get_ptr + ringbufindex_elements) % Size = put_ptr
        BY PutPosition DEF TypeOK, ringbufindex_elements
      <3>2. \A k \in 0 .. ringbufindex_elements :
                array[(get_ptr + k) % Size] \in Values
        BY <1>e, <2>1, <3>1 DEF CommittedAreFilled, Slots
      <3> QED BY <1>e, <2>2, <2>3, <3>2 DEF CommittedAreFilled, Slots
    <2> QED BY <2>4, <2>5, <2>6
  <1>5. CASE ConsumerPeek
    BY <1>5, <1>e, SizeFacts
    DEF ConsumerPeek, TypeOK, IndexStillValid, CommittedAreFilled, Slots,
        ringbufindex_peek_get, ringbufindex_full, ringbufindex_empty,
        ringbufindex_elements
  <1>6. CASE ConsumerGet
    <2>1. cpc = "using" /\ cidx = get_ptr /\ ringbufindex_elements > 0
      BY <1>6, <1>e
      DEF ConsumerGet, IndexStillValid, ringbufindex_empty, Slots
    <2>2. /\ get_ptr' = (get_ptr + 1) % Size /\ put_ptr' = put_ptr
          /\ UNCHANGED <<array, ppc, pidx, cidx>> /\ cpc' = "idle"
      BY <1>6, <2>1 DEF ConsumerGet, ringbufindex_get
    <2>3. ringbufindex_elements' = ringbufindex_elements - 1
      BY <2>1, <2>2, GetTakesOne DEF TypeOK, ringbufindex_elements
    <2>4. TypeOK'
      BY <2>2, Successor DEF TypeOK
    <2>5. IndexStillValid'
      BY <2>2, <2>3, <1>e, SizeFacts
      DEF IndexStillValid, ringbufindex_full, Slots
    <2>6. CommittedAreFilled'
      <3>1. ASSUME NEW k \in 0 .. ringbufindex_elements - 2
            PROVE  (get_ptr' + k) % Size = (get_ptr + (k + 1)) % Size
        BY <1>e, <2>2, PositionAfterGet, SizeFacts DEF TypeOK, Slots
      <3> QED BY <1>e, <2>2, <2>3, <3>1 DEF CommittedAreFilled, Slots
    <2> QED BY <2>4, <2>5, <2>6
  <1>7. CASE UNCHANGED vars
    BY <1>7 DEF vars, TypeOK, IndexStillValid, CommittedAreFilled,
                ringbufindex_full, ringbufindex_empty, ringbufindex_elements
  <1> QED BY <1>1, <1>2, <1>3, <1>4, <1>5, <1>6, <1>7 DEF Next

\* The index a side was given stays valid, the pointers stay in the array
\* and what is committed was filled: ringbufindex.c with one producer and
\* one consumer, for every size.
THEOREM RingSafety == Spec => []IInv
  BY InitIInv, NextIInv, PTL DEF Spec

\* Both pointers stay inside the array, and a side that holds an index that
\* peek_put or peek_get returned holds one of the array.
THEOREM RingTypeOK == Spec => []TypeOK
  <1>1. IInv => TypeOK
    BY DEF IInv
  <1> QED BY <1>1, RingSafety, PTL

\* The index that ringbufindex_peek_put or ringbufindex_peek_get returned is
\* still the one that ringbufindex_put or ringbufindex_get acts on, however
\* often the other side has moved its pointer meanwhile.
THEOREM RingIndexStillValid == Spec => []IndexStillValid
  <1>1. IInv => IndexStillValid
    BY DEF IInv
  <1> QED BY <1>1, RingSafety, PTL

\* The consumer never meets an array element that nobody wrote, over any
\* number of turns of the pointers.
THEOREM RingCommittedAreFilled == Spec => []CommittedAreFilled
  <1>1. IInv => CommittedAreFilled
    BY DEF IInv
  <1> QED BY <1>1, RingSafety, PTL

\* The element the consumer works on in place is never the one the producer
\* fills, although no lock protects either.
THEOREM RingNoOverwrite == Spec => []NoOverwriteInUse
  <1>1. IInv => NoOverwriteInUse
    <2> SUFFICES ASSUME IInv, cpc = "using", ppc \in {"peeked", "filled"}
                 PROVE  pidx # cidx
      BY DEF NoOverwriteInUse
    <2>1. pidx = put_ptr /\ cidx = get_ptr /\ ringbufindex_elements # 0
      BY DEF IInv, IndexStillValid, ringbufindex_empty
    <2>2. put_ptr \in Slots /\ get_ptr \in Slots
      BY DEF IInv, TypeOK
    <2> QED BY <2>1, <2>2, Elements, SizeFacts DEF ringbufindex_elements, Slots
  <1> QED BY <1>1, RingSafety, PTL

-----------------------------------------------------------------------------
(* Refinement *)

\* The contents are a sequence as long as the number of elements
ContentsOK == /\ ringbufindex_elements \in Slots
              /\ Contents \in Seq(Values)
              /\ Len(Contents) = ringbufindex_elements

LEMMA ContentsSeq == IInv => ContentsOK
  <1> SUFFICES ASSUME IInv PROVE ContentsOK
    OBVIOUS
  <1>1. ringbufindex_elements \in Slots
    BY Elements DEF IInv, TypeOK, ringbufindex_elements
  <1>2. \A k \in 1 .. ringbufindex_elements :
            array[(get_ptr + k - 1) % Size] \in Values
    <2> TAKE k \in 1 .. ringbufindex_elements
    <2>1. /\ k - 1 \in 0 .. ringbufindex_elements - 1
          /\ get_ptr + (k - 1) = get_ptr + k - 1
      BY <1>1 DEF Slots, IInv, TypeOK
    <2>2. array[(get_ptr + (k - 1)) % Size] \in Values
      BY <2>1 DEF IInv, CommittedAreFilled
    <2> QED BY <2>1, <2>2
  <1> QED BY <1>1, <1>2 DEF ContentsOK, Contents, Slots

\* The ring buffer is a first-in first-out queue of Size - 1 elements: a put
\* appends what the producer filled, a get removes the oldest element, and
\* no other step of either side changes the queue.
THEOREM RingImplementsFifo == Spec => ImplementsFifo
  <1>1. Init => Fifo!Init
    <2> SUFFICES ASSUME Init PROVE Contents = << >>
      BY DEF Fifo!Init
    <2>1. ringbufindex_elements = 0
      BY SizeFacts, ModSmall DEF Init, ringbufindex_init, ringbufindex_elements
    <2> QED BY <2>1 DEF Contents
  <1>c. IInv' => ContentsOK'
    BY ContentsSeq, PTL
  <1>2. IInv /\ IInv' /\ [Next]_vars => [Fifo!Next]_Contents
    <2> SUFFICES ASSUME IInv, IInv', [Next]_vars
                 PROVE  Fifo!Next \/ Contents' = Contents
      OBVIOUS
    <2>e. ringbufindex_elements \in Slots
      BY ContentsSeq DEF ContentsOK
    <2>s. Contents \in Seq(Values) /\ Len(Contents) = ringbufindex_elements
      BY ContentsSeq DEF ContentsOK
    <2>t. Contents' \in Seq(Values) /\ Len(Contents') = ringbufindex_elements'
      BY <1>c DEF ContentsOK
    <2>1. CASE ProducerPut
      <3>1. /\ put_ptr' = (put_ptr + 1) % Size /\ get_ptr' = get_ptr
            /\ array' = array /\ array[put_ptr] \in Values /\ ~ringbufindex_full
        BY <2>1 DEF ProducerPut, ringbufindex_put, IInv, IndexStillValid, CommittedAreFilled
      <3>2. ringbufindex_elements' = ringbufindex_elements + 1
        BY <3>1, PutAddsOne DEF IInv, TypeOK, ringbufindex_elements, ringbufindex_full
      <3>3. (get_ptr + ringbufindex_elements) % Size = put_ptr
        BY PutPosition DEF IInv, TypeOK, ringbufindex_elements
      <3>4. Contents' = Append(Contents, array[put_ptr])
        <4>1. Contents' = [k \in 1 .. ringbufindex_elements + 1 |->
                               array[(get_ptr + k - 1) % Size]]
          BY <3>1, <3>2 DEF Contents
        <4>2. array[(get_ptr + (ringbufindex_elements + 1) - 1) % Size] = array[put_ptr]
          BY <3>3, <2>e DEF Slots, IInv, TypeOK
        <4>3. /\ Append(Contents, array[put_ptr]) \in Seq(Values)
              /\ Len(Append(Contents, array[put_ptr])) = ringbufindex_elements + 1
              /\ \A k \in 1 .. ringbufindex_elements :
                     Append(Contents, array[put_ptr])[k] = Contents[k]
              /\ Append(Contents, array[put_ptr])[ringbufindex_elements + 1] = array[put_ptr]
          BY <2>s, <3>1, AppendProperties
        <4>4. Append(Contents, array[put_ptr])
                = [k \in 1 .. ringbufindex_elements + 1 |->
                       Append(Contents, array[put_ptr])[k]]
          BY <4>3, <2>e DEF Slots
        <4>5. \A k \in 1 .. ringbufindex_elements + 1 :
                  Append(Contents, array[put_ptr])[k] = array[(get_ptr + k - 1) % Size]
          <5> TAKE k \in 1 .. ringbufindex_elements + 1
          <5>1. CASE k = ringbufindex_elements + 1
            BY <5>1, <4>2, <4>3
          <5>2. CASE k \in 1 .. ringbufindex_elements
            BY <5>2, <4>3 DEF Contents
          <5>3. k \in 1 .. ringbufindex_elements \/ k = ringbufindex_elements + 1
            BY <2>e, SizeFacts DEF Slots
          <5> QED BY <5>1, <5>2, <5>3
        <4> HIDE DEF Contents
        <4> QED BY <4>1, <4>4, <4>5
      <3>5. Len(Contents) < Size - 1
        BY <2>s, <2>e, <3>1, SizeFacts DEF ringbufindex_full, Slots
      <3> QED BY <3>1, <3>4, <3>5 DEF Fifo!Next, Fifo!Enqueue
    <2>2. CASE ConsumerGet
      <3>1. /\ get_ptr' = (get_ptr + 1) % Size /\ put_ptr' = put_ptr
            /\ array' = array /\ ringbufindex_elements > 0
        BY <2>2, <2>e DEF ConsumerGet, ringbufindex_get, IInv, IndexStillValid,
                          ringbufindex_empty, Slots
      <3>2. ringbufindex_elements' = ringbufindex_elements - 1
        BY <3>1, GetTakesOne DEF IInv, TypeOK, ringbufindex_elements
      <3>3. Contents' = [k \in 1 .. ringbufindex_elements - 1 |-> Contents[k + 1]]
        <4>1. ASSUME NEW k \in 1 .. ringbufindex_elements - 1
              PROVE  (get_ptr' + k - 1) % Size = (get_ptr + (k + 1) - 1) % Size
          <5>1. (((get_ptr + 1) % Size) + (k - 1)) % Size = (get_ptr + ((k - 1) + 1)) % Size
            BY PositionAfterGet, <2>e, SizeFacts DEF IInv, TypeOK, Slots
          <5>2. (get_ptr + 1) % Size \in Int /\ get_ptr \in Int
            BY Successor, SizeFacts DEF IInv, TypeOK, Slots
          <5>3. ((get_ptr + 1) % Size) + (k - 1) = get_ptr' + k - 1
            BY <3>1, <5>2
          <5>4. get_ptr + ((k - 1) + 1) = get_ptr + (k + 1) - 1
            BY <5>2
          <5> QED BY <5>1, <5>3, <5>4
        <4> QED BY <2>e, <3>1, <3>2, <4>1 DEF Contents, Slots
      <3>4. Contents # << >> /\ Contents' = Tail(Contents)
        <4>1. Contents # << >>
          BY <2>s, <3>1
        <4>2. /\ Tail(Contents) \in Seq(Values)
              /\ Len(Tail(Contents)) = ringbufindex_elements - 1
              /\ \A k \in 1 .. Len(Tail(Contents)) : Tail(Contents)[k] = Contents[k + 1]
          BY <2>s, <4>1, HeadTailProperties
        <4>3. \A k \in 1 .. Len(Contents') : Contents'[k] = Tail(Contents)[k]
          BY <2>t, <3>2, <3>3, <4>2
        <4> QED BY <2>t, <3>2, <4>1, <4>2, <4>3, SeqEqual
      <3> QED BY <3>4 DEF Fifo!Next, Fifo!Dequeue
    <2>3. CASE ProducerFill
      <3>1. /\ pidx = put_ptr /\ UNCHANGED <<put_ptr, get_ptr>>
            /\ \A i \in Slots : i # put_ptr => array'[i] = array[i]
        BY <2>3 DEF ProducerFill, IInv, TypeOK, IndexStillValid
      <3>2. ASSUME NEW k \in 1 .. ringbufindex_elements
            PROVE  array'[(get_ptr + k - 1) % Size] = array[(get_ptr + k - 1) % Size]
        <4>1. (get_ptr + (k - 1)) % Size # put_ptr
          <5>1. k - 1 \in 0 .. ringbufindex_elements - 1
            BY <2>e DEF Slots
          <5> QED BY <5>1, PutPosition DEF IInv, TypeOK, ringbufindex_elements
        <4>2. get_ptr + (k - 1) = get_ptr + k - 1 /\ get_ptr + k - 1 \in Int
          BY <2>e, SizeFacts DEF IInv, TypeOK, Slots
        <4> QED BY <3>1, <4>1, <4>2, ModInRange
      <3> QED BY <3>1, <3>2 DEF Contents, ringbufindex_elements
    <2>4. CASE ProducerPeek \/ ProducerAbandon \/ ConsumerPeek \/ UNCHANGED vars
      BY <2>4 DEF ProducerPeek, ProducerAbandon, ConsumerPeek, vars, Contents,
                  ringbufindex_elements
    <2> QED BY <2>1, <2>2, <2>3, <2>4 DEF Next
  <1> QED BY <1>1, <1>2, RingSafety, PTL DEF Spec, ImplementsFifo, Fifo!Spec
=============================================================================
