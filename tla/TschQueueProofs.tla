---------------------------- MODULE TschQueueProofs ----------------------------
(***************************************************************************)
(* Proofs about TschQueue for every number of packets, neighbors, links    *)
(* and places in the rings: that no ring overflows, where a packet is, and *)
(* when it is reported.  The types are kept by every step; the rest holds  *)
(* until a tsch_reset comes to the queues in a Tx slot (torn).             *)
(***************************************************************************)
EXTENDS TschQueue, SequenceTheorems, FiniteSetTheorems, TLAPS

-----------------------------------------------------------------------------
(* Sequences and the sets of their elements *)

LEMMA ElementsOf ==
    ASSUME NEW S, NEW s \in Seq(S)
    PROVE  /\ ToSet(s) = {s[i] : i \in 1 .. Len(s)} /\ ToSet(s) \subseteq S
           /\ IsInjective(s) <=> \A i, j \in 1 .. Len(s) : s[i] = s[j] => i = j
  BY DEF ToSet, IsInjective

LEMMA EmptyElements == ToSet(<< >>) = {} /\ IsInjective(<< >>)
  BY DEF ToSet, IsInjective

LEMMA AppendElements ==
    ASSUME NEW S, NEW s \in Seq(S), NEW e \in S
    PROVE  /\ Append(s, e) \in Seq(S) /\ Len(Append(s, e)) = Len(s) + 1
           /\ Append(s, e) # << >>
           /\ s # << >> => Head(Append(s, e)) = Head(s) /\ Tail(Append(s, e)) = Append(Tail(s), e)
           /\ ToSet(Append(s, e)) = ToSet(s) \cup {e}
           /\ IsInjective(s) /\ e \notin ToSet(s) => IsInjective(Append(s, e))
  <1> DEFINE t == Append(s, e)
  <1>1. /\ t \in Seq(S) /\ t # << >> /\ Len(t) = Len(s) + 1
        /\ \A i \in 1 .. Len(s) : t[i] = s[i]
        /\ t[Len(s) + 1] = e
    BY AppendProperties
  <1> HIDE DEF t
  <1>a. /\ ToSet(t) = {t[i] : i \in 1 .. Len(t)}
        /\ IsInjective(t) <=> \A i, j \in 1 .. Len(t) : t[i] = t[j] => i = j
    BY <1>1, ElementsOf
  <1>b. /\ ToSet(s) = {s[i] : i \in 1 .. Len(s)}
        /\ IsInjective(s) <=> \A i, j \in 1 .. Len(s) : s[i] = s[j] => i = j
    BY ElementsOf
  <1>2. ToSet(t) = ToSet(s) \cup {e}
    BY <1>1, <1>a, <1>b
  <1>3. IsInjective(s) /\ e \notin ToSet(s) => IsInjective(t)
    BY <1>1, <1>a, <1>b
  <1>4. s # << >> => Head(t) = Head(s) /\ Tail(t) = Append(Tail(s), e)
    BY HeadTailAppend DEF t
  <1> QED BY <1>1, <1>2, <1>3, <1>4 DEF t

LEMMA TailElements ==
    ASSUME NEW S, NEW s \in Seq(S), s # << >>
    PROVE  /\ Head(s) \in S /\ Head(s) \in ToSet(s)
           /\ Tail(s) \in Seq(S) /\ Len(Tail(s)) = Len(s) - 1
           /\ ToSet(Tail(s)) \subseteq ToSet(s)
           /\ ToSet(s) = ToSet(Tail(s)) \cup {Head(s)}
           /\ IsInjective(s) => IsInjective(Tail(s)) /\ Head(s) \notin ToSet(Tail(s))
  <1> DEFINE t == Tail(s)
  <1>1. /\ t \in Seq(S) /\ Len(t) = Len(s) - 1 /\ Head(s) \in S /\ Head(s) = s[1]
        /\ \A i \in 1 .. Len(t) : t[i] = s[i + 1]
        /\ Len(s) > 0
    BY HeadTailProperties
  <1> HIDE DEF t
  <1>a. /\ ToSet(t) = {t[i] : i \in 1 .. Len(t)}
        /\ IsInjective(t) <=> \A i, j \in 1 .. Len(t) : t[i] = t[j] => i = j
    BY <1>1, ElementsOf
  <1>b. /\ ToSet(s) = {s[i] : i \in 1 .. Len(s)}
        /\ IsInjective(s) <=> \A i, j \in 1 .. Len(s) : s[i] = s[j] => i = j
    BY ElementsOf
  <1>2. ToSet(s) = ToSet(t) \cup {Head(s)}
    <2>1. \A i \in 1 .. Len(s) : i = 1 \/ (i - 1 \in 1 .. Len(t) /\ s[i] = t[i - 1])
      BY <1>1
    <2>2. ASSUME NEW i \in 1 .. Len(s) PROVE s[i] \in ToSet(t) \cup {Head(s)}
      <3>1. CASE i = 1
        BY <1>1, <3>1
      <3>2. CASE i # 1
        BY <1>a, <2>1, <3>2
      <3> QED BY <3>1, <3>2
    <2>5. ToSet(s) \subseteq ToSet(t) \cup {Head(s)}
      BY <1>b, <2>2
    <2>3. \A i \in 1 .. Len(t) : t[i] = s[i + 1] /\ i + 1 \in 1 .. Len(s)
      BY <1>1
    <2>4. ToSet(t) \subseteq ToSet(s) /\ Head(s) \in ToSet(s)
      BY <1>1, <1>a, <1>b, <2>3
    <2> QED BY <2>4, <2>5
  <1>3. IsInjective(s) => IsInjective(t) /\ Head(s) \notin ToSet(t)
    <2> SUFFICES ASSUME \A i, j \in 1 .. Len(s) : s[i] = s[j] => i = j
                 PROVE  IsInjective(t) /\ Head(s) \notin ToSet(t)
      BY <1>b
    <2>1. \A i \in 1 .. Len(t) : t[i] = s[i + 1] /\ i + 1 \in 1 .. Len(s) /\ i + 1 # 1
      BY <1>1
    <2>2. IsInjective(t)
      <3>1. ASSUME NEW i \in 1 .. Len(t), NEW j \in 1 .. Len(t), t[i] = t[j] PROVE i = j
        <4>1. i + 1 = j + 1
          BY <2>1, <3>1
        <4> QED BY <4>1
      <3> QED BY <1>a, <3>1
    <2>3. Head(s) \notin ToSet(t)
      BY <1>1, <1>a, <2>1
    <2> QED BY <2>2, <2>3
  <1> QED BY <1>1, <1>2, <1>3 DEF t

LEMMA RemoveElement ==
    ASSUME NEW S, NEW s \in Seq(S), NEW i \in 1 .. Len(s), IsInjective(s)
    PROVE  /\ RemoveAt(s, i) \in Seq(S) /\ Len(RemoveAt(s, i)) = Len(s) - 1
           /\ ToSet(RemoveAt(s, i)) = ToSet(s) \ {s[i]}
           /\ IsInjective(RemoveAt(s, i))
  <1> DEFINE before == SubSeq(s, 1, i - 1)
             after == SubSeq(s, i + 1, Len(s))
             t == before \o after
  <1>1. before \in Seq(S) /\ Len(before) = i - 1 /\ \A k \in 1 .. i - 1 : before[k] = s[k]
    BY SubSeqProperties
  <1>2. after \in Seq(S) /\ Len(after) = Len(s) - i /\ \A k \in 1 .. Len(s) - i : after[k] = s[k + i]
    BY SubSeqProperties
  <1>3. /\ t \in Seq(S) /\ Len(t) = Len(s) - 1
        /\ \A k \in 1 .. Len(s) - 1 : t[k] = IF k < i THEN s[k] ELSE s[k + 1]
    <2> HIDE DEF before, after
    <2>1. /\ t \in Seq(S) /\ Len(t) = Len(before) + Len(after)
          /\ \A k \in 1 .. Len(before) + Len(after) :
                t[k] = IF k <= Len(before) THEN before[k] ELSE after[k - Len(before)]
      BY <1>1, <1>2, ConcatProperties
    <2> HIDE DEF t
    <2>2. Len(s) \in Nat /\ Len(before) + Len(after) = Len(s) - 1
      BY <1>1, <1>2
    <2>3. ASSUME NEW k \in 1 .. Len(s) - 1 PROVE t[k] = IF k < i THEN s[k] ELSE s[k + 1]
      <3>1. CASE k < i
        BY <1>1, <2>1, <2>2, <3>1
      <3>2. CASE ~(k < i)
        <4>0. k \in 1 .. Len(before) + Len(after) /\ ~(k <= Len(before)) /\ Len(before) = i - 1
          BY <1>1, <2>2, <3>2
        <4>1. t[k] = after[k - (i - 1)] /\ k - (i - 1) \in 1 .. Len(s) - i
          BY <2>1, <2>2, <4>0
        <4>2. (k - (i - 1)) + i = k + 1
          OBVIOUS
        <4> HIDE DEF t, after, before
        <4>3. after[k - (i - 1)] = s[(k - (i - 1)) + i]
          BY <1>2, <4>1
        <4>4. t[k] = s[k + 1]
          BY <4>1, <4>2, <4>3
        <4> QED BY <4>4, <3>2
      <3> QED BY <3>1, <3>2
    <2> QED BY <2>1, <2>2, <2>3
  <1> HIDE DEF t
  <1>a. /\ ToSet(t) = {t[k] : k \in 1 .. Len(t)}
        /\ IsInjective(t) <=> \A k, j \in 1 .. Len(t) : t[k] = t[j] => k = j
    BY <1>3, ElementsOf
  <1>b. /\ ToSet(s) = {s[k] : k \in 1 .. Len(s)}
        /\ \A k, j \in 1 .. Len(s) : s[k] = s[j] => k = j
    BY ElementsOf
  <1>4. ToSet(t) = ToSet(s) \ {s[i]}
    <2>1. \A x \in ToSet(t) : x \in ToSet(s) /\ x # s[i]
      BY <1>3, <1>a, <1>b
    <2>2. ASSUME NEW k \in 1 .. Len(s), s[k] # s[i]
          PROVE  s[k] \in ToSet(t)
      <3>1. k < i => k \in 1 .. Len(t) /\ t[k] = s[k]
        BY <1>3, <2>2
      <3>2. k > i => k - 1 \in 1 .. Len(t) /\ t[k - 1] = s[k]
        BY <1>3, <2>2
      <3> QED BY <1>a, <2>2, <3>1, <3>2
    <2> QED BY <1>b, <2>1, <2>2
  <1>5. IsInjective(t)
    BY <1>3, <1>a, <1>b
  <1> QED BY <1>3, <1>4, <1>5 DEF t, RemoveAt

LEMMA SequenceOfSet ==
    ASSUME NEW S, IsFiniteSet(S)
    PROVE  /\ SetToSeq(S) \in Seq(S) /\ Len(SetToSeq(S)) = Cardinality(S)
           /\ Cardinality(S) \in Nat
           /\ IsInjective(SetToSeq(S))
  <1>1. Cardinality(S) \in Nat /\ \E f \in [1 .. Cardinality(S) -> S] : IsInjective(f)
    BY FS_CardinalityType DEF ExistsBijection, Bijection, Injection
  <1>2. SetToSeq(S) \in [1 .. Cardinality(S) -> S] /\ IsInjective(SetToSeq(S))
    BY <1>1 DEF SetToSeq
  <1>3. SetToSeq(S) \in Seq(S) /\ DOMAIN SetToSeq(S) = 1 .. Cardinality(S)
    BY <1>1, <1>2, IsASeq
  <1> QED BY <1>1, <1>2, <1>3, LenProperties

LEMMA LeastNumber ==
    ASSUME NEW I \in SUBSET Nat, I # {}
    PROVE  Min(I) \in I /\ \A i \in I : Min(I) <= i
  <1> DEFINE R == {ss \in Nat \X Nat : ss[1] < ss[2]}
  <1>1. IsWellFoundedOn(R, Nat)
    BY NatLessThanWellFounded DEF OpToRel
  <1>2. PICK x \in I : \A y \in I : ~(<<y, x>> \in R)
    <2> HIDE DEF R
    <2> QED BY <1>1, WFMin
  <1>3. \A y \in I : y < x => <<y, x>> \in R
    OBVIOUS
  <1> HIDE DEF R
  <1>4. \A y \in I : ~(y < x)
    BY <1>2, <1>3, Zenon
  <1>5. \A y \in I : x <= y
    BY <1>4
  <1> QED BY <1>5 DEF Min

-----------------------------------------------------------------------------
(* The inductive invariant *)

NbrType == [tx_ringbuf : Seq(Packets), backoff_window : 0 .. 2^TSCH_MAC_MAX_BE,
            backoff_exponent : TSCH_MAC_MIN_BE .. TSCH_MAC_MAX_BE]
PacketType == [used : BOOLEAN, dest : Addrs \cup {None}, transmissions : Nat, max : Nat,
               ret : Status]

Queue(a) == nbr[a].tx_ringbuf

\* tsch_reset flushes only after the node has left the network
ControlTypes == /\ net \in {"joined", "leaving", "resetting", "scanning"}
                /\ pc \in {"idle", "pending", "reported", "freed", "get", "flush", "flushed"}
                /\ slot \in BOOLEAN
                /\ pc \in {"flush", "flushed"} => net = "resetting"
                /\ time_source \in TimeSources \cup {None}
                /\ mac_tx_status \in Status

ListTypes == /\ neighbor_list \in Seq(Addrs) /\ IsInjective(neighbor_list)
             /\ Len(neighbor_list) <= MaxNbrs

NbrTypes == nbr \in [Addrs -> NbrType] /\ \A a \in Addrs : Len(Queue(a)) <= QueueSize

PacketTypes == packet \in [Packets -> PacketType]

\* The slot in progress has its place in the ring, and what is being handled
\* is still in it
RingTypes == /\ dequeued_ringbuf \in Seq(Packets)
             /\ Len(dequeued_ringbuf) <= DequeuedSize
             /\ slot => Len(dequeued_ringbuf) < DequeuedSize
             /\ pc \in {"reported", "freed", "get"} => dequeued_ringbuf # << >>

SlotTypes == slot => current_neighbor \in Addrs /\ current_packet \in Packets

\* What holds whatever happens: no step needs more than this to keep it
TypeInv == ControlTypes /\ ListTypes /\ NbrTypes /\ PacketTypes /\ RingTypes /\ SlotTypes

\* The queues are flushed with no slot in progress and nothing left to report
ResetQuiet == /\ pc \in {"flush", "flushed"} => ~slot
              /\ pc = "flush" => dequeued_ringbuf = << >>

Attempts == \A p \in Packets : packet[p].transmissions <= packet[p].max

QueuesOfKnown ==
    \A a \in Addrs : IsInjective(Queue(a)) /\ (Queue(a) # << >> => Known(a))

\* OnePlace, packet by packet; a packet in a queue has an attempt left
Places ==
    /\ IsInjective(Dequeued)
    /\ \A p \in ToSet(Dequeued) : /\ packet[p].used /\ packet[p].dest \in Addrs
                                 /\ \A a \in Addrs : p \notin ToSet(Queue(a))
    /\ \A a \in Addrs : \A p \in ToSet(Queue(a)) :
           /\ packet[p].used /\ packet[p].dest = a
           /\ packet[p].transmissions < packet[p].max
    /\ \A p \in Packets : packet[p].used =>
           p \in ToSet(Dequeued) \/ \E a \in Addrs : packet[p].dest = a /\ p \in ToSet(Queue(a))

\* During a Tx slot the neighbor and the packet it works on, which it took
\* before it yielded, are still there: the neighbor in the list, the packet
\* the first of its queue.
CurrentIsHead ==
    slot => /\ Known(current_neighbor)
            /\ nbr[current_neighbor].tx_ringbuf # << >>
            /\ Head(nbr[current_neighbor].tx_ringbuf) = current_packet

\* What holds as long as no reset has come to the queues in a Tx slot
IInv == TypeInv /\ ResetQuiet /\ Attempts /\ QueuesOfKnown /\ Places /\ CurrentIsHead

Inv == TypeInv /\ (~torn => IInv)

LEMMA Constants ==
    /\ QueueSize \in Nat /\ DequeuedSize \in Nat /\ MaxNbrs \in Nat /\ MaxTransmissions \in Nat
    /\ MaxTransmissions > 0
    /\ TSCH_MAC_MIN_BE \in Nat /\ TSCH_MAC_MAX_BE \in Nat /\ TSCH_MAC_MIN_BE <= TSCH_MAC_MAX_BE
    /\ EB # Broadcast /\ EB \notin Unicast /\ Broadcast \notin Unicast
    /\ TimeSources \subseteq Unicast /\ IsFiniteSet(Unicast)
    /\ 2^TSCH_MAC_MAX_BE \in Nat
  BY QueueAssumption, PowerAssumption

LEMMA QueueType == NbrTypes => \A a \in Addrs : nbr[a] \in NbrType /\ Queue(a) \in Seq(Packets)
  BY DEF NbrTypes, NbrType, Queue

LEMMA NewNbrType == NewNbr \in NbrType /\ NewNbr.tx_ringbuf = << >>
  BY Constants DEF NewNbr, NbrType

LEMMA FreePacketType == FreePacket \in PacketType
  BY DEF FreePacket, PacketType, Status

LEMMA FreedType ==
    ASSUME NEW cell \in PacketType
    PROVE  Freed(cell) \in PacketType /\ (~torn => Freed(cell) = FreePacket)
  <1>1. cell.transmissions \in Nat /\ cell.max \in Nat
    BY DEF PacketType
  <1>2. [FreePacket EXCEPT !.transmissions = cell.transmissions, !.max = cell.max] \in PacketType
    BY <1>1 DEF FreePacket, PacketType, Status
  <1> QED BY <1>2, FreePacketType DEF Freed

LEMMA DequeuedType == RingTypes => /\ Dequeued \in Seq(Packets)
                                   /\ ToSet(Dequeued) \subseteq ToSet(dequeued_ringbuf)
                                   /\ ToSet(Dequeued) \subseteq Packets
  BY TailElements, ElementsOf DEF RingTypes, Dequeued

LEMMA InitIInv == Init => IInv
  <1> SUFFICES ASSUME Init PROVE IInv
    OBVIOUS
  <1> USE DEF Init
  <1>1. ControlTypes /\ SlotTypes /\ ResetQuiet /\ CurrentIsHead
    BY DEF ControlTypes, SlotTypes, ResetQuiet, CurrentIsHead, Status
  <1>2. ListTypes
    <2>1. Linked \subseteq Unicast /\ IsFiniteSet(Linked)
      BY Constants, FS_Subset DEF Linked
    <2> DEFINE t == SetToSeq(Linked)
               h == <<EB, Broadcast>>
    <2>2. t \in Seq(Linked) /\ Len(t) = Cardinality(Linked) /\ Cardinality(Linked) \in Nat
          /\ IsInjective(t)
      BY <2>1, SequenceOfSet
    <2>3. h \in Seq(Addrs) /\ Len(h) = 2 /\ h[1] = EB /\ h[2] = Broadcast
      BY DEF Addrs
    <2> HIDE DEF t, h
    <2>4. t \in Seq(Addrs) /\ \A i \in 1 .. Len(t) : t[i] \in Unicast
      BY <2>1, <2>2 DEF Addrs
    <2>5. /\ h \o t \in Seq(Addrs) /\ Len(h \o t) = Len(h) + Len(t)
          /\ \A i \in 1 .. Len(h) + Len(t) : (h \o t)[i] = IF i <= Len(h) THEN h[i] ELSE t[i - Len(h)]
      BY <2>3, <2>4, ConcatProperties
    <2>6. \A i, j \in 1 .. Len(t) : t[i] = t[j] => i = j
      BY <2>2, ElementsOf
    <2>7. IsInjective(h \o t)
      <3> SUFFICES ASSUME NEW i \in 1 .. 2 + Len(t), NEW j \in 1 .. 2 + Len(t),
                          (h \o t)[i] = (h \o t)[j]
                   PROVE  i = j
        BY <2>3, <2>5, ElementsOf
      <3> QED BY <2>2, <2>3, <2>4, <2>5, <2>6, Constants
    <2>8. Len(h \o t) <= MaxNbrs
      BY <2>2, <2>3, <2>5, LinkedAssumption
    <2> QED BY <2>5, <2>7, <2>8 DEF ListTypes, t, h
  <1>3. NbrTypes /\ (\A a \in Addrs : Queue(a) = << >>)
    <2>1. \A a \in Addrs : nbr[a] = NewNbr
      OBVIOUS
    <2>2. nbr \in [Addrs -> NbrType]
      BY <2>1, NewNbrType
    <2> QED BY <2>1, <2>2, NewNbrType, Constants DEF NbrTypes, Queue
  <1>4. PacketTypes /\ Attempts /\ RingTypes /\ Dequeued = << >>
    BY FreePacketType, Constants DEF PacketTypes, Attempts, RingTypes, Dequeued, FreePacket
  <1>5. QueuesOfKnown
    BY <1>3, EmptyElements DEF QueuesOfKnown
  <1>6. Places
    BY <1>3, <1>4, EmptyElements DEF Places, FreePacket
  <1> QED BY <1>1, <1>2, <1>3, <1>4, <1>5, <1>6 DEF IInv, TypeInv

-----------------------------------------------------------------------------
(* Every step keeps the types *)

\* Steps of the processes that only move the control
Moves == \/ tsch_disassociate \/ HandlePoll \/ Callback \/ NeighborsFreed \/ PendingDone
         \/ StartReset \/ FinishReset \/ UNCHANGED vars

LEMMA MovesType == TypeInv /\ Moves => TypeInv'
  <1> SUFFICES ASSUME TypeInv, Moves PROVE TypeInv'
    OBVIOUS
  <1> USE DEF Moves, tsch_disassociate, HandlePoll, Callback, NeighborsFreed, PendingDone,
              StartReset, FinishReset, vars, poolVars, isrVars
  <1>1. ControlTypes'
    BY DEF TypeInv, ControlTypes
  <1>2. RingTypes' /\ SlotTypes'
    BY DEF TypeInv, RingTypes, SlotTypes
  <1>3. ListTypes' /\ NbrTypes' /\ PacketTypes'
    BY DEF TypeInv, ListTypes, NbrTypes, PacketTypes, Queue
  <1> QED BY <1>1, <1>2, <1>3 DEF TypeInv

LEMMA AddNbr ==
    ASSUME ListTypes, NEW a \in Addrs, CanAdd(a), neighbor_list' = tsch_queue_add_nbr(a)
    PROVE  ListTypes' /\ Known(a)' /\ \A b : Known(b) => Known(b)'
  <1>1. CASE Known(a)
    BY <1>1 DEF tsch_queue_add_nbr, ListTypes, Known
  <1>2. CASE ~Known(a)
    <2>1. neighbor_list' = Append(neighbor_list, a) /\ Len(neighbor_list) < MaxNbrs
      BY <1>2 DEF tsch_queue_add_nbr, CanAdd
    <2>2. neighbor_list \in Seq(Addrs) /\ IsInjective(neighbor_list) /\ a \notin ToSet(neighbor_list)
      BY <1>2 DEF ListTypes, Known
    <2>3. /\ neighbor_list' \in Seq(Addrs) /\ Len(neighbor_list') = Len(neighbor_list) + 1
          /\ ToSet(neighbor_list') = ToSet(neighbor_list) \cup {a} /\ IsInjective(neighbor_list')
      BY <2>1, <2>2, AppendElements
    <2> QED BY <2>1, <2>2, <2>3, Constants DEF ListTypes, Known
  <1> QED BY <1>1, <1>2

\* tsch_queue_update_time_source and tsch_associate
LEMMA TimeSourceType ==
    ASSUME TypeInv, NEW a \in TimeSources, tsch_queue_update_time_source(a) \/ tsch_associate(a)
    PROVE  TypeInv' /\ \A b : Known(b) => Known(b)'
  <1> USE DEF tsch_queue_update_time_source, tsch_associate, isrVars
  <1>1. ControlTypes'
    BY DEF TypeInv, ControlTypes
  <1>2. RingTypes' /\ SlotTypes'
    BY DEF TypeInv, RingTypes, SlotTypes
  <1>3. ListTypes' /\ \A b : Known(b) => Known(b)'
    <2>1. a \in Addrs /\ ListTypes /\ CanAdd(a) /\ neighbor_list' = tsch_queue_add_nbr(a)
      BY Constants DEF Addrs, TypeInv
    <2> QED BY <2>1, AddNbr
  <1>4. NbrTypes' /\ PacketTypes'
    BY DEF TypeInv, NbrTypes, PacketTypes, Queue
  <1> QED BY <1>1, <1>2, <1>3, <1>4 DEF TypeInv

\* The neighbor that goes has nothing in its queue
LEMMA FreeNeighborType ==
    ASSUME TypeInv, FreeNeighbor
    PROVE  /\ TypeInv' /\ \A b \in Addrs : Queue(b)' = Queue(b)
           /\ \A b \in Addrs : Known(b) /\ Queue(b) # << >> => Known(b)'
  <1> DEFINE I == {k \in 1 .. Len(neighbor_list) : Unused(neighbor_list[k])}
             i == Min(I)
             a == neighbor_list[i]
  <1>1. I # {} /\ SelectInSeq(neighbor_list, Unused) = i
    BY DEF FreeNeighbor, SelectInSeq
  <1>2. i \in I
    <2>1. I \in SUBSET Nat
      OBVIOUS
    <2> HIDE DEF I
    <2> QED BY <1>1, <2>1, LeastNumber
  <1> HIDE DEF i
  <1>3. i \in 1 .. Len(neighbor_list) /\ a \in Addrs /\ Queue(a) = << >>
    BY <1>2 DEF Unused, Queue, TypeInv, ListTypes
  <1>4. UNCHANGED <<net, time_source, packet, dequeued_ringbuf, isrVars, pc>>
    BY DEF FreeNeighbor
  <1>5. neighbor_list' = RemoveAt(neighbor_list, i) /\ nbr' = [nbr EXCEPT ![a] = NewNbr]
    BY <1>1 DEF FreeNeighbor
  <1>6. ListTypes' /\ \A b : Known(b) /\ b # a => Known(b)'
    BY <1>3, <1>5, RemoveElement, Constants DEF TypeInv, ListTypes, Known
  <1>7. NbrTypes' /\ \A b \in Addrs : Queue(b)' = Queue(b)
    <2>1. nbr \in [Addrs -> NbrType]
      BY DEF TypeInv, NbrTypes
    <2>2. nbr' \in [Addrs -> NbrType]
      BY <1>3, <1>5, <2>1, NewNbrType
    <2>3. \A b \in Addrs : Queue(b)' = Queue(b)
      BY <1>3, <1>5, <2>1, NewNbrType DEF Queue
    <2> QED BY <2>2, <2>3 DEF TypeInv, NbrTypes
  <1>8. ControlTypes' /\ RingTypes' /\ PacketTypes' /\ SlotTypes'
    BY <1>4 DEF TypeInv, ControlTypes, RingTypes, PacketTypes, SlotTypes, isrVars
  <1> QED BY <1>3, <1>6, <1>7, <1>8 DEF TypeInv

LEMMA EnqueueType ==
    ASSUME TypeInv, NEW a \in Addrs, NEW max \in Nat, Enqueue(a, max)
    PROVE  /\ TypeInv' /\ Known(a)' /\ \A b : Known(b) => Known(b)'
           /\ \/ UNCHANGED <<nbr, packet>>
              \/ \E p \in Packets :
                    /\ ~packet[p].used
                    /\ packet' = [packet EXCEPT ![p] =
                                      [FreePacket EXCEPT !.used = TRUE, !.dest = a, !.max = max]]
                    /\ Queue(a)' = Append(Queue(a), p)
                    /\ \A b \in Addrs : b # a => Queue(b)' = Queue(b)
  <1> DEFINE free == {p \in Packets : ~packet[p].used}
             full == Len(nbr[a].tx_ringbuf) = QueueSize \/ free = {}
             p == CHOOSE p \in free : TRUE
             new == [FreePacket EXCEPT !.used = TRUE, !.dest = a, !.max = max]
  <1>1. ListTypes' /\ Known(a)' /\ \A b : Known(b) => Known(b)'
    BY AddNbr DEF TypeInv, Enqueue
  <1>2. UNCHANGED <<net, time_source, dequeued_ringbuf, isrVars, pc>>
    BY DEF Enqueue
  <1>3. ControlTypes' /\ RingTypes' /\ SlotTypes'
    BY <1>2 DEF TypeInv, ControlTypes, RingTypes, SlotTypes, isrVars
  <1>4. CASE full
    <2>1. UNCHANGED <<nbr, packet>>
      BY <1>4 DEF Enqueue
    <2>2. NbrTypes' /\ PacketTypes'
      BY <2>1 DEF TypeInv, NbrTypes, PacketTypes, Queue
    <2> QED BY <1>1, <1>3, <2>1, <2>2 DEF TypeInv
  <1>5. CASE ~full
    <2>1. /\ packet' = [packet EXCEPT ![p] = new]
          /\ nbr' = [nbr EXCEPT ![a].tx_ringbuf = Append(@, p)]
      BY <1>5 DEF Enqueue
    <2>2. p \in Packets /\ ~packet[p].used /\ Len(Queue(a)) # QueueSize
      BY <1>5 DEF Queue
    <2> HIDE DEF p
    <2>3. new \in PacketType
      BY DEF FreePacket, PacketType, Status
    <2>4. PacketTypes'
      BY <2>1, <2>2, <2>3 DEF TypeInv, PacketTypes
    <2>6. nbr[a] \in NbrType /\ Queue(a) \in Seq(Packets) /\ nbr \in [Addrs -> NbrType]
          /\ Len(Queue(a)) <= QueueSize
      BY QueueType DEF TypeInv, NbrTypes
    <2>8. Append(Queue(a), p) \in Seq(Packets) /\ Len(Append(Queue(a), p)) = Len(Queue(a)) + 1
      BY <2>2, <2>6, AppendElements
    <2>9. /\ nbr' \in [Addrs -> NbrType] /\ Queue(a)' = Append(Queue(a), p)
          /\ \A b \in Addrs : b # a => Queue(b)' = Queue(b)
      BY <2>1, <2>6, <2>8 DEF NbrType, Queue
    <2>10. NbrTypes'
      BY <2>2, <2>6, <2>8, <2>9, Constants DEF TypeInv, NbrTypes
    <2>11. TypeInv'
      BY <1>1, <1>3, <2>4, <2>10 DEF TypeInv
    <2> HIDE DEF new
    <2>12. \E r \in Packets : /\ ~packet[r].used /\ packet' = [packet EXCEPT ![r] = new]
                              /\ Queue(a)' = Append(Queue(a), r)
                              /\ \A b \in Addrs : b # a => Queue(b)' = Queue(b)
      BY <2>1, <2>2, <2>9
    <2> QED BY <1>1, <2>11, <2>12 DEF new
  <1> QED BY <1>4, <1>5

LEMMA FreeReportedType ==
    ASSUME TypeInv, FreeReported
    PROVE  /\ TypeInv' /\ dequeued_ringbuf # << >> /\ Head(dequeued_ringbuf) \in Packets
           /\ packet' = [packet EXCEPT ![Head(dequeued_ringbuf)] = Freed(@)]
  <1> DEFINE p == Head(dequeued_ringbuf)
  <1>1. /\ pc = "reported" /\ pc' = "freed" /\ packet' = [packet EXCEPT ![p] = Freed(@)]
        /\ UNCHANGED <<net, neighbor_list, nbr, time_source, dequeued_ringbuf, isrVars>>
    BY DEF FreeReported
  <1>2. dequeued_ringbuf \in Seq(Packets) /\ dequeued_ringbuf # << >> /\ p \in Packets
    BY <1>1, TailElements DEF TypeInv, RingTypes
  <1> HIDE DEF p
  <1>3. ControlTypes' /\ RingTypes' /\ ListTypes' /\ NbrTypes' /\ SlotTypes'
    BY <1>1, <1>2 DEF TypeInv, ControlTypes, RingTypes, ListTypes, NbrTypes, SlotTypes, Queue, isrVars
  <1>4. PacketTypes'
    BY <1>1, <1>2, FreedType DEF TypeInv, PacketTypes
  <1> QED BY <1>1, <1>2, <1>3, <1>4 DEF TypeInv, p

LEMMA GetDequeuedType == TypeInv /\ GetDequeued => TypeInv'
  <1> SUFFICES ASSUME TypeInv, GetDequeued PROVE TypeInv'
    OBVIOUS
  <1>1. /\ pc = "get" /\ pc' = "pending" /\ dequeued_ringbuf' = Tail(dequeued_ringbuf)
        /\ UNCHANGED <<net, neighbor_list, nbr, time_source, packet, isrVars>>
    BY DEF GetDequeued
  <1>2. ControlTypes' /\ ListTypes' /\ NbrTypes' /\ PacketTypes' /\ SlotTypes'
    BY <1>1 DEF TypeInv, ControlTypes, ListTypes, NbrTypes, PacketTypes, SlotTypes, Queue, isrVars
  <1>3. RingTypes'
    BY <1>1, TailElements, Constants DEF TypeInv, RingTypes, isrVars
  <1> QED BY <1>2, <1>3 DEF TypeInv

LEMMA FlushPacketType ==
    ASSUME TypeInv, NEW a \in Addrs, FlushPacket(a)
    PROVE  /\ TypeInv' /\ Queue(a) # << >> /\ Head(Queue(a)) \in Packets
           /\ packet' = [packet EXCEPT ![Head(Queue(a))] = Freed(@)]
           /\ Queue(a)' = Tail(Queue(a)) /\ \A b \in Addrs : b # a => Queue(b)' = Queue(b)
  <1> DEFINE p == Head(Queue(a))
  <1>1. /\ Queue(a) # << >>
        /\ nbr' = [nbr EXCEPT ![a].tx_ringbuf = Tail(@)] /\ packet' = [packet EXCEPT ![p] = Freed(@)]
        /\ UNCHANGED <<net, neighbor_list, time_source, dequeued_ringbuf, isrVars, pc>>
    BY DEF FlushPacket, Queue
  <1>2. /\ nbr \in [Addrs -> NbrType] /\ nbr[a] \in NbrType /\ Queue(a) \in Seq(Packets)
        /\ Len(Queue(a)) <= QueueSize
    BY QueueType DEF TypeInv, NbrTypes
  <1>3. /\ p \in Packets /\ Tail(Queue(a)) \in Seq(Packets) /\ Len(Tail(Queue(a))) = Len(Queue(a)) - 1
    BY <1>1, <1>2, TailElements
  <1> HIDE DEF p
  <1>4. /\ nbr' \in [Addrs -> NbrType] /\ Queue(a)' = Tail(Queue(a))
        /\ \A b \in Addrs : b # a => Queue(b)' = Queue(b)
    BY <1>1, <1>2, <1>3 DEF NbrType, Queue
  <1>5. NbrTypes'
    BY <1>2, <1>3, <1>4, Constants DEF TypeInv, NbrTypes
  <1>6. ControlTypes' /\ RingTypes' /\ ListTypes' /\ SlotTypes'
    BY <1>1 DEF TypeInv, ControlTypes, RingTypes, ListTypes, SlotTypes, isrVars
  <1>7. PacketTypes'
    BY <1>1, <1>3, FreedType DEF TypeInv, PacketTypes
  <1> QED BY <1>1, <1>3, <1>4, <1>5, <1>6, <1>7 DEF TypeInv, p

LEMMA QueuesFlushedType == TypeInv /\ QueuesFlushed => TypeInv' /\ \A a \in Addrs : Queue(a)' = << >>
  <1> SUFFICES ASSUME TypeInv, QueuesFlushed PROVE TypeInv' /\ \A a \in Addrs : Queue(a)' = << >>
    OBVIOUS
  <1>1. /\ pc = "flush" /\ pc' = "flushed" /\ nbr' = [a \in Addrs |-> NewNbr]
        /\ UNCHANGED <<net, neighbor_list, time_source, packet, dequeued_ringbuf, isrVars>>
    BY DEF QueuesFlushed
  <1>2. \A a \in Addrs : Queue(a)' = << >>
    BY <1>1, NewNbrType DEF Queue
  <1>3. NbrTypes'
    <2>1. nbr' \in [Addrs -> NbrType]
      BY <1>1, NewNbrType
    <2>2. \A a \in Addrs : Len(Queue(a)') = 0
      BY <1>2
    <2> QED BY <2>1, <2>2, Constants DEF NbrTypes
  <1>4. ControlTypes' /\ RingTypes' /\ ListTypes' /\ PacketTypes' /\ SlotTypes'
    BY <1>1 DEF TypeInv, ControlTypes, RingTypes, ListTypes, PacketTypes, SlotTypes, isrVars
  <1> QED BY <1>2, <1>3, <1>4 DEF TypeInv

-----------------------------------------------------------------------------
(* Every step of the slot operation keeps the types *)

\* What goes out over a link is the first packet of a neighbor in the list
LEMMA NeighborForLinkHasPacket ==
    ASSUME ListTypes, NEW l, NeighborForLink(l) # None
    PROVE  LET a == NeighborForLink(l) IN a \in Addrs /\ Known(a) /\ Queue(a) # << >>
  <1>1. ASSUME NEW a, tsch_queue_get_packet_for_nbr(a, l) # None
        PROVE  a \in Addrs /\ Known(a) /\ Queue(a) # << >>
    <2>1. Known(a) /\ Queue(a) # << >>
      BY <1>1 DEF tsch_queue_get_packet_for_nbr, Queue
    <2> QED BY <2>1, ElementsOf DEF Known, ListTypes
  <1> DEFINE any == tsch_queue_get_unicast_packet_for_any(l)
  <1>2. ASSUME any # None
        PROVE  tsch_queue_get_packet_for_nbr(any, l) # None
    <2> DEFINE I == {k \in 1 .. Len(neighbor_list) :
                        /\ ~is_broadcast(neighbor_list[k])
                        /\ tx_links_count(neighbor_list[k]) = 0
                        /\ tsch_queue_get_packet_for_nbr(neighbor_list[k], l) # None}
    <2>1. I # {} /\ any = neighbor_list[Min(I)]
      <3>1. I = {} => any = None
        BY DEF tsch_queue_get_unicast_packet_for_any, SelectInSeq
      <3>2. I \in SUBSET Nat /\ 0 \notin I
        OBVIOUS
      <3>3. I # {} => Min(I) # 0
        <4> HIDE DEF I
        <4> QED BY <3>2, LeastNumber
      <3>4. I # {} => any = neighbor_list[Min(I)]
        <4> SUFFICES ASSUME I # {} PROVE any = neighbor_list[Min(I)]
          OBVIOUS
        <4> DEFINE j == SelectInSeq(neighbor_list, LAMBDA a : /\ ~is_broadcast(a)
                                       /\ tx_links_count(a) = 0
                                       /\ tsch_queue_get_packet_for_nbr(a, l) # None)
        <4>1. j = Min(I)
          BY DEF SelectInSeq
        <4>2. any = IF j = 0 THEN None ELSE neighbor_list[j]
          BY DEF tsch_queue_get_unicast_packet_for_any
        <4> HIDE DEF I, j, any
        <4> QED BY <3>3, <4>1, <4>2
      <3> QED BY <1>2, <3>1, <3>4
    <2>2. Min(I) \in I
      BY <2>1, LeastNumber
    <2> QED BY <2>1, <2>2
  <1>3. tsch_queue_get_packet_for_nbr(NeighborForLink(l), l) # None
    BY <1>2 DEF NeighborForLink
  <1> QED BY <1>1, <1>3

LEMMA BackoffWindows ==
    ASSUME NEW l, NEW c \in [Addrs -> NbrType]
    PROVE  LET d == UpdateBackoffWindows(l, c)
           IN  d \in [Addrs -> NbrType] /\ \A a \in Addrs : d[a].tx_ringbuf = c[a].tx_ringbuf
  <1>1. ASSUME NEW a \in Addrs, c[a].backoff_window # 0
        PROVE  LET n == [c[a] EXCEPT !.backoff_window = @ - 1]
               IN  n \in NbrType /\ n.tx_ringbuf = c[a].tx_ringbuf
    <2>1. c[a] \in NbrType
      OBVIOUS
    <2>2. c[a].backoff_window - 1 \in 0 .. 2^TSCH_MAC_MAX_BE
      BY <1>1, <2>1, Constants DEF NbrType
    <2> QED BY <2>1, <2>2 DEF NbrType
  <1> QED BY <1>1 DEF UpdateBackoffWindows

LEMMA SlotEnds ==
    ASSUME NEW l, NEW c \in [Addrs -> NbrType], NEW synced \in BOOLEAN, EndOfSlot(l, c, synced)
    PROVE  /\ nbr' \in [Addrs -> NbrType]
           /\ \A a \in Addrs : Queue(a)' = c[a].tx_ringbuf
           /\ net' = net \/ (net = "joined" /\ net' = "leaving")
  <1>1. nbr' = c \/ nbr' = UpdateBackoffWindows(l, c)
    BY DEF EndOfSlot
  <1>2. nbr' \in [Addrs -> NbrType] /\ \A a \in Addrs : nbr'[a].tx_ringbuf = c[a].tx_ringbuf
    BY <1>1, BackoffWindows
  <1>3. net' = net \/ (net = "joined" /\ net' = "leaving")
    BY DEF EndOfSlot
  <1> QED BY <1>2, <1>3 DEF Queue

LEMMA AfterTxType ==
    ASSUME NbrTypes, NEW a \in Addrs, NEW shared, NEW status, NEW q \in Seq(Packets),
           NEW n \in AfterTx(a, shared, status, q)
    PROVE  n \in NbrType /\ n.tx_ringbuf = q
  <1> DEFINE m == [nbr[a] EXCEPT !.tx_ringbuf = q]
  <1>1. nbr[a] \in NbrType
    BY QueueType
  <1>2. m \in NbrType /\ m.tx_ringbuf = q
    BY <1>1 DEF NbrType
  <1>3. n = m \/ n = BackoffReset(m) \/ n \in BackoffInc(m)
    BY DEF AfterTx
  <1> HIDE DEF m
  <1>4. BackoffReset(m) \in NbrType /\ BackoffReset(m).tx_ringbuf = q
    <2> DEFINE r == [m EXCEPT !.backoff_window = 0]
    <2>1. 0 \in 0 .. 2^TSCH_MAC_MAX_BE /\ TSCH_MAC_MIN_BE \in TSCH_MAC_MIN_BE .. TSCH_MAC_MAX_BE
      BY Constants
    <2>2. r \in NbrType /\ r.tx_ringbuf = q
      BY <1>2, <2>1 DEF NbrType
    <2> HIDE DEF r
    <2>3. [r EXCEPT !.backoff_exponent = TSCH_MAC_MIN_BE] \in NbrType
          /\ [r EXCEPT !.backoff_exponent = TSCH_MAC_MIN_BE].tx_ringbuf = q
      BY <2>1, <2>2 DEF NbrType
    <2> QED BY <2>3 DEF BackoffReset, r
  <1>5. ASSUME n \in BackoffInc(m)
        PROVE  n \in NbrType /\ n.tx_ringbuf = q
    <2> DEFINE pair == {m.backoff_exponent + 1, TSCH_MAC_MAX_BE}
               be == Min(pair)
    <2>1. PICK w \in 0 .. 2^be - 1 :
              n = [m EXCEPT !.backoff_exponent = be, !.backoff_window = w + 1]
      BY <1>5 DEF BackoffInc
    <2>2. m.backoff_exponent \in TSCH_MAC_MIN_BE .. TSCH_MAC_MAX_BE
      BY <1>2 DEF NbrType
    <2>3. pair \in SUBSET Nat /\ pair # {}
      BY <2>2, Constants
    <2>4. be \in pair /\ \A x \in pair : be <= x
      BY <2>3, LeastNumber
    <2>5. be \in TSCH_MAC_MIN_BE .. TSCH_MAC_MAX_BE
      BY <2>2, <2>4, Constants
    <2> HIDE DEF be
    <2>6. 2^be \in Nat /\ 2^be <= 2^TSCH_MAC_MAX_BE
      BY <2>5, PowerAssumption, Constants
    <2>7. w + 1 \in 0 .. 2^TSCH_MAC_MAX_BE
      BY <2>6, Constants
    <2> QED BY <1>2, <2>1, <2>5, <2>7 DEF NbrType
  <1> QED BY <1>2, <1>3, <1>4, <1>5

\* What the end of tsch_tx_slot does to the queues: the one of its neighbor
\* loses its first packet if the attempt was the last
LEMMA PostTxQueues ==
    ASSUME NbrTypes, NEW a \in Addrs, NEW p, NEW l, NEW shared, NEW status,
           NEW synced \in BOOLEAN, PostTx(l, shared, a, p, status, synced)
    PROVE  /\ nbr' \in [Addrs -> NbrType]
           /\ Queue(a)' \in QueuesAfter(Queue(a), p, Done(p, status))
           /\ Queue(a)' = Queue(a) \/ (Queue(a) # << >> /\ Queue(a)' = Tail(Queue(a)))
           /\ \A b \in Addrs : b # a => Queue(b)' = Queue(b)
           /\ net' = net \/ (net = "joined" /\ net' = "leaving")
  <1> DEFINE done == Done(p, status)
  <1>1. PICK q \in QueuesAfter(Queue(a), p, done) :
            \E n \in AfterTx(a, shared, status, q) : EndOfSlot(l, [nbr EXCEPT ![a] = n], synced)
    BY DEF PostTx, Queue
  <1>2. q = Queue(a) \/ (Queue(a) # << >> /\ q = Tail(Queue(a)))
    BY <1>1 DEF QueuesAfter
  <1>3. q \in Seq(Packets)
    BY <1>2, QueueType, TailElements
  <1>4. PICK n \in AfterTx(a, shared, status, q) : EndOfSlot(l, [nbr EXCEPT ![a] = n], synced)
    BY <1>1
  <1>5. n \in NbrType /\ n.tx_ringbuf = q
    BY <1>3, <1>4, AfterTxType
  <1> DEFINE c == [nbr EXCEPT ![a] = n]
  <1>6. /\ c \in [Addrs -> NbrType] /\ c[a].tx_ringbuf = q
        /\ \A b \in Addrs : b # a => c[b].tx_ringbuf = Queue(b)
    BY <1>5 DEF NbrTypes, Queue
  <1> HIDE DEF c
  <1>7. EndOfSlot(l, c, synced)
    BY <1>4 DEF c
  <1>8. /\ nbr' \in [Addrs -> NbrType] /\ \A b \in Addrs : Queue(b)' = c[b].tx_ringbuf
        /\ net' = net \/ (net = "joined" /\ net' = "leaving")
    BY <1>6, <1>7, SlotEnds
  <1> QED BY <1>1, <1>2, <1>6, <1>8

LEMMA PostTxType ==
    ASSUME TypeInv, NEW a \in Addrs, NEW p \in Packets, NEW l, NEW shared, NEW status \in Status,
           NEW synced \in BOOLEAN, Len(dequeued_ringbuf) < DequeuedSize,
           PostTx(l, shared, a, p, status, synced)
    PROVE  TypeInv'
  <1> DEFINE new == [packet[p] EXCEPT !.transmissions = @ + 1, !.ret = status]
  <1>1. packet[p] \in PacketType /\ packet \in [Packets -> PacketType]
    BY DEF TypeInv, PacketTypes
  <1>2. new \in PacketType
    <2> DEFINE x == [packet[p] EXCEPT !.transmissions = packet[p].transmissions + 1]
    <2>1. packet[p].transmissions + 1 \in Nat
      BY <1>1 DEF PacketType
    <2>2. x \in PacketType
      BY <1>1, <2>1 DEF PacketType
    <2>3. new = [x EXCEPT !.ret = status]
      OBVIOUS
    <2> HIDE DEF x, new
    <2> QED BY <2>2, <2>3 DEF PacketType
  <1>3. packet' = [packet EXCEPT ![p] = new]
    BY <1>1 DEF PostTx
  <1> HIDE DEF new
  <1>4. PacketTypes'
    BY <1>1, <1>2, <1>3 DEF PacketTypes
  <1>5. /\ \/ dequeued_ringbuf' = Append(dequeued_ringbuf, p)
           \/ dequeued_ringbuf' = dequeued_ringbuf
        /\ mac_tx_status' = status /\ slot' = FALSE
        /\ UNCHANGED <<neighbor_list, time_source, pc>>
    BY DEF PostTx
  <1>6. RingTypes'
    BY <1>5, AppendElements, Constants DEF TypeInv, RingTypes
  <1>7. /\ nbr' \in [Addrs -> NbrType]
        /\ Queue(a)' = Queue(a) \/ (Queue(a) # << >> /\ Queue(a)' = Tail(Queue(a)))
        /\ \A b \in Addrs : b # a => Queue(b)' = Queue(b)
        /\ net' = net \/ (net = "joined" /\ net' = "leaving")
    BY PostTxQueues DEF TypeInv
  <1>8. ControlTypes' /\ ListTypes' /\ SlotTypes'
    BY <1>5, <1>7 DEF TypeInv, ControlTypes, ListTypes, SlotTypes
  <1>9. NbrTypes'
    <2>1. Queue(a) \in Seq(Packets) /\ Len(Queue(a)) <= QueueSize /\ QueueSize \in Nat
      BY QueueType, Constants DEF TypeInv, NbrTypes
    <2>2. Len(Queue(a)') <= QueueSize
      BY <1>7, <2>1, TailElements
    <2> QED BY <1>7, <2>2 DEF TypeInv, NbrTypes
  <1> QED BY <1>4, <1>6, <1>8, <1>9 DEF TypeInv

LEMMA IdleSlotType ==
    ASSUME TypeInv, NEW l, NEW synced \in BOOLEAN, IdleSlot(l, synced)
    PROVE  TypeInv' /\ \A a \in Addrs : Queue(a)' = Queue(a)
  <1>1. /\ EndOfSlot(l, nbr, synced)
        /\ UNCHANGED <<neighbor_list, time_source, packet, dequeued_ringbuf, isrVars, pc>>
    BY DEF IdleSlot
  <1>2. nbr \in [Addrs -> NbrType]
    BY DEF TypeInv, NbrTypes
  <1>3. /\ nbr' \in [Addrs -> NbrType] /\ \A a \in Addrs : Queue(a)' = Queue(a)
        /\ net' = net \/ (net = "joined" /\ net' = "leaving")
    BY <1>1, <1>2, SlotEnds DEF Queue
  <1>4. ControlTypes'
    BY <1>1, <1>3 DEF TypeInv, ControlTypes, isrVars
  <1>5. ListTypes' /\ PacketTypes' /\ RingTypes' /\ SlotTypes'
    BY <1>1 DEF TypeInv, ListTypes, PacketTypes, RingTypes, SlotTypes, isrVars
  <1>6. NbrTypes'
    BY <1>3 DEF TypeInv, NbrTypes
  <1> QED BY <1>3, <1>4, <1>5, <1>6 DEF TypeInv

LEMMA TxStartType == ASSUME TypeInv, NEW l, TxStart(l) PROVE TypeInv'
  <1> DEFINE a == NeighborForLink(l)
  <1>1. /\ a # None /\ Len(dequeued_ringbuf) < DequeuedSize
        /\ slot' = TRUE /\ current_neighbor' = a /\ current_packet' = Head(Queue(a))
        /\ UNCHANGED <<net, poolVars, mac_tx_status, pc>>
    BY DEF TxStart, HasRoom, Queue
  <1>2. a \in Addrs /\ Queue(a) # << >>
    BY <1>1, NeighborForLinkHasPacket DEF TypeInv
  <1> HIDE DEF a
  <1>3. SlotTypes'
    BY <1>1, <1>2, QueueType, TailElements DEF TypeInv, SlotTypes
  <1>4. ControlTypes' /\ RingTypes' /\ ListTypes' /\ NbrTypes' /\ PacketTypes'
    BY <1>1 DEF TypeInv, ControlTypes, RingTypes, ListTypes, NbrTypes, PacketTypes, Queue, poolVars
  <1> QED BY <1>3, <1>4 DEF TypeInv

LEMMA TxUnpreparedType ==
    ASSUME TypeInv, NEW l, NEW synced \in BOOLEAN, TxUnprepared(l, synced)
    PROVE  TypeInv'
  <1> DEFINE a == NeighborForLink(l)
  <1>1. /\ a # None /\ Len(dequeued_ringbuf) < DequeuedSize
        /\ PostTx(l, Shared(l), a, Head(Queue(a)), mac_tx_status, synced)
    BY DEF TxUnprepared, HasRoom, Queue
  <1>2. a \in Addrs /\ Queue(a) # << >>
    BY <1>1, NeighborForLinkHasPacket DEF TypeInv
  <1> HIDE DEF a
  <1>3. Head(Queue(a)) \in Packets /\ mac_tx_status \in Status
    BY <1>2, QueueType, TailElements DEF TypeInv, ControlTypes
  <1> QED BY <1>1, <1>2, <1>3, PostTxType

\* The choices of TxEnd
LEMMA TxEndIsPostTx ==
    ASSUME TxEnd
    PROVE  slot /\ \E shared \in BOOLEAN, status \in Status, synced \in BOOLEAN :
                      PostTx(current_link, shared, current_neighbor, current_packet, status, synced)
  <1>1. \A l : Shared(l) \in BOOLEAN
    BY DEF Shared
  <1>2. PICK shared \in BOOLEAN, status \in {"ok", "noack", "err"}, synced \in BOOLEAN :
            PostTx(current_link, shared, current_neighbor, current_packet, status, synced)
    BY <1>1, Zenon DEF TxEnd
  <1>3. status \in Status
    BY <1>2 DEF Status
  <1> QED BY <1>2, <1>3 DEF TxEnd

LEMMA TxEndType == TypeInv /\ TxEnd => TypeInv'
  <1> SUFFICES ASSUME TypeInv, TxEnd PROVE TypeInv'
    OBVIOUS
  <1>1. slot
    BY TxEndIsPostTx
  <1>2. PICK shared \in BOOLEAN, status \in Status, synced \in BOOLEAN :
            PostTx(current_link, shared, current_neighbor, current_packet, status, synced)
    BY TxEndIsPostTx
  <1>3. /\ current_neighbor \in Addrs /\ current_packet \in Packets
        /\ Len(dequeued_ringbuf) < DequeuedSize
    BY <1>1 DEF TypeInv, SlotTypes, RingTypes
  <1> QED BY <1>2, <1>3, PostTxType

LEMMA NextType == TypeInv /\ [Next]_vars => TypeInv'
  <1> SUFFICES ASSUME TypeInv, [Next]_vars PROVE TypeInv'
    OBVIOUS
  <1>1. ASSUME NEW a \in Unicast \cup {Broadcast}, send_packet(a) PROVE TypeInv'
    BY <1>1, EnqueueType, Constants DEF send_packet, Addrs
  <1>2. CASE SendEb
    <2>1. EB \in Addrs /\ Enqueue(EB, 1) /\ 1 \in Nat
      BY <1>2 DEF SendEb, Addrs
    <2> QED BY <2>1, EnqueueType
  <1>3. ASSUME NEW a \in TimeSources, tsch_queue_update_time_source(a) \/ tsch_associate(a)
        PROVE  TypeInv'
    BY <1>3, TimeSourceType
  <1>4. CASE Process
    BY <1>1, <1>2, <1>3, <1>4, MovesType, FreeReportedType, FreeNeighborType, GetDequeuedType,
       FlushPacketType, QueuesFlushedType
       DEF Process, Moves
  <1>5. CASE Interrupt
    BY <1>5, TxEndType, IdleSlotType, TxStartType, TxUnpreparedType DEF Interrupt, SlotOver
  <1>6. CASE UNCHANGED vars
    BY <1>6, MovesType DEF Moves
  <1> QED BY <1>4, <1>5, <1>6 DEF Next

-----------------------------------------------------------------------------
(* Every step keeps the rest, as long as no reset tears a slot *)

LEMMA PoolKept ==
    ASSUME IInv, UNCHANGED <<neighbor_list, nbr, packet>>, Dequeued' = Dequeued
    PROVE  Attempts' /\ QueuesOfKnown' /\ Places'
  BY DEF IInv, Attempts, QueuesOfKnown, Places, Known, Queue

LEMMA SlotKept ==
    ASSUME IInv, UNCHANGED <<slot, current_neighbor, current_packet>>,
           slot => \A a \in Addrs : Known(a) =>
                       Known(a)' /\ (Queue(a) # << >> =>
                                        Queue(a)' # << >> /\ Head(Queue(a)') = Head(Queue(a)))
    PROVE  CurrentIsHead'
  <1>1. slot => current_neighbor \in Addrs
    BY DEF IInv, TypeInv, SlotTypes
  <1> QED BY <1>1 DEF IInv, CurrentIsHead, Queue

\* torn is where PendingDone lets tsch_reset come to the queues in a slot
LEMMA MovesIInv == ASSUME IInv, Moves, ~torn' PROVE IInv'
  <1> USE DEF Moves, tsch_disassociate, HandlePoll, Callback, NeighborsFreed, PendingDone,
              StartReset, FinishReset, vars, poolVars, isrVars
  <1>1. ResetQuiet'
    <2>1. CASE PendingDone
      <3>1. net = "resetting" => ~slot
        BY <2>1, Zenon
      <3> QED BY <2>1, <3>1 DEF IInv, ResetQuiet
    <2>2. CASE Moves /\ ~PendingDone
      BY <2>2 DEF IInv, ResetQuiet
    <2> QED BY <2>1, <2>2
  <1>2. Dequeued' = Dequeued
    BY DEF Dequeued
  <1>3. Attempts' /\ QueuesOfKnown' /\ Places'
    BY <1>2, PoolKept
  <1>4. CurrentIsHead'
    BY SlotKept DEF Known, Queue
  <1> QED BY <1>1, <1>3, <1>4, MovesType DEF IInv

LEMMA TimeSourceIInv ==
    ASSUME IInv, NEW a \in TimeSources, tsch_queue_update_time_source(a) \/ tsch_associate(a)
    PROVE  IInv'
  <1>1. TypeInv' /\ \A b : Known(b) => Known(b)'
    BY TimeSourceType DEF IInv
  <1> USE DEF tsch_queue_update_time_source, tsch_associate, isrVars
  <1>2. ResetQuiet' /\ Attempts' /\ Dequeued' = Dequeued
    BY DEF IInv, ResetQuiet, Attempts, Dequeued
  <1>3. QueuesOfKnown' /\ Places'
    BY <1>1, <1>2 DEF IInv, QueuesOfKnown, Places, Queue
  <1>4. CurrentIsHead'
    BY <1>1, SlotKept DEF Queue
  <1> QED BY <1>1, <1>2, <1>3, <1>4 DEF IInv

LEMMA FreeNeighborIInv == IInv /\ FreeNeighbor => IInv'
  <1> SUFFICES ASSUME IInv, FreeNeighbor PROVE IInv'
    OBVIOUS
  <1>1. /\ TypeInv' /\ \A b \in Addrs : Queue(b)' = Queue(b)
        /\ \A b \in Addrs : Known(b) /\ Queue(b) # << >> => Known(b)'
    BY FreeNeighborType DEF IInv
  <1>2. ~slot /\ UNCHANGED <<packet, dequeued_ringbuf, isrVars, pc>>
    BY DEF FreeNeighbor
  <1>3. ResetQuiet' /\ Attempts' /\ Dequeued' = Dequeued
    BY <1>2 DEF IInv, ResetQuiet, Attempts, Dequeued, isrVars
  <1>4. QueuesOfKnown' /\ Places'
    BY <1>1, <1>2, <1>3 DEF IInv, QueuesOfKnown, Places
  <1>5. CurrentIsHead'
    BY <1>2 DEF CurrentIsHead, isrVars
  <1> QED BY <1>1, <1>3, <1>4, <1>5 DEF IInv

LEMMA EnqueueIInv ==
    ASSUME IInv, NEW a \in Addrs, NEW max \in Nat, max > 0, Enqueue(a, max)
    PROVE  IInv'
  <1> DEFINE new == [FreePacket EXCEPT !.used = TRUE, !.dest = a, !.max = max]
             added(p) == /\ ~packet[p].used /\ packet' = [packet EXCEPT ![p] = new]
                         /\ Queue(a)' = Append(Queue(a), p)
                         /\ \A b \in Addrs : b # a => Queue(b)' = Queue(b)
  <1>1. /\ TypeInv' /\ Known(a)' /\ \A b : Known(b) => Known(b)'
        /\ UNCHANGED <<nbr, packet>> \/ \E p \in Packets : added(p)
    BY EnqueueType DEF IInv
  <1>2. UNCHANGED <<dequeued_ringbuf, isrVars, pc>>
    BY DEF Enqueue
  <1>3. ResetQuiet' /\ Dequeued' = Dequeued
    BY <1>2 DEF IInv, ResetQuiet, Dequeued, isrVars
  <1>4. CASE UNCHANGED <<nbr, packet>>
    <2>1. Attempts' /\ QueuesOfKnown' /\ Places'
      BY <1>1, <1>3, <1>4 DEF IInv, Attempts, QueuesOfKnown, Places, Queue
    <2>2. CurrentIsHead'
      BY <1>1, <1>2, <1>4, SlotKept DEF Queue, isrVars
    <2> QED BY <1>1, <1>3, <2>1, <2>2 DEF IInv
  <1>5. ASSUME NEW p \in Packets, added(p) PROVE IInv'
    <2>3. /\ new.used /\ new.dest = a /\ new.transmissions = 0 /\ new.max = max
      BY DEF FreePacket
    <2> HIDE DEF new
    <2>4. packet'[p] = new /\ \A r \in Packets : r # p => packet'[r] = packet[r]
      BY <1>5 DEF IInv, TypeInv, PacketTypes
    <2>5. Attempts'
      BY <2>3, <2>4 DEF IInv, Attempts
    <2>7. p \notin ToSet(Dequeued) /\ \A b \in Addrs : p \notin ToSet(Queue(b))
      BY <1>5 DEF IInv, Places
    <2>8. /\ Queue(a)' # << >> /\ (Queue(a) # << >> => Head(Queue(a)') = Head(Queue(a)))
          /\ ToSet(Queue(a)') = ToSet(Queue(a)) \cup {p} /\ IsInjective(Queue(a)')
      BY <1>5, <2>7, QueueType, AppendElements DEF IInv, TypeInv, QueuesOfKnown
    <2>9. \A b \in Addrs : b # a => Queue(b)' = Queue(b)
      BY <1>5
    <2>11. QueuesOfKnown'
      BY <1>1, <2>8, <2>9 DEF IInv, QueuesOfKnown
    <2>12. Places'
      <3>1. \A b \in Addrs : ToSet(Queue(b)') = IF b = a THEN ToSet(Queue(a)) \cup {p} ELSE ToSet(Queue(b))
        BY <2>8, <2>9
      <3>2. ToSet(Dequeued) \subseteq Packets /\ \A b \in Addrs : ToSet(Queue(b)) \subseteq Packets
        BY DequeuedType, QueueType, ElementsOf DEF IInv, TypeInv
      <3>3. IsInjective(Dequeued)'
        BY <1>3 DEF IInv, Places
      <3>4. \A r \in ToSet(Dequeued)' : /\ packet'[r].used /\ packet'[r].dest \in Addrs
                                        /\ \A b \in Addrs : r \notin ToSet(Queue(b)')
        BY <1>3, <2>4, <2>7, <3>1, <3>2 DEF IInv, Places
      <3>5. \A b \in Addrs : \A r \in ToSet(Queue(b)') :
               /\ packet'[r].used /\ packet'[r].dest = b
               /\ packet'[r].transmissions < packet'[r].max
        BY <2>3, <2>4, <2>7, <3>1, <3>2 DEF IInv, Places
      <3>6. \A r \in Packets : packet'[r].used =>
               \/ r \in ToSet(Dequeued)'
               \/ \E b \in Addrs : packet'[r].dest = b /\ r \in ToSet(Queue(b)')
        BY <1>3, <2>3, <2>4, <3>1 DEF IInv, Places
      <3> QED BY <3>3, <3>4, <3>5, <3>6 DEF Places, Queue
    <2>13. CurrentIsHead'
      BY <1>1, <1>2, <2>8, <2>9, SlotKept DEF isrVars
    <2> QED BY <1>1, <1>3, <2>5, <2>11, <2>12, <2>13 DEF IInv
  <1> HIDE DEF added
  <1> QED BY <1>1, <1>4, <1>5

LEMMA FreeReportedIInv == ASSUME IInv, ~torn, FreeReported PROVE IInv'
  <1> DEFINE p == Head(dequeued_ringbuf)
  <1>1. /\ TypeInv' /\ dequeued_ringbuf # << >> /\ p \in Packets
        /\ packet' = [packet EXCEPT ![p] = Freed(@)]
    BY FreeReportedType DEF IInv
  <1>2. /\ pc = "reported" /\ pc' = "freed"
        /\ UNCHANGED <<neighbor_list, nbr, dequeued_ringbuf, isrVars>>
    BY DEF FreeReported
  <1>3. Dequeued = dequeued_ringbuf /\ Dequeued' = Tail(dequeued_ringbuf)
    BY <1>2 DEF Dequeued
  <1>4. /\ p \in ToSet(Dequeued)
        /\ ToSet(Dequeued)' \subseteq ToSet(Dequeued) /\ ToSet(Dequeued) = ToSet(Dequeued)' \cup {p}
        /\ IsInjective(Dequeued)' /\ p \notin ToSet(Dequeued)'
    BY <1>1, <1>3, TailElements DEF IInv, TypeInv, RingTypes, Places
  <1> HIDE DEF p
  <1>5. ResetQuiet' /\ QueuesOfKnown'
    BY <1>2 DEF IInv, ResetQuiet, QueuesOfKnown, Known, Queue, isrVars
  <1>6. packet'[p] = FreePacket /\ \A r \in Packets : r # p => packet'[r] = packet[r]
    BY <1>1, FreedType DEF IInv, TypeInv, PacketTypes
  <1>7. Attempts'
    BY <1>6 DEF IInv, Attempts, FreePacket
  <1>8. \A b \in Addrs : Queue(b)' = Queue(b) /\ ToSet(Queue(b)) \subseteq Packets /\ p \notin ToSet(Queue(b))
    BY <1>2, <1>4, QueueType, ElementsOf DEF IInv, TypeInv, Places, Queue
  <1>9. Places'
    BY <1>4, <1>6, <1>8, DequeuedType DEF IInv, TypeInv, Places, FreePacket
  <1>10. CurrentIsHead'
    BY <1>2, SlotKept DEF Known, Queue, isrVars
  <1> QED BY <1>1, <1>5, <1>7, <1>9, <1>10 DEF IInv

LEMMA GetDequeuedIInv == IInv /\ GetDequeued => IInv'
  <1> SUFFICES ASSUME IInv, GetDequeued PROVE IInv'
    OBVIOUS
  <1>1. /\ pc = "get" /\ pc' = "pending" /\ dequeued_ringbuf' = Tail(dequeued_ringbuf)
        /\ UNCHANGED <<neighbor_list, nbr, packet, isrVars>>
    BY DEF GetDequeued
  <1>2. ResetQuiet' /\ Dequeued' = Dequeued
    BY <1>1 DEF ResetQuiet, Dequeued
  <1>3. Attempts' /\ QueuesOfKnown' /\ Places'
    BY <1>1, <1>2, PoolKept
  <1>4. CurrentIsHead'
    BY <1>1, SlotKept DEF Known, Queue, isrVars
  <1> QED BY <1>2, <1>3, <1>4, GetDequeuedType DEF IInv

LEMMA FlushPacketIInv == ASSUME IInv, ~torn, NEW a \in Addrs, FlushPacket(a) PROVE IInv'
  <1> DEFINE p == Head(Queue(a))
  <1>1. /\ TypeInv' /\ Queue(a) # << >> /\ p \in Packets
        /\ packet' = [packet EXCEPT ![p] = Freed(@)]
        /\ Queue(a)' = Tail(Queue(a)) /\ \A b \in Addrs : b # a => Queue(b)' = Queue(b)
    BY FlushPacketType DEF IInv
  <1>2. pc = "flush" /\ UNCHANGED <<neighbor_list, dequeued_ringbuf, isrVars, pc>>
    BY DEF FlushPacket
  <1>3. /\ p \in ToSet(Queue(a)) /\ p \notin ToSet(Tail(Queue(a)))
        /\ ToSet(Queue(a)) = ToSet(Tail(Queue(a))) \cup {p}
        /\ IsInjective(Tail(Queue(a)))
    BY <1>1, QueueType, TailElements DEF IInv, TypeInv, QueuesOfKnown
  <1> HIDE DEF p
  <1>6. ResetQuiet' /\ Dequeued' = Dequeued /\ \A b : Known(b)' <=> Known(b)
    BY <1>2 DEF IInv, ResetQuiet, Known, Dequeued, isrVars
  <1>7. QueuesOfKnown'
    BY <1>1, <1>3, <1>6 DEF IInv, QueuesOfKnown
  <1>8. packet'[p] = FreePacket /\ \A r \in Packets : r # p => packet'[r] = packet[r]
    BY <1>1, FreedType DEF IInv, TypeInv, PacketTypes
  <1>9. Attempts'
    BY <1>8 DEF IInv, Attempts, FreePacket
  <1>10. Places'
    <2>a. \A b \in Addrs : b # a => p \notin ToSet(Queue(b))
      BY <1>3 DEF IInv, Places
    <2>b. ToSet(Tail(Queue(a))) = ToSet(Queue(a)) \ {p}
      BY <1>3
    <2>1. \A b \in Addrs : ToSet(Queue(b)') = ToSet(Queue(b)) \ {p}
      BY <1>1, <2>a, <2>b
    <2>2. ToSet(Dequeued) \subseteq Packets /\ \A b \in Addrs : ToSet(Queue(b)) \subseteq Packets
      BY DequeuedType, QueueType, ElementsOf DEF IInv, TypeInv
    <2>3. p \notin ToSet(Dequeued) /\ ~packet'[p].used
      BY <1>3, <1>8 DEF IInv, Places, FreePacket
    <2> QED BY <1>6, <1>8, <2>1, <2>2, <2>3 DEF IInv, Places
  <1>11. CurrentIsHead'
    BY <1>2 DEF IInv, ResetQuiet, CurrentIsHead, isrVars
  <1> QED BY <1>1, <1>6, <1>7, <1>9, <1>10, <1>11 DEF IInv

LEMMA QueuesFlushedIInv == IInv /\ QueuesFlushed => IInv'
  <1> SUFFICES ASSUME IInv, QueuesFlushed PROVE IInv'
    OBVIOUS
  <1>1. /\ pc = "flush" /\ pc' = "flushed"
        /\ UNCHANGED <<neighbor_list, packet, dequeued_ringbuf, isrVars>>
    BY DEF QueuesFlushed
  <1>2. TypeInv' /\ \A a \in Addrs : Queue(a) = << >> /\ Queue(a)' = << >>
    BY QueuesFlushedType DEF QueuesFlushed, IInv, QueuesOfKnown, Known, Queue
  <1>3. ~slot' /\ ResetQuiet' /\ Attempts' /\ Dequeued' = Dequeued
    BY <1>1 DEF IInv, ResetQuiet, Attempts, Dequeued, isrVars
  <1>4. QueuesOfKnown' /\ Places'
    BY <1>1, <1>2, <1>3 DEF IInv, QueuesOfKnown, Places
  <1>5. CurrentIsHead'
    BY <1>3 DEF CurrentIsHead
  <1> QED BY <1>2, <1>3, <1>4, <1>5 DEF IInv

LEMMA PostTxIInv ==
    ASSUME IInv, TypeInv', NEW a \in Addrs, Known(a), Queue(a) # << >>, NEW p, p = Head(Queue(a)),
           NEW l, NEW shared, NEW status \in Status, NEW synced \in BOOLEAN,
           pc # "flush", PostTx(l, shared, a, p, status, synced)
    PROVE  IInv'
  <1> DEFINE done == Done(p, status)
             q == Queue(a)
             new == [packet[p] EXCEPT !.transmissions = @ + 1, !.ret = status]
  <1>1. q \in Seq(Packets) /\ IsInjective(q)
    BY QueueType DEF IInv, TypeInv, QueuesOfKnown
  <1>2. /\ p \in Packets /\ p \in ToSet(q) /\ p \notin ToSet(Tail(q))
        /\ ToSet(Tail(q)) = ToSet(q) \ {p} /\ IsInjective(Tail(q))
    <2>1. /\ p \in Packets /\ p \in ToSet(q) /\ p \notin ToSet(Tail(q))
          /\ ToSet(q) = ToSet(Tail(q)) \cup {p} /\ IsInjective(Tail(q))
      BY <1>1, TailElements
    <2> QED BY <2>1
  <1>3. /\ packet[p].used /\ packet[p].dest = a /\ packet[p].transmissions < packet[p].max
        /\ p \notin ToSet(Dequeued)
        /\ \A b \in Addrs : b # a => p \notin ToSet(Queue(b))
    BY <1>2 DEF IInv, Places
  <1>4. packet[p] \in PacketType /\ packet \in [Packets -> PacketType]
    BY <1>2 DEF IInv, TypeInv, PacketTypes
  <1>5. /\ new.used /\ new.dest = a /\ new.max = packet[p].max
        /\ new.transmissions = packet[p].transmissions + 1
    BY <1>3, <1>4 DEF PacketType
  <1>6. done \in BOOLEAN /\ (~done => new.transmissions < new.max) /\ new.transmissions <= new.max
    BY <1>3, <1>4, <1>5 DEF Done, PacketType
  <1>7. packet' = [packet EXCEPT ![p] = new]
    BY <1>2, <1>4 DEF PostTx
  <1>8. /\ dequeued_ringbuf' = IF done THEN Append(dequeued_ringbuf, p) ELSE dequeued_ringbuf
        /\ slot' = FALSE /\ UNCHANGED <<neighbor_list, pc>>
    BY DEF PostTx
  <1> HIDE DEF done, new
  <1>11. /\ Queue(a)' = IF done THEN Tail(q) ELSE q
         /\ \A b \in Addrs : b # a => Queue(b)' = Queue(b)
    <2>1. /\ Queue(a)' \in QueuesAfter(q, p, done)
          /\ \A b \in Addrs : b # a => Queue(b)' = Queue(b)
      BY PostTxQueues DEF done, IInv, TypeInv
    <2> QED BY <1>6, <2>1 DEF QueuesAfter
  <1>12. ResetQuiet'
    BY <1>8 DEF ResetQuiet
  <1>13. \A b : Known(b)' <=> Known(b)
    BY <1>8 DEF Known
  <1>14. QueuesOfKnown'
    BY <1>1, <1>2, <1>6, <1>11, <1>13 DEF IInv, QueuesOfKnown
  <1>15. packet'[p] = new /\ \A r \in Packets : r # p => packet'[r] = packet[r]
    BY <1>2, <1>4, <1>7
  <1>16. Attempts'
    BY <1>6, <1>15 DEF IInv, Attempts
  <1>18. /\ ToSet(Dequeued)' = IF done THEN ToSet(Dequeued) \cup {p} ELSE ToSet(Dequeued)
         /\ IsInjective(Dequeued)'
    <2>1. Dequeued \in Seq(Packets) /\ IsInjective(Dequeued) /\ dequeued_ringbuf \in Seq(Packets)
      BY DequeuedType DEF IInv, TypeInv, Places, RingTypes
    <2>2. CASE ~done
      <3>1. Dequeued' = Dequeued
        BY <1>8, <2>2 DEF Dequeued
      <3> QED BY <2>1, <2>2, <3>1
    <2>3. CASE done
      <3>1. Dequeued' = Append(Dequeued, p)
        BY <1>2, <1>8, <2>1, <2>3, AppendElements DEF Dequeued, IInv, TypeInv, RingTypes
      <3> QED BY <1>2, <1>3, <2>1, <2>3, <3>1, AppendElements
    <2> QED BY <1>6, <2>2, <2>3
  <1>19. Places'
    <2>1. ToSet(Dequeued) \subseteq Packets /\ \A b \in Addrs : ToSet(Queue(b)) \subseteq Packets
      BY DequeuedType, QueueType, ElementsOf DEF IInv, TypeInv
    <2>2. \A b \in Addrs : ToSet(Queue(b)') = IF done THEN ToSet(Queue(b)) \ {p} ELSE ToSet(Queue(b))
      BY <1>2, <1>3, <1>6, <1>11
    <2>3. \A r \in ToSet(Dequeued)' : /\ packet'[r].used /\ packet'[r].dest \in Addrs
                                      /\ \A b \in Addrs : r \notin ToSet(Queue(b)')
      BY <1>2, <1>3, <1>5, <1>6, <1>15, <1>18, <2>1, <2>2 DEF IInv, Places
    <2>4. \A b \in Addrs : \A r \in ToSet(Queue(b)') :
             /\ packet'[r].used /\ packet'[r].dest = b
             /\ packet'[r].transmissions < packet'[r].max
      BY <1>2, <1>3, <1>5, <1>6, <1>15, <2>1, <2>2 DEF IInv, Places
    <2>5. \A r \in Packets : packet'[r].used =>
             \/ r \in ToSet(Dequeued)'
             \/ \E b \in Addrs : packet'[r].dest = b /\ r \in ToSet(Queue(b)')
      BY <1>2, <1>3, <1>5, <1>6, <1>15, <1>18, <2>2 DEF IInv, Places
    <2> QED BY <1>18, <2>3, <2>4, <2>5 DEF Places
  <1>20. CurrentIsHead'
    BY <1>8 DEF CurrentIsHead
  <1> QED BY <1>12, <1>14, <1>16, <1>19, <1>20 DEF IInv

LEMMA IdleSlotIInv ==
    ASSUME IInv, NEW l, NEW synced \in BOOLEAN, IdleSlot(l, synced)
    PROVE  IInv'
  <1>1. /\ ~slot /\ UNCHANGED <<neighbor_list, packet, dequeued_ringbuf, isrVars, pc>>
    BY DEF IdleSlot, MayStart
  <1>2. TypeInv' /\ \A a \in Addrs : Queue(a)' = Queue(a)
    BY IdleSlotType DEF IInv
  <1>3. ResetQuiet' /\ Attempts' /\ Dequeued' = Dequeued /\ \A a : Known(a)' <=> Known(a)
    BY <1>1 DEF IInv, ResetQuiet, Attempts, Dequeued, Known, isrVars
  <1>4. QueuesOfKnown' /\ Places'
    BY <1>1, <1>2, <1>3 DEF IInv, QueuesOfKnown, Places
  <1>5. CurrentIsHead'
    BY <1>1 DEF CurrentIsHead, isrVars
  <1> QED BY <1>2, <1>3, <1>4, <1>5 DEF IInv

LEMMA TxStartIInv == ASSUME IInv, NEW l, TxStart(l) PROVE IInv'
  <1> DEFINE a == NeighborForLink(l)
  <1>1. /\ net = "joined" /\ a # None
        /\ slot' = TRUE /\ current_neighbor' = a /\ current_packet' = Head(Queue(a))
        /\ UNCHANGED <<net, poolVars, mac_tx_status, pc>>
    BY DEF TxStart, MayStart, Queue
  <1>2. a \in Addrs /\ Known(a) /\ Queue(a) # << >>
    BY <1>1, NeighborForLinkHasPacket DEF IInv, TypeInv
  <1> HIDE DEF a
  <1> USE DEF poolVars
  <1>3. ResetQuiet' /\ Dequeued' = Dequeued
    BY <1>1 DEF IInv, TypeInv, ControlTypes, ResetQuiet, Dequeued
  <1>4. Attempts' /\ QueuesOfKnown' /\ Places'
    BY <1>1, <1>3, PoolKept
  <1>5. CurrentIsHead'
    BY <1>1, <1>2 DEF CurrentIsHead, Known, Queue
  <1> QED BY <1>3, <1>4, <1>5, TxStartType DEF IInv

LEMMA TxUnpreparedIInv ==
    ASSUME IInv, NEW l, NEW synced \in BOOLEAN, TxUnprepared(l, synced)
    PROVE  IInv'
  <1> DEFINE a == NeighborForLink(l)
  <1>1. /\ net = "joined" /\ a # None
        /\ PostTx(l, Shared(l), a, Head(Queue(a)), mac_tx_status, synced)
    BY DEF TxUnprepared, MayStart, Queue
  <1>2. a \in Addrs /\ Known(a) /\ Queue(a) # << >>
    BY <1>1, NeighborForLinkHasPacket DEF IInv, TypeInv
  <1>3. mac_tx_status \in Status /\ pc # "flush" /\ TypeInv'
    BY <1>1, TxUnpreparedType DEF IInv, TypeInv, ControlTypes
  <1> HIDE DEF a
  <1> QED BY <1>1, <1>2, <1>3, PostTxIInv

LEMMA TxEndIInv == IInv /\ TxEnd => IInv'
  <1> SUFFICES ASSUME IInv, TxEnd PROVE IInv'
    OBVIOUS
  <1> DEFINE a == current_neighbor
  <1>1. slot
    BY TxEndIsPostTx
  <1>2. /\ Known(a) /\ Queue(a) # << >> /\ current_packet = Head(Queue(a))
        /\ a \in Addrs /\ pc # "flush" /\ TypeInv'
    BY <1>1, TxEndType DEF IInv, CurrentIsHead, ResetQuiet, TypeInv, SlotTypes, Queue
  <1>3. PICK shared \in BOOLEAN, status \in Status, synced \in BOOLEAN :
            PostTx(current_link, shared, a, current_packet, status, synced)
    BY TxEndIsPostTx
  <1> HIDE DEF a
  <1> QED BY <1>2, <1>3, PostTxIInv

-----------------------------------------------------------------------------
(* The theorems *)

LEMMA NextIInv ==
    ASSUME IInv, ~torn, ~torn', [Next]_vars
    PROVE  IInv'
  <1>1. ASSUME NEW a \in Unicast \cup {Broadcast}, send_packet(a) PROVE IInv'
    BY <1>1, EnqueueIInv, Constants DEF send_packet, Addrs
  <1>2. CASE SendEb
    <2>1. EB \in Addrs /\ Enqueue(EB, 1) /\ 1 \in Nat /\ 1 > 0
      BY <1>2 DEF SendEb, Addrs
    <2> QED BY <2>1, EnqueueIInv
  <1>3. ASSUME NEW a \in TimeSources, tsch_queue_update_time_source(a) \/ tsch_associate(a)
        PROVE  IInv'
    BY <1>3, TimeSourceIInv
  <1>4. CASE Process
    BY <1>1, <1>2, <1>3, <1>4, MovesIInv, FreeReportedIInv, FreeNeighborIInv,
       GetDequeuedIInv, FlushPacketIInv, QueuesFlushedIInv
       DEF Process, Moves
  <1>5. CASE Interrupt
    BY <1>5, TxEndIInv, IdleSlotIInv, TxStartIInv, TxUnpreparedIInv DEF Interrupt, SlotOver
  <1>6. CASE UNCHANGED vars
    BY <1>6, MovesIInv DEF Moves
  <1> QED BY <1>4, <1>5, <1>6 DEF Next

\* torn stays once it is set
LEMMA TornStays == [Next]_vars /\ torn => torn'
  BY DEF Next, Process, Interrupt, SlotOver, send_packet, SendEb, Enqueue,
         tsch_queue_update_time_source, tsch_disassociate, HandlePoll, Callback, FreeReported,
         FreeNeighbor, NeighborsFreed, GetDequeued, PendingDone, StartReset, FlushPacket,
         QueuesFlushed, FinishReset, tsch_associate, IdleSlot, TxStart, TxUnprepared, TxEnd,
         PostTx, vars

LEMMA QueueInvariant == Spec => []Inv
  <1>1. Init => Inv
    BY InitIInv DEF Inv, IInv
  <1>2. Inv /\ [Next]_vars => Inv'
    BY NextType, NextIInv, TornStays DEF Inv
  <1> QED BY <1>1, <1>2, PTL DEF Spec

\* Neither a neighbor's queue nor the ring of dequeued packets nor the pool of
\* neighbors overflows, the backoff window stays below its bound, and (while
\* no reset tears a slot) no packet is sent more often than it may be
\* (tsch-queue.c, tsch_tx_slot).
THEOREM QueueTypeCorrect == Spec => []QueueTypeOK
  <1>1. Inv => QueueTypeOK
    <2> SUFFICES ASSUME Inv PROVE QueueTypeOK
      OBVIOUS
    <2>1. ToSet(neighbor_list) \subseteq Addrs /\ Len(neighbor_list) <= MaxNbrs
      BY ElementsOf DEF Inv, TypeInv, ListTypes
    <2>2. \A a \in Addrs : /\ ToSet(nbr[a].tx_ringbuf) \subseteq Packets
                           /\ Len(nbr[a].tx_ringbuf) <= QueueSize
      BY ElementsOf, QueueType DEF Inv, TypeInv, NbrTypes, Queue
    <2>3. \A a \in Addrs : /\ nbr[a].backoff_exponent \in TSCH_MAC_MIN_BE .. TSCH_MAC_MAX_BE
                           /\ nbr[a].backoff_window \in 0 .. 2^TSCH_MAC_MAX_BE
      BY DEF Inv, TypeInv, NbrTypes, NbrType
    <2>4. \A p \in Packets : packet[p].ret \in Status /\ (torn \/ packet[p].transmissions <= packet[p].max)
      BY DEF Inv, TypeInv, IInv, Attempts, PacketTypes, PacketType
    <2>5. ToSet(dequeued_ringbuf) \subseteq Packets /\ Len(dequeued_ringbuf) <= DequeuedSize
      BY ElementsOf DEF Inv, TypeInv, RingTypes
    <2>6. slot => current_neighbor \in Addrs /\ current_packet \in Packets
      BY DEF Inv, TypeInv, SlotTypes
    <2> QED BY <2>1, <2>2, <2>3, <2>4, <2>5, <2>6 DEF QueueTypeOK, Inv, TypeInv, ControlTypes
  <1> QED BY <1>1, QueueInvariant, PTL

\* tsch_queue_add_packet, the slot operation, tsch_tx_process_pending and the
\* flush hand a packet on without losing or doubling it: an allocated packet
\* is in the queue of its neighbor or in the ring of dequeued packets, and a
\* free one is in neither, until a tsch_reset comes to the queues in a Tx slot.
THEOREM QueueOnePlace == Spec => []OnePlace
  <1>1. Inv => OnePlace
    <2> SUFFICES ASSUME IInv PROVE OnePlace
      BY DEF Inv, OnePlace
    <2>1. IsInjective(Dequeued)
          /\ \A a \in Addrs : IsInjective(nbr[a].tx_ringbuf) /\ (nbr[a].tx_ringbuf # << >> => Known(a))
      BY DEF IInv, Places, QueuesOfKnown, Queue
    <2>2. ASSUME NEW p \in Packets
          PROVE  IF p \in ToSet(Dequeued) THEN packet[p].used /\ InQueue(p) = {}
                 ELSE InQueue(p) = IF packet[p].used THEN {packet[p].dest} ELSE {}
      <3>1. \A a : a \in InQueue(p) <=> a \in Addrs /\ p \in ToSet(Queue(a))
        BY DEF InQueue, Queue
      <3>2. CASE p \in ToSet(Dequeued)
        BY <3>1, <3>2 DEF IInv, Places
      <3>3. CASE p \notin ToSet(Dequeued) /\ packet[p].used
        BY <3>1, <3>3 DEF IInv, Places
      <3>4. CASE p \notin ToSet(Dequeued) /\ ~packet[p].used
        BY <3>1, <3>4 DEF IInv, Places
      <3> QED BY <3>2, <3>3, <3>4
    <2> QED BY <2>1, <2>2, Zenon DEF OnePlace
  <1> QED BY <1>1, QueueInvariant, PTL

-----------------------------------------------------------------------------
(* The refinement: which steps accept a packet, which report one, and which  *)
(* the layer above does not see                                              *)

LEMMA PrecedesIn ==
    ASSUME NEW S, NEW s \in Seq(S), NEW p, NEW q, Precedes(s, p, q)
    PROVE  p \in ToSet(s) /\ q \in ToSet(s)
  BY DEF Precedes, ToSet

LEMMA PrecedesAppend ==
    ASSUME NEW S, NEW s \in Seq(S), NEW e \in S, NEW p, NEW q
    PROVE  Precedes(Append(s, e), p, q) <=> Precedes(s, p, q) \/ (p \in ToSet(s) /\ q = e)
  <1> DEFINE t == Append(s, e)
  <1>1. /\ t \in Seq(S) /\ Len(t) = Len(s) + 1 /\ DOMAIN t = 1 .. Len(s) + 1
        /\ \A i \in 1 .. Len(s) : t[i] = s[i]
        /\ t[Len(s) + 1] = e /\ Len(s) \in Nat /\ DOMAIN s = 1 .. Len(s)
    BY AppendProperties
  <1> HIDE DEF t
  <1>2. ASSUME Precedes(t, p, q) PROVE Precedes(s, p, q) \/ (p \in ToSet(s) /\ q = e)
    <2>1. PICK i \in 1 .. Len(s) + 1, j \in 1 .. Len(s) + 1 : i < j /\ t[i] = p /\ t[j] = q
      BY <1>1, <1>2 DEF Precedes
    <2>2. i \in 1 .. Len(s) /\ s[i] = p
      BY <1>1, <2>1
    <2> QED BY <1>1, <2>1, <2>2 DEF Precedes, ToSet
  <1>3. ASSUME Precedes(s, p, q) PROVE Precedes(t, p, q)
    BY <1>1, <1>3 DEF Precedes
  <1>4. ASSUME p \in ToSet(s), q = e PROVE Precedes(t, p, q)
    <2>1. PICK i \in 1 .. Len(s) : s[i] = p
      BY <1>1, <1>4 DEF ToSet
    <2>2. i \in DOMAIN t /\ Len(s) + 1 \in DOMAIN t /\ i < Len(s) + 1 /\ t[i] = p
      BY <1>1, <2>1
    <2> QED BY <1>1, <1>4, <2>2 DEF Precedes
  <1> QED BY <1>2, <1>3, <1>4 DEF t

LEMMA PrecedesTail ==
    ASSUME NEW S, NEW s \in Seq(S), s # << >>, IsInjective(s), NEW p, NEW q
    PROVE  /\ Precedes(Tail(s), p, q) <=> Precedes(s, p, q) /\ p # Head(s)
           /\ Precedes(s, Head(s), q) <=> q \in ToSet(Tail(s))
           /\ ~Precedes(s, p, Head(s))
  <1> DEFINE t == Tail(s)
  <1>1. /\ t \in Seq(S) /\ Len(t) = Len(s) - 1 /\ Head(s) = s[1]
        /\ \A i \in 1 .. Len(t) : t[i] = s[i + 1]
        /\ Len(s) \in Nat \ {0} /\ DOMAIN s = 1 .. Len(s) /\ DOMAIN t = 1 .. Len(s) - 1
    BY HeadTailProperties
  <1>2. \A i, j \in 1 .. Len(s) : s[i] = s[j] => i = j
    BY ElementsOf
  <1> HIDE DEF t
  <1>3. ASSUME Precedes(t, p, q) PROVE Precedes(s, p, q) /\ p # Head(s)
    <2>1. PICK i \in 1 .. Len(s) - 1, j \in 1 .. Len(s) - 1 : i < j /\ t[i] = p /\ t[j] = q
      BY <1>1, <1>3 DEF Precedes
    <2>2. i + 1 \in 1 .. Len(s) /\ j + 1 \in 1 .. Len(s) /\ s[i + 1] = p /\ s[j + 1] = q /\ i + 1 < j + 1
      BY <1>1, <2>1
    <2>3. p # s[1]
      BY <1>1, <1>2, <2>1, <2>2
    <2> QED BY <1>1, <2>2, <2>3 DEF Precedes
  <1>4. ASSUME Precedes(s, p, q), p # Head(s) PROVE Precedes(t, p, q)
    <2>1. PICK i \in 1 .. Len(s), j \in 1 .. Len(s) : i < j /\ s[i] = p /\ s[j] = q
      BY <1>1, <1>4 DEF Precedes
    <2>2. i # 1
      BY <1>1, <1>4, <2>1
    <2>3. i - 1 \in 1 .. Len(s) - 1 /\ j - 1 \in 1 .. Len(s) - 1 /\ t[i - 1] = p /\ t[j - 1] = q
          /\ i - 1 < j - 1
      BY <1>1, <2>1, <2>2
    <2> QED BY <1>1, <2>3 DEF Precedes
  <1>5. ASSUME Precedes(s, Head(s), q) PROVE q \in ToSet(t)
    <2>1. PICK i \in 1 .. Len(s), j \in 1 .. Len(s) : i < j /\ s[j] = q
      BY <1>1, <1>5 DEF Precedes
    <2>2. j - 1 \in 1 .. Len(s) - 1 /\ t[j - 1] = q
      BY <1>1, <2>1
    <2> QED BY <1>1, <2>2 DEF ToSet
  <1>6. ASSUME q \in ToSet(t) PROVE Precedes(s, Head(s), q)
    <2>1. PICK j \in 1 .. Len(s) - 1 : t[j] = q
      BY <1>1, <1>6 DEF ToSet
    <2>2. 1 \in 1 .. Len(s) /\ j + 1 \in 1 .. Len(s) /\ 1 < j + 1 /\ s[j + 1] = q
      BY <1>1, <2>1
    <2> QED BY <1>1, <2>2 DEF Precedes
  <1>7. ~Precedes(s, p, Head(s))
    BY <1>1, <1>2 DEF Precedes
  <1> QED BY <1>3, <1>4, <1>5, <1>6, <1>7 DEF t

Outs == [a \in Addrs |-> Outstanding(a)]

LEMMA UnreportedType ==
    ASSUME IInv
    PROVE  /\ Unreported \in Seq(Packets) /\ IsInjective(Unreported)
           /\ ToSet(Unreported) \subseteq Packets
           /\ \A p \in ToSet(Unreported) : /\ packet[p].used /\ packet[p].dest \in Addrs
                                           /\ \A a \in Addrs : p \notin ToSet(Queue(a))
           /\ \A a \in Addrs : Outstanding(a) \subseteq Packets
  <1>1. Dequeued \in Seq(Packets) /\ IsInjective(Dequeued) /\ ToSet(Dequeued) \subseteq Packets
    BY DequeuedType DEF IInv, TypeInv, Places
  <1>2. \/ Unreported = Dequeued
        \/ Dequeued # << >> /\ Unreported = Tail(Dequeued)
    <2>1. CASE pc = "reported"
      BY <2>1 DEF Unreported, Dequeued, IInv, TypeInv, RingTypes
    <2>2. CASE pc # "reported"
      BY <2>2 DEF Unreported, Dequeued
    <2> QED BY <2>1, <2>2
  <1>3. Unreported \in Seq(Packets) /\ IsInjective(Unreported) /\ ToSet(Unreported) \subseteq ToSet(Dequeued)
    <2>1. CASE Unreported = Dequeued
      BY <1>1, <2>1
    <2>2. CASE Dequeued # << >> /\ Unreported = Tail(Dequeued)
      BY <1>1, <2>2, TailElements
    <2> QED BY <1>2, <2>1, <2>2
  <1>4. \A a \in Addrs : ToSet(Queue(a)) \subseteq Packets
    BY QueueType, ElementsOf DEF IInv, TypeInv
  <1> QED BY <1>1, <1>3, <1>4 DEF IInv, Places, Outstanding, Queue

LEMMA BeforeIn ==
    \A p, q : <<p, q>> \in Before <=>
                \E a \in Addrs : p \in Outstanding(a) /\ q \in Outstanding(a) /\ Earlier(a, p, q)
  BY DEF Before

LEMMA BeforeType == IInv => Before \in SUBSET (Packets \X Packets)
  BY UnreportedType DEF Before

LEMMA PairsEqual ==
    ASSUME NEW S, NEW A \in SUBSET (S \X S), NEW B \in SUBSET (S \X S),
           \A p, q \in S : <<p, q>> \in A <=> <<p, q>> \in B
    PROVE  A = B
  OBVIOUS

\* A packet is outstanding to one destination only
LEMMA OneDestination ==
    ASSUME IInv, NEW a \in Addrs, NEW p \in Outstanding(a)
    PROVE  packet[p].used /\ packet[p].dest = a
  BY UnreportedType DEF IInv, Places, Outstanding, Queue

LEMMA SameOutstanding ==
    ASSUME IInv, IInv',
           \A a \in Addrs : Outstanding(a)' = Outstanding(a),
           \A a \in Addrs : \A p, q \in Outstanding(a) : Earlier(a, p, q)' <=> Earlier(a, p, q)
    PROVE  UNCHANGED <<Outs, Before>>
  <1>1. Outs' = Outs
    BY DEF Outs
  <1>2. Before' = Before
    <2>1. Before \in SUBSET (Packets \X Packets) /\ Before' \in SUBSET (Packets \X Packets)
      <3>1. (IInv => Before \in SUBSET (Packets \X Packets))'
        BY BeforeType, PTL
      <3> QED BY <3>1, BeforeType
    <2>2. \A p, q : <<p, q>> \in Before' <=>
             \E a \in Addrs : p \in Outstanding(a)' /\ q \in Outstanding(a)' /\ Earlier(a, p, q)'
      BY DEF Before
    <2>3. ASSUME NEW p \in Packets, NEW q \in Packets
          PROVE  <<p, q>> \in Before' <=> <<p, q>> \in Before
      <3>1. \A a \in Addrs : p \in Outstanding(a)' /\ q \in Outstanding(a)' /\ Earlier(a, p, q)'
                             <=> p \in Outstanding(a) /\ q \in Outstanding(a) /\ Earlier(a, p, q)
        OBVIOUS
      <3> QED BY <2>2, <3>1, BeforeIn, Zenon
    <2> QED BY <2>1, <2>3, PairsEqual
  <1> QED BY <1>1, <1>2

LEMMA SamePlaces ==
    ASSUME IInv, IInv', Unreported' = Unreported, \A a \in Addrs : Queue(a)' = Queue(a),
           \A p \in ToSet(Unreported) : packet'[p].dest = packet[p].dest
    PROVE  UNCHANGED <<Outs, Before>>
  <1>1. \A a \in Addrs : Outstanding(a)' = Outstanding(a)
    BY DEF Outstanding, Queue
  <1>2. \A a \in Addrs : \A p, q : Earlier(a, p, q)' <=> Earlier(a, p, q)
    BY DEF Earlier, Queue
  <1> QED BY <1>1, <1>2, SameOutstanding

LEMMA AcceptStep ==
    ASSUME IInv, IInv', NEW a \in Addrs, NEW p \in Packets,
           \A b \in Addrs : p \notin Outstanding(b),
           \A b \in Addrs : Outstanding(b)' = IF b = a THEN Outstanding(b) \cup {p} ELSE Outstanding(b),
           \A b \in Addrs : \A r, s \in Outstanding(b) : Earlier(b, r, s)' <=> Earlier(b, r, s),
           \A r \in Outstanding(a) : Earlier(a, r, p)' /\ ~Earlier(a, p, r)',
           ~Earlier(a, p, p)'
    PROVE  Mac!Accept(a, p)
  <1>1. \A b \in Addrs : p \notin Outs[b]
    BY DEF Outs
  <1>2. Outs' = [Outs EXCEPT ![a] = @ \cup {p}]
    BY DEF Outs
  <1>3. Before' = Before \cup (Outs[a] \X {p})
    <2>1. Outs[a] = Outstanding(a) /\ Outstanding(a) \subseteq Packets
      BY UnreportedType DEF Outs
    <2>2. Before' \in SUBSET (Packets \X Packets) /\ Before \in SUBSET (Packets \X Packets)
      <3>1. (IInv => Before \in SUBSET (Packets \X Packets))'
        BY BeforeType, PTL
      <3> QED BY <3>1, BeforeType
    <2>3. \A r, s : <<r, s>> \in Before' <=>
             \E b \in Addrs : r \in Outstanding(b)' /\ s \in Outstanding(b)' /\ Earlier(b, r, s)'
      BY DEF Before
    <2>4. ASSUME NEW r \in Packets, NEW s \in Packets
          PROVE  <<r, s>> \in Before' <=> <<r, s>> \in Before \cup (Outstanding(a) \X {p})
      <3>1. CASE s = p
        BY <2>3, <3>1, BeforeIn
      <3>2. CASE s # p
        BY <2>3, <3>2, BeforeIn
      <3> QED BY <3>1, <3>2
    <2> DEFINE B == Before \cup (Outstanding(a) \X {p})
    <2>5. B \in SUBSET (Packets \X Packets)
      BY <2>1, <2>2
    <2>6. \A r, s \in Packets : <<r, s>> \in Before' <=> <<r, s>> \in B
      BY <2>4
    <2> HIDE DEF B
    <2>7. Before' = B
      BY <2>2, <2>5, <2>6, PairsEqual
    <2> QED BY <2>1, <2>7 DEF B
  <1> QED BY <1>1, <1>2, <1>3 DEF Mac!Accept, Outs

LEMMA ReportStep ==
    ASSUME IInv, IInv', NEW a \in Addrs, NEW p \in Outstanding(a),
           \A q \in Outstanding(a) : ~Earlier(a, q, p),
           \A b \in Addrs : Outstanding(b)' = Outstanding(b) \ {p},
           \A b \in Addrs : \A r, s \in Outstanding(b) \ {p} : Earlier(b, r, s)' <=> Earlier(b, r, s)
    PROVE  Mac!Report(a, p)
  <1>1. \A b \in Addrs : p \in Outstanding(b) => b = a
    BY OneDestination
  <1>2. Outs' = [Outs EXCEPT ![a] = @ \ {p}]
    <2>1. \A b \in Addrs : Outstanding(b)' = IF b = a THEN Outstanding(a) \ {p} ELSE Outstanding(b)
      BY <1>1
    <2> QED BY <2>1 DEF Outs
  <1>3. Outs[a] = Outstanding(a) /\ Outstanding(a) \subseteq Packets
    BY UnreportedType DEF Outs
  <1>4. \A q \in Outs[a] : <<q, p>> \notin Before
    BY <1>1, <1>3, BeforeIn
  <1>5. Before' = Before \ ({p} \X Outs[a])
    <2>2. Before' \in SUBSET (Packets \X Packets) /\ Before \in SUBSET (Packets \X Packets)
      <3>1. (IInv => Before \in SUBSET (Packets \X Packets))'
        BY BeforeType, PTL
      <3> QED BY <3>1, BeforeType
    <2>3. \A r, s : <<r, s>> \in Before' <=>
             \E b \in Addrs : r \in Outstanding(b)' /\ s \in Outstanding(b)' /\ Earlier(b, r, s)'
      BY DEF Before
    <2> DEFINE B == Before \ ({p} \X Outstanding(a))
    <2>4. ASSUME NEW r \in Packets, NEW s \in Packets
          PROVE  <<r, s>> \in Before' <=> <<r, s>> \in B
      <3>0. <<r, s>> \in B <=> <<r, s>> \in Before /\ ~(r = p /\ s \in Outstanding(a))
        OBVIOUS
      <3> HIDE DEF B
      <3>1. <<r, s>> \in Before' <=>
               \E b \in Addrs : /\ r \in Outstanding(b) /\ s \in Outstanding(b) /\ r # p /\ s # p
                                /\ Earlier(b, r, s)
        BY <2>3
      <3>2. <<r, s>> \in Before <=>
               \E b \in Addrs : r \in Outstanding(b) /\ s \in Outstanding(b) /\ Earlier(b, r, s)
        BY BeforeIn
      <3>3. s = p => <<r, s>> \notin Before
        BY <1>1, <3>2
      <3>4. r = p /\ <<r, s>> \in Before => s \in Outstanding(a)
        BY <1>1, <3>2
      <3> QED BY <3>0, <3>1, <3>2, <3>3, <3>4
    <2>5. B \in SUBSET (Packets \X Packets)
      BY <2>2
    <2> HIDE DEF B
    <2>7. Before' = B
      BY <2>2, <2>4, <2>5, PairsEqual
    <2> QED BY <1>3, <2>7 DEF B
  <1> QED BY <1>2, <1>3, <1>4, <1>5 DEF Mac!Report, Outs

LEMMA EnqueueServes ==
    ASSUME IInv, IInv', NEW a \in Addrs, NEW max \in Nat, Enqueue(a, max)
    PROVE  (\E p \in Packets : Mac!Accept(a, p)) \/ UNCHANGED <<Outs, Before>>
  <1> DEFINE free == {p \in Packets : ~packet[p].used}
             full == Len(nbr[a].tx_ringbuf) = QueueSize \/ free = {}
             first == CHOOSE p \in free : TRUE
             new == [FreePacket EXCEPT !.used = TRUE, !.dest = a, !.max = max]
  <1>1. Unreported' = Unreported
    BY DEF Enqueue, Unreported
  <1>2. CASE full
    <2>1. UNCHANGED <<nbr, packet>>
      BY <1>2 DEF Enqueue
    <2> QED BY <1>1, <2>1, SamePlaces DEF Queue
  <1>3. CASE ~full
    <2>0. PICK p \in Packets : p = first /\ ~packet[p].used
      BY <1>3
    <2>1. /\ packet' = [packet EXCEPT ![p] = new]
          /\ nbr' = [nbr EXCEPT ![a].tx_ringbuf = Append(@, p)]
      BY <1>3, <2>0 DEF Enqueue
    <2>2. p \in Packets /\ ~packet[p].used
      BY <2>0
    <2> HIDE DEF first, new
    <2>3. \A b \in Addrs : p \notin Outstanding(b)
      BY <2>2, OneDestination
    <2>4. p \notin ToSet(Unreported) /\ ToSet(Unreported) \subseteq Packets
      BY <2>2, UnreportedType
    <2>5. p \notin ToSet(Queue(a)) /\ Queue(a) \in Seq(Packets)
      BY <2>3, QueueType DEF IInv, TypeInv, Outstanding, Queue
    <2>6. /\ Queue(a)' = Append(Queue(a), p)
          /\ \A b \in Addrs : b # a => Queue(b)' = Queue(b)
      BY <2>1 DEF IInv, TypeInv, NbrTypes, NbrType, Queue
    <2>7. \A r \in ToSet(Unreported) : packet'[r] = packet[r]
      BY <2>1, <2>4 DEF IInv, TypeInv, PacketTypes
    <2>8. ToSet(Append(Queue(a), p)) = ToSet(Queue(a)) \cup {p}
      BY <2>2, <2>5, AppendElements
    <2>9. \A b \in Addrs : Outstanding(b)' = IF b = a THEN Outstanding(b) \cup {p} ELSE Outstanding(b)
      BY <1>1, <2>6, <2>7, <2>8 DEF Outstanding, Queue
    <2>10. \A r, s : Precedes(Append(Queue(a), p), r, s)
                       <=> Precedes(Queue(a), r, s) \/ (r \in ToSet(Queue(a)) /\ s = p)
      BY <2>2, <2>5, PrecedesAppend
    <2>11. \A r, s : Precedes(Queue(a), r, s) => r # p /\ s # p
      BY <2>5, PrecedesIn
    <2>12. \A r, s : Precedes(Unreported, r, s) => r # p /\ s # p
      BY <2>4, UnreportedType, PrecedesIn
    <2>13. \A r, s : Earlier(a, r, s)' <=>
              \/ Precedes(Unreported, r, s)
              \/ r \in ToSet(Unreported) /\ s \in ToSet(Queue(a)) \cup {p}
              \/ Precedes(Queue(a), r, s) \/ (r \in ToSet(Queue(a)) /\ s = p)
      BY <1>1, <2>6, <2>8, <2>10 DEF Earlier, Queue
    <2>14. \A r, s : Earlier(a, r, s) <=>
              \/ Precedes(Unreported, r, s)
              \/ r \in ToSet(Unreported) /\ s \in ToSet(Queue(a))
              \/ Precedes(Queue(a), r, s)
      BY DEF Earlier, Queue
    <2>15. \A b \in Addrs : b # a => \A r, s : Earlier(b, r, s)' <=> Earlier(b, r, s)
      BY <1>1, <2>6 DEF Earlier, Queue
    <2>16. \A b \in Addrs : \A r, s \in Outstanding(b) : Earlier(b, r, s)' <=> Earlier(b, r, s)
      BY <2>3, <2>13, <2>14, <2>15
    <2>17. \A r \in Outstanding(a) : r \in ToSet(Unreported) \/ r \in ToSet(Queue(a))
      BY DEF Outstanding, Queue
    <2>18. \A r \in Outstanding(a) : Earlier(a, r, p)' /\ ~Earlier(a, p, r)'
      BY <2>3, <2>4, <2>5, <2>11, <2>12, <2>13, <2>17
    <2>19. ~Earlier(a, p, p)'
      BY <2>4, <2>5, <2>11, <2>12, <2>13
    <2> QED BY <2>2, <2>3, <2>9, <2>16, <2>18, <2>19, AcceptStep
  <1> QED BY <1>2, <1>3

LEMMA CallbackServes ==
    ASSUME IInv, IInv', Callback
    PROVE  \E a \in Addrs, p \in Packets : Mac!Report(a, p)
  <1> DEFINE p == Head(Unreported)
             a == packet[p].dest
  <1>1. Unreported # << >> /\ Unreported' = Tail(Unreported) /\ UNCHANGED <<nbr, packet>>
    BY DEF Callback, Unreported, poolVars
  <1>2. /\ Unreported \in Seq(Packets) /\ IsInjective(Unreported)
        /\ \A r \in ToSet(Unreported) : packet[r].dest \in Addrs /\ \A b \in Addrs : r \notin ToSet(Queue(b))
    BY UnreportedType
  <1>3. /\ p \in Packets /\ p \in ToSet(Unreported) /\ p \notin ToSet(Tail(Unreported))
        /\ ToSet(Unreported) = ToSet(Tail(Unreported)) \cup {p}
    BY <1>1, <1>2, TailElements
  <1>4. a \in Addrs /\ \A b \in Addrs : p \notin ToSet(Queue(b))
    BY <1>2, <1>3
  <1>5. p \in Outstanding(a)
    BY <1>3 DEF Outstanding
  <1>6. \A r, s : /\ Precedes(Tail(Unreported), r, s) <=> Precedes(Unreported, r, s) /\ r # p
                  /\ ~Precedes(Unreported, r, p)
    BY <1>1, <1>2, PrecedesTail
  <1> HIDE DEF p, a
  <1>7. \A b \in Addrs : Queue(b) \in Seq(Packets)
    BY QueueType DEF IInv, TypeInv
  <1>8. \A b \in Addrs : Outstanding(b)' = Outstanding(b) \ {p}
    BY <1>1, <1>3, <1>4 DEF Outstanding, Queue
  <1>9. \A b \in Addrs : \A r, s \in Outstanding(b) \ {p} : Earlier(b, r, s)' <=> Earlier(b, r, s)
    BY <1>1, <1>3, <1>6 DEF Earlier
  <1>10. \A q : ~Precedes(Queue(a), q, p)
    BY <1>4, <1>7, PrecedesIn
  <1>11. \A q \in Outstanding(a) : ~Earlier(a, q, p)
    BY <1>4, <1>6, <1>10 DEF Earlier, Queue
  <1> QED BY <1>3, <1>4, <1>5, <1>8, <1>9, <1>11, ReportStep

LEMMA FlushPacketServes ==
    ASSUME IInv, IInv', NEW a \in Addrs, FlushPacket(a)
    PROVE  \E p \in Packets : Mac!Report(a, p)
  <1> DEFINE p == Head(Queue(a))
  <1>1. /\ pc = "flush" /\ pc' = pc /\ Queue(a) # << >> /\ dequeued_ringbuf' = dequeued_ringbuf
        /\ nbr' = [nbr EXCEPT ![a].tx_ringbuf = Tail(@)]
    BY DEF FlushPacket, Queue
  <1>2. Unreported = << >> /\ Unreported' = << >> /\ ToSet(<< >>) = {}
    BY <1>1, EmptyElements DEF IInv, ResetQuiet, Unreported
  <1>3. Queue(a) \in Seq(Packets) /\ IsInjective(Queue(a))
    BY QueueType DEF IInv, TypeInv, QueuesOfKnown
  <1>4. /\ p \in Packets /\ p \in ToSet(Queue(a)) /\ p \notin ToSet(Tail(Queue(a)))
        /\ ToSet(Queue(a)) = ToSet(Tail(Queue(a))) \cup {p}
    BY <1>1, <1>3, TailElements
  <1>5. \A r, s : /\ Precedes(Tail(Queue(a)), r, s) <=> Precedes(Queue(a), r, s) /\ r # p
                  /\ ~Precedes(Queue(a), r, p)
    BY <1>1, <1>3, PrecedesTail
  <1> HIDE DEF p
  <1>6. Queue(a)' = Tail(Queue(a)) /\ \A b \in Addrs : b # a => Queue(b)' = Queue(b)
    BY <1>1 DEF IInv, TypeInv, NbrTypes, NbrType, Queue
  <1>7. \A b \in Addrs : Outstanding(b) = ToSet(Queue(b)) /\ Outstanding(b)' = ToSet(Queue(b)')
    BY <1>2 DEF Outstanding, Queue
  <1>8. \A b \in Addrs : b # a => p \notin ToSet(Queue(b))
    BY <1>4 DEF IInv, Places
  <1>9. \A b \in Addrs : Outstanding(b)' = Outstanding(b) \ {p}
    BY <1>4, <1>6, <1>7, <1>8
  <1>a. ~Precedes(<< >>, p, p) /\ \A r, s : ~Precedes(<< >>, r, s)
    BY DEF Precedes
  <1>10. \A b \in Addrs : \A r, s : /\ Earlier(b, r, s) <=> Precedes(Queue(b), r, s)
                                    /\ Earlier(b, r, s)' <=> Precedes(Queue(b)', r, s)
    BY <1>2, <1>a DEF Earlier, Queue
  <1>11. \A b \in Addrs : \A r, s \in Outstanding(b) \ {p} : Earlier(b, r, s)' <=> Earlier(b, r, s)
    BY <1>5, <1>6, <1>10
  <1>12. \A q \in Outstanding(a) : ~Earlier(a, q, p)
    BY <1>5, <1>10
  <1>13. p \in Outstanding(a)
    BY <1>4, <1>7
  <1> QED BY <1>4, <1>9, <1>11, <1>12, <1>13, ReportStep

LEMMA PostTxServes ==
    ASSUME IInv, IInv', NEW a \in Addrs, Queue(a) # << >>, NEW p, p = Head(Queue(a)),
           NEW l, NEW shared, NEW status, NEW synced \in BOOLEAN,
           PostTx(l, shared, a, p, status, synced)
    PROVE  UNCHANGED <<Outs, Before>>
  <1> DEFINE done == Done(p, status)
             q == Queue(a)
  <1>1. nbr \in [Addrs -> NbrType] /\ q \in Seq(Packets) /\ IsInjective(q)
    BY QueueType DEF IInv, TypeInv, NbrTypes, QueuesOfKnown
  <1>2. /\ p \in Packets /\ p \in ToSet(q) /\ p \notin ToSet(Tail(q))
        /\ ToSet(q) = ToSet(Tail(q)) \cup {p} /\ Tail(q) \in Seq(Packets)
    BY <1>1, TailElements
  <1>3. packet[p].dest = a /\ \A b \in Addrs : p \in ToSet(Queue(b)) => b = a
    BY <1>2 DEF IInv, Places
  <1>4. done \in BOOLEAN
    BY DEF Done
  <1>5. \A r \in Packets : packet'[r].dest = packet[r].dest
    BY <1>2 DEF PostTx, IInv, TypeInv, PacketTypes, PacketType
  <1>6. /\ dequeued_ringbuf' = IF done THEN Append(dequeued_ringbuf, p) ELSE dequeued_ringbuf
        /\ pc' = pc
    BY DEF PostTx
  <1>7. /\ Queue(a)' \in QueuesAfter(q, p, done)
        /\ \A b \in Addrs : b # a => Queue(b)' = Queue(b)
    BY PostTxQueues DEF IInv, TypeInv
  <1> HIDE DEF done
  <1>9. /\ Queue(a)' = IF done THEN Tail(q) ELSE q
        /\ \A b \in Addrs : b # a => Queue(b)' = Queue(b)
    BY <1>4, <1>7 DEF QueuesAfter
  <1>10. /\ Unreported \in Seq(Packets) /\ ToSet(Unreported) \subseteq Packets
         /\ p \notin ToSet(Unreported)
    BY <1>2, UnreportedType
  <1>11. CASE ~done
    <2>1. Unreported' = Unreported /\ \A b \in Addrs : Queue(b)' = Queue(b)
      BY <1>6, <1>9, <1>11 DEF Unreported
    <2> QED BY <1>5, <1>10, <2>1, SamePlaces
  <1>12. CASE done
    <2>1. Unreported' = Append(Unreported, p)
      BY <1>2, <1>6, <1>12, AppendElements DEF Unreported, IInv, TypeInv, RingTypes
    <2>2. ToSet(Unreported)' = ToSet(Unreported) \cup {p}
      BY <1>2, <1>10, <2>1, AppendElements
    <2>3. Queue(a)' = Tail(q) /\ \A b \in Addrs : b # a => Queue(b)' = Queue(b)
      BY <1>9, <1>12
    <2>4. \A b \in Addrs : Outstanding(b)' =
             {r \in ToSet(Unreported) \cup {p} : packet[r].dest = b} \cup ToSet(Queue(b)')
      BY <1>2, <1>5, <1>10, <2>2 DEF Outstanding, Queue
    <2>5. \A b \in Addrs : Outstanding(b)' = Outstanding(b)
      BY <1>2, <1>3, <2>3, <2>4 DEF Outstanding, Queue
    <2>6. \A r, s : Precedes(Unreported', r, s)
                      <=> Precedes(Unreported, r, s) \/ (r \in ToSet(Unreported) /\ s = p)
      BY <1>2, <1>10, <2>1, PrecedesAppend
    <2>7. \A r, s : /\ Precedes(Tail(q), r, s) <=> Precedes(q, r, s) /\ r # p
                    /\ Precedes(q, p, s) <=> s \in ToSet(Tail(q))
      BY <1>1, PrecedesTail
    <2>8. \A b \in Addrs : \A r, s : Earlier(b, r, s)' <=>
             \/ Precedes(Unreported, r, s) \/ (r \in ToSet(Unreported) /\ s = p)
             \/ r \in ToSet(Unreported) \cup {p} /\ s \in ToSet(Queue(b)')
             \/ Precedes(Queue(b)', r, s)
      BY <2>2, <2>6 DEF Earlier, Queue
    <2>9. \A b \in Addrs : \A r, s : Earlier(b, r, s) <=>
             \/ Precedes(Unreported, r, s)
             \/ r \in ToSet(Unreported) /\ s \in ToSet(Queue(b))
             \/ Precedes(Queue(b), r, s)
      BY DEF Earlier, Queue
    <2>10. \A r, s : Earlier(a, r, s)' <=> Earlier(a, r, s)
      <3> SUFFICES ASSUME NEW r, NEW s PROVE Earlier(a, r, s)' <=> Earlier(a, r, s)
        OBVIOUS
      <3>1. Earlier(a, r, s)' <=>
             \/ Precedes(Unreported, r, s) \/ (r \in ToSet(Unreported) /\ s = p)
             \/ r \in ToSet(Unreported) \cup {p} /\ s \in ToSet(Tail(q))
             \/ Precedes(Tail(q), r, s)
        BY <2>3, <2>8
      <3>2. Earlier(a, r, s) <=>
             \/ Precedes(Unreported, r, s)
             \/ r \in ToSet(Unreported) /\ s \in ToSet(q)
             \/ Precedes(q, r, s)
        BY <2>9
      <3> QED BY <1>2, <2>7, <3>1, <3>2
    <2>11. \A b \in Addrs : b # a => \A r, s \in Outstanding(b) : r # p /\ s # p
      BY <1>3, OneDestination
    <2>12. \A b \in Addrs : \A r, s \in Outstanding(b) : Earlier(b, r, s)' <=> Earlier(b, r, s)
      BY <2>3, <2>8, <2>9, <2>10, <2>11
    <2> QED BY <2>5, <2>12, SameOutstanding
  <1> QED BY <1>4, <1>11, <1>12

\* The steps that neither accept nor report a packet
LEMMA HiddenSteps ==
    ASSUME IInv, IInv', ~torn,
           \/ \E a \in TimeSources : tsch_queue_update_time_source(a) \/ tsch_associate(a)
           \/ tsch_disassociate \/ HandlePoll \/ NeighborsFreed \/ PendingDone \/ StartReset
           \/ FinishReset \/ FreeReported \/ GetDequeued
           \/ \E l : TxStart(l)
           \/ UNCHANGED vars
    PROVE  UNCHANGED <<Outs, Before>>
  <1> USE DEF isrVars, poolVars
  <1>1. UNCHANGED nbr
    BY DEF tsch_queue_update_time_source, tsch_associate, tsch_disassociate, HandlePoll,
           NeighborsFreed, PendingDone, StartReset, FinishReset, FreeReported, GetDequeued, TxStart, vars
  <1>2. Unreported' = Unreported
    <2>1. CASE FreeReported \/ GetDequeued
      BY <2>1 DEF FreeReported, GetDequeued, Unreported
    <2>2. CASE NeighborsFreed \/ PendingDone \/ StartReset \/ FinishReset \/ HandlePoll
      BY <2>2 DEF NeighborsFreed, PendingDone, StartReset, FinishReset, HandlePoll, Unreported
    <2>3. CASE \/ \E a \in TimeSources : tsch_queue_update_time_source(a) \/ tsch_associate(a)
               \/ tsch_disassociate \/ UNCHANGED vars \/ \E l : TxStart(l)
      <3>1. UNCHANGED <<pc, dequeued_ringbuf>>
        BY <2>3 DEF tsch_queue_update_time_source, tsch_associate, tsch_disassociate, TxStart, vars
      <3> QED BY <3>1 DEF Unreported
    <2> QED BY <2>1, <2>2, <2>3
  <1>3. \A p \in ToSet(Unreported) : packet'[p].dest = packet[p].dest
    <2>1. CASE FreeReported
      <3>1. pc = "reported" /\ packet' = [packet EXCEPT ![Head(dequeued_ringbuf)] = Freed(@)]
        BY <2>1 DEF FreeReported
      <3>2. /\ dequeued_ringbuf \in Seq(Packets) /\ dequeued_ringbuf # << >>
            /\ IsInjective(dequeued_ringbuf) /\ Unreported = Tail(dequeued_ringbuf)
        BY <3>1 DEF IInv, TypeInv, RingTypes, Places, Dequeued, Unreported
      <3>3. Head(dequeued_ringbuf) \notin ToSet(Unreported) /\ ToSet(Unreported) \subseteq Packets
        BY <3>2, TailElements, UnreportedType
      <3> QED BY <3>1, <3>3 DEF IInv, TypeInv, PacketTypes
    <2>2. CASE ~FreeReported
      <3>1. UNCHANGED packet
        BY <2>2 DEF tsch_queue_update_time_source, tsch_associate, tsch_disassociate, HandlePoll,
               NeighborsFreed, PendingDone, StartReset, FinishReset, GetDequeued, TxStart, vars
      <3> QED BY <3>1
    <2> QED BY <2>1, <2>2
  <1> QED BY <1>1, <1>2, <1>3, SamePlaces DEF Queue

LEMMA FreeNeighborServes == ASSUME IInv, IInv', FreeNeighbor PROVE UNCHANGED <<Outs, Before>>
  <1>1. \A b \in Addrs : Queue(b)' = Queue(b)
    BY FreeNeighborType DEF IInv
  <1>2. Unreported' = Unreported /\ UNCHANGED packet
    BY DEF FreeNeighbor, Unreported
  <1> QED BY <1>1, <1>2, SamePlaces

LEMMA QueuesFlushedServes == ASSUME IInv, IInv', QueuesFlushed PROVE UNCHANGED <<Outs, Before>>
  <1>1. \A a \in Addrs : Queue(a)' = Queue(a)
    BY NewNbrType DEF QueuesFlushed, IInv, QueuesOfKnown, Known, Queue
  <1>2. Unreported' = Unreported /\ UNCHANGED packet
    BY DEF QueuesFlushed, Unreported
  <1> QED BY <1>1, <1>2, SamePlaces

LEMMA IdleSlotServes ==
    ASSUME IInv, IInv', NEW l, NEW synced \in BOOLEAN, IdleSlot(l, synced)
    PROVE  UNCHANGED <<Outs, Before>>
  <1>1. \A a \in Addrs : Queue(a)' = Queue(a)
    BY IdleSlotType DEF IInv
  <1>2. Unreported' = Unreported /\ UNCHANGED packet
    BY DEF IdleSlot, Unreported
  <1> QED BY <1>1, <1>2, SamePlaces

LEMMA TransmissionServes ==
    ASSUME IInv, IInv', NEW synced \in BOOLEAN, TxEnd \/ \E l : TxUnprepared(l, synced)
    PROVE  UNCHANGED <<Outs, Before>>
  <1>1. CASE TxEnd
    <2> DEFINE a == current_neighbor
    <2>1. slot
      BY <1>1, TxEndIsPostTx
    <2>2. Queue(a) # << >> /\ current_packet = Head(Queue(a)) /\ a \in Addrs
      BY <2>1 DEF IInv, CurrentIsHead, TypeInv, SlotTypes, Queue
    <2>3. PICK shared \in BOOLEAN, status \in Status, b \in BOOLEAN :
              PostTx(current_link, shared, a, current_packet, status, b)
      BY <1>1, TxEndIsPostTx
    <2> HIDE DEF a
    <2> QED BY <2>2, <2>3, PostTxServes
  <1>2. CASE \E l : TxUnprepared(l, synced)
    <2>1. PICK l : TxUnprepared(l, synced)
      BY <1>2
    <2> DEFINE a == NeighborForLink(l)
    <2>2. a # None /\ PostTx(l, Shared(l), a, Head(Queue(a)), mac_tx_status, synced)
      BY <2>1 DEF TxUnprepared, Queue
    <2>3. a \in Addrs /\ Queue(a) # << >>
      BY <2>2, NeighborForLinkHasPacket DEF IInv, TypeInv
    <2> HIDE DEF a
    <2> QED BY <2>2, <2>3, PostTxServes
  <1> QED BY <1>1, <1>2

LEMMA NextServes ==
    ASSUME IInv, IInv', ~torn, [Next]_vars
    PROVE  Mac!Next \/ UNCHANGED <<Outs, Before>>
  <1>1. ASSUME NEW a \in Unicast \cup {Broadcast}, send_packet(a)
        PROVE  Mac!Next \/ UNCHANGED <<Outs, Before>>
    <2>1. a \in Addrs /\ Enqueue(a, MaxTransmissions) /\ MaxTransmissions \in Nat
      BY <1>1, Constants DEF send_packet, Addrs
    <2> QED BY <2>1, EnqueueServes DEF Mac!Next
  <1>2. CASE SendEb
    <2>1. EB \in Addrs /\ Enqueue(EB, 1) /\ 1 \in Nat
      BY <1>2 DEF SendEb, Addrs
    <2> QED BY <2>1, EnqueueServes DEF Mac!Next
  <1>3. CASE Callback
    BY <1>3, CallbackServes DEF Mac!Next
  <1>4. ASSUME NEW a \in Addrs, FlushPacket(a) PROVE Mac!Next
    BY <1>4, FlushPacketServes DEF Mac!Next
  <1>5. CASE Process
    <2>1. \/ \E a \in TimeSources : tsch_queue_update_time_source(a) \/ tsch_associate(a)
          \/ tsch_disassociate \/ HandlePoll \/ NeighborsFreed \/ PendingDone \/ StartReset
          \/ FinishReset \/ FreeReported \/ GetDequeued
          \/ (\E a \in Unicast \cup {Broadcast} : send_packet(a)) \/ SendEb \/ Callback
          \/ (\E a \in Addrs : FlushPacket(a)) \/ FreeNeighbor \/ QueuesFlushed
      BY <1>5, Zenon DEF Process
    <2> QED BY <1>1, <1>2, <1>3, <1>4, <2>1, HiddenSteps, FreeNeighborServes, QueuesFlushedServes
  <1>6. CASE Interrupt
    BY <1>6, TransmissionServes, IdleSlotServes, HiddenSteps DEF Interrupt, SlotOver
  <1> QED BY <1>5, <1>6, HiddenSteps DEF Next

\* The step that tears a slot is hidden as well: PendingDone only moves pc
LEMMA PendingDoneServes == ASSUME TypeInv, PendingDone PROVE UNCHANGED <<Outs, Before>>
  <1>1. UNCHANGED <<nbr, packet, dequeued_ringbuf>> /\ Unreported' = Unreported
    BY DEF PendingDone, poolVars, Unreported
  <1> QED BY <1>1 DEF Outs, Before, Outstanding, Earlier

LEMMA TornByPendingDone == [Next]_vars /\ ~torn /\ torn' => PendingDone
  BY DEF Next, Process, Interrupt, SlotOver, send_packet, SendEb, Enqueue,
         tsch_queue_update_time_source, tsch_disassociate, HandlePoll, Callback, FreeReported,
         FreeNeighbor, NeighborsFreed, GetDequeued, StartReset, FlushPacket,
         QueuesFlushed, FinishReset, tsch_associate, IdleSlot, TxStart, TxUnprepared, TxEnd,
         PostTx, vars

\* The promise of mac.h to the layer above: tsch_queue_add_packet accepts a
\* packet, tsch_tx_process_pending or the flush of tsch_reset reports it, once
\* and in the order of sending per destination, and no other step of the
\* processes or of the slot operation is seen, until a tsch_reset comes to the
\* queues in a Tx slot.
THEOREM QueueImplementsMacService == Spec => ImplementsMacService
  <1>1. Init => Mac!Init
    <2> SUFFICES ASSUME Init PROVE Mac!Init
      OBVIOUS
    <2>1. Unreported = << >> /\ \A a \in Addrs : nbr[a].tx_ringbuf = << >>
      BY NewNbrType DEF Init, Unreported
    <2>2. \A a \in Addrs : Outstanding(a) = {}
      BY <2>1, EmptyElements DEF Outstanding
    <2>3. Before = {}
      BY <2>2 DEF Before
    <2> QED BY <2>2, <2>3 DEF Mac!Init
  <1>2. Inv /\ Inv' /\ [Next]_vars => [torn \/ Mac!Next]_<<Outs, Before>>
    <2> SUFFICES ASSUME Inv, Inv', [Next]_vars, ~torn PROVE [Mac!Next]_<<Outs, Before>>
      OBVIOUS
    <2>1. CASE torn'
      BY <2>1, TornByPendingDone, PendingDoneServes DEF Inv
    <2>2. CASE ~torn'
      <3>1. IInv /\ IInv'
        BY <2>2 DEF Inv
      <3> QED BY <3>1, NextServes
    <2> QED BY <2>1, <2>2
  <1> QED BY <1>1, <1>2, QueueInvariant, PTL DEF Spec, ImplementsMacService, Mac!vars, Outs
================================================================================
