------------------------- MODULE TschAssociationProofs -------------------------
(***************************************************************************)
(* Proofs about TschAssociation for every set of neighbors and every size  *)
(* of the queue and the rings: types, the keepalives that never cease, and *)
(* the network that a node joins without leftovers of the one before.      *)
(***************************************************************************)
EXTENDS TschAssociation, SequenceTheorems, TLAPS

-----------------------------------------------------------------------------
(* The inductive invariant *)

Statuses == {"ok", "noack", "err"}
Ebs == [src : Nbrs, fits : BOOLEAN]

FlagTypes == /\ tsch_is_associated \in BOOLEAN /\ tsch_is_coordinator \in BOOLEAN
             /\ posted \in BOOLEAN /\ slots \in BOOLEAN /\ synced \in BOOLEAN
             /\ desync \in BOOLEAN /\ ka_timeout \in BOOLEAN /\ keepalive_timer \in BOOLEAN
             /\ silent \in BOOLEAN /\ torn \in BOOLEAN

NodeTypes == /\ slot \in {"none", "listen", "other"} \cup Nbrs
             /\ pc \in {"scan", "slots"}
             /\ time_source \in Nbrs \cup {None} /\ last_eb_nbr \in Nbrs \cup {None}
             /\ roles \in 0 .. MaxRoleChanges

SeqTypes == /\ ka_queue \in Seq(Nbrs) /\ Len(ka_queue) <= QueueSize
            /\ ka_done \in Seq(Statuses) /\ Len(ka_done) <= RingSize
            /\ input_ringbuf \in Seq(Ebs) /\ Len(input_ringbuf) <= RingSize

\* The slot in progress has the place for its result that it found at its
\* start: the processes only take out of the rings
RoomKept == /\ slot = "listen" => Len(input_ringbuf) < RingSize
            /\ slot \in Nbrs => Len(ka_done) < RingSize

\* A scanning node has at most what the slot in progress at the reset left,
\* one EB or one keepalive's callback: so the callback finds no neighbor to
\* make a time source of
ScanClean ==
    pc = "scan" =>
        /\ ~tsch_is_associated /\ time_source = None /\ ka_queue = << >>
        /\ slot # "none" \/ ka_done # << >> => last_eb_nbr = None /\ input_ringbuf = << >>
        /\ slot # "none" => ka_done = << >>
        /\ ~torn => /\ slot = "none" /\ last_eb_nbr = None
                    /\ input_ringbuf = << >> /\ ka_done = << >>

\* A node with a time source knows how often to send keepalives
KaPeriod == time_source # None => ka_timeout

IInv == /\ FlagTypes /\ NodeTypes /\ SeqTypes
        /\ RoomKept /\ ScanClean /\ KaPeriod
        /\ tsch_is_associated => slots
        /\ KeepaliveKeptUp

LEMMA Constants ==
    /\ QueueSize \in Nat \ {0} /\ RingSize \in Nat \ {0} /\ MaxRoleChanges \in Nat
    /\ "none" \notin Nbrs /\ "listen" \notin Nbrs /\ "other" \notin Nbrs
    /\ None \notin Nbrs
  BY AssociationAssumption DEF None

LEMMA InitIInv == Init => IInv
  <1> SUFFICES ASSUME Init PROVE IInv
    OBVIOUS
  <1> USE Constants DEF Init
  <1>1. FlagTypes
    BY DEF FlagTypes
  <1>2. NodeTypes /\ SeqTypes /\ RoomKept
    BY DEF NodeTypes, SeqTypes, RoomKept
  <1>3. ScanClean /\ KaPeriod /\ KeepaliveKeptUp
    BY DEF ScanClean, KaPeriod, KeepaliveKeptUp
  <1> QED BY <1>1, <1>2, <1>3 DEF IInv

-----------------------------------------------------------------------------
(* tsch_process *)

LEMMA HandleEventIInv == IInv /\ HandleEvent => IInv'
  <1> SUFFICES ASSUME IInv, HandleEvent PROVE IInv'
    OBVIOUS
  <1> USE Constants DEF IInv
  <1>1. CASE pc = "slots" /\ ~tsch_is_associated
    <2> USE <1>1
    <2>1. tsch_reset /\ silent' = FALSE /\ posted' = FALSE
          /\ UNCHANGED <<tsch_is_coordinator, slot, roles>>
          /\ torn' = (torn \/ slot # "none")
      BY DEF HandleEvent
    <2>2. \/ /\ tsch_is_coordinator /\ tsch_is_associated' = TRUE /\ slots' = TRUE
             /\ desync' = FALSE /\ pc' = "slots"
          \/ /\ ~tsch_is_coordinator /\ pc' = "scan"
             /\ UNCHANGED <<tsch_is_associated, slots, desync>>
      BY DEF HandleEvent, StartCoordinator
    <2>8. /\ input_ringbuf' = << >> /\ ka_queue' = << >> /\ ka_done' = << >>
          /\ last_eb_nbr' = None /\ UNCHANGED synced
          /\ \/ time_source' = None /\ ka_timeout' = FALSE /\ keepalive_timer' = FALSE
             \/ /\ tsch_is_coordinator \/ time_source = None
                /\ UNCHANGED <<time_source, ka_timeout, keepalive_timer>>
      BY <2>1 DEF tsch_reset, tsch_queue_update_time_source
    <2>3. FlagTypes'
      BY <2>1, <2>2, <2>8 DEF FlagTypes
    <2>4. NodeTypes' /\ SeqTypes' /\ RoomKept'
      BY <2>1, <2>2, <2>8 DEF NodeTypes, SeqTypes, RoomKept
    <2>5. ScanClean'
      BY <2>1, <2>2, <2>8 DEF ScanClean, FlagTypes
    <2>7. KaPeriod'
      BY <2>1, <2>2, <2>8 DEF KaPeriod, FlagTypes
    <2>6. (tsch_is_associated => slots)' /\ KeepaliveKeptUp'
      BY <2>1, <2>2 DEF KeepaliveKeptUp
    <2> QED BY <2>3, <2>4, <2>5, <2>6, <2>7
  <1>2. CASE ~(pc = "slots" /\ ~tsch_is_associated)
    <2>1. /\ posted' = FALSE
          /\ UNCHANGED <<tsch_is_associated, pc, slots, silent, torn, syncVars, kaVars,
                         input_ringbuf, tsch_is_coordinator, slot, roles>>
      BY <1>2 DEF HandleEvent
    <2> USE <2>1 DEF syncVars, kaVars
    <2>2. FlagTypes'
      BY DEF FlagTypes
    <2>3. NodeTypes' /\ SeqTypes'
      BY DEF NodeTypes, SeqTypes
    <2>4. RoomKept' /\ ScanClean' /\ KaPeriod' /\ KeepaliveKeptUp'
      BY DEF RoomKept, ScanClean, KaPeriod, KeepaliveKeptUp
    <2> QED BY <2>2, <2>3, <2>4
  <1> QED BY <1>1, <1>2

LEMMA tsch_associateIInv == ASSUME IInv, NEW n \in Nbrs, tsch_associate(n) PROVE IInv'
  <1> USE Constants DEF IInv, tsch_associate
  <1>1. FlagTypes'
    BY DEF FlagTypes
  <1>2. NodeTypes' /\ SeqTypes' /\ RoomKept'
    BY DEF NodeTypes, SeqTypes, RoomKept
  <1>3. ScanClean'
    BY DEF ScanClean, FlagTypes
  <1>4. KaPeriod' /\ (tsch_is_associated => slots)'
    BY DEF KaPeriod, FlagTypes
  <1>5. KeepaliveKeptUp'
    BY DEF KeepaliveKeptUp, FlagTypes, KaPeriod
  <1> QED BY <1>1, <1>2, <1>3, <1>4, <1>5

LEMMA ScanEndsIInv == IInv /\ ScanEnds => IInv'
  <1> SUFFICES ASSUME IInv, ScanEnds PROVE IInv'
    OBVIOUS
  <1> USE Constants DEF IInv, ScanEnds, StartCoordinator, kaVars
  <1>1. FlagTypes'
    BY DEF FlagTypes
  <1>2. NodeTypes' /\ SeqTypes' /\ RoomKept'
    BY DEF NodeTypes, SeqTypes, RoomKept
  <1>3. ScanClean'
    BY DEF ScanClean, FlagTypes
  <1>4. KaPeriod' /\ (tsch_is_associated => slots)'
    BY DEF KaPeriod, FlagTypes
  <1>5. KeepaliveKeptUp'
    BY DEF KeepaliveKeptUp, FlagTypes, KaPeriod
  <1> QED BY <1>1, <1>2, <1>3, <1>4, <1>5

-----------------------------------------------------------------------------
(* The other processes *)

LEMMA eb_inputIInv == IInv /\ eb_input => IInv'
  <1> SUFFICES ASSUME IInv, eb_input PROVE IInv'
    OBVIOUS
  <1> USE Constants DEF IInv, eb_input, tsch_disassociate, kaVars
  <1>1. FlagTypes'
    BY DEF FlagTypes
  <1>2. NodeTypes' /\ SeqTypes' /\ RoomKept'
    <2>1. Head(input_ringbuf) \in Ebs /\ Tail(input_ringbuf) \in Seq(Ebs)
          /\ Len(Tail(input_ringbuf)) = Len(input_ringbuf) - 1
      BY HeadTailProperties DEF SeqTypes
    <2>2. Head(input_ringbuf).src \in Nbrs
      BY <2>1 DEF Ebs
    <2> QED BY <2>1, <2>2 DEF NodeTypes, SeqTypes, RoomKept
  <1>3. ScanClean'
    BY DEF ScanClean, FlagTypes
  <1>4. KaPeriod' /\ (tsch_is_associated => slots)'
    BY DEF KaPeriod, FlagTypes
  <1>5. KeepaliveKeptUp'
    BY DEF KeepaliveKeptUp, FlagTypes, KaPeriod
  <1> QED BY <1>1, <1>2, <1>3, <1>4, <1>5

LEMMA KeepaliveSentIInv == IInv /\ KeepaliveSent => IInv'
  <1> SUFFICES ASSUME IInv, KeepaliveSent PROVE IInv'
    OBVIOUS
  <1> USE Constants DEF IInv, KeepaliveSent, keepalive_packet_sent, tsch_disassociate, tsch_schedule_keepalive
  <1>1. FlagTypes'
    BY DEF FlagTypes
  <1>2. NodeTypes' /\ SeqTypes' /\ RoomKept'
    BY DEF NodeTypes, SeqTypes, RoomKept
  <1>3. ScanClean'
    BY DEF ScanClean, FlagTypes
  <1>4. KaPeriod' /\ (tsch_is_associated => slots)'
    BY DEF KaPeriod, FlagTypes
  <1>5. KeepaliveKeptUp'
    BY DEF KeepaliveKeptUp, FlagTypes, KaPeriod
  <1> QED BY <1>1, <1>2, <1>3, <1>4, <1>5

LEMMA keepalive_sendIInv == IInv /\ keepalive_send => IInv'
  <1> SUFFICES ASSUME IInv, keepalive_send PROVE IInv'
    OBVIOUS
  <1> USE Constants DEF IInv, keepalive_send, netVars, syncVars
  <1>1. FlagTypes'
    BY DEF FlagTypes
  <1>2. NodeTypes' /\ SeqTypes' /\ RoomKept'
    BY DEF NodeTypes, SeqTypes, RoomKept
  <1>3. ScanClean'
    BY DEF ScanClean, FlagTypes
  <1>4. KaPeriod' /\ (tsch_is_associated => slots)'
    BY DEF KaPeriod, FlagTypes
  <1>5. KeepaliveKeptUp'
    <2>1. tsch_is_associated /\ time_source # None /\ Len(ka_queue) < QueueSize => ka_queue' # << >>
      BY AppendProperties DEF NodeTypes, SeqTypes
    <2> QED BY <2>1 DEF KeepaliveKeptUp, FlagTypes, KaPeriod
  <1> QED BY <1>1, <1>2, <1>3, <1>4, <1>5

LEMMA ParentSwitchIInv == ASSUME IInv, NEW n \in Nbrs \cup {None}, ParentSwitch(n) PROVE IInv'
  <1> USE Constants DEF IInv, ParentSwitch, tsch_queue_update_time_source, netVars
  <1>1. FlagTypes'
    BY DEF FlagTypes
  <1>2. NodeTypes' /\ SeqTypes' /\ RoomKept'
    BY DEF NodeTypes, SeqTypes, RoomKept
  <1>3. ScanClean'
    BY DEF ScanClean, FlagTypes
  <1>4. KaPeriod' /\ (tsch_is_associated => slots)'
    <2>1. \/ time_source' = n /\ ka_timeout' = (n # None)
          \/ UNCHANGED <<time_source, ka_timeout>>
      OBVIOUS
    <2>2. \/ time_source' = None \/ ka_timeout' = TRUE
          \/ UNCHANGED <<time_source, ka_timeout>>
      BY <2>1
    <2>3. KaPeriod'
      BY <2>2 DEF KaPeriod
    <2> QED BY <2>3
  <1>5. KeepaliveKeptUp'
    <2>1. tsch_is_associated /\ UNCHANGED <<tsch_is_coordinator, ka_queue, ka_done>>
      OBVIOUS
    <2>2. \/ time_source' = n
             /\ keepalive_timer' = (n # None /\ (keepalive_timer \/ tsch_is_associated))
          \/ UNCHANGED <<time_source, keepalive_timer, tsch_is_associated>>
      OBVIOUS
    <2>3. \/ keepalive_timer' \/ time_source' = None
          \/ UNCHANGED <<time_source, keepalive_timer, tsch_is_associated>>
      BY <2>1, <2>2
    <2> QED BY <2>1, <2>3 DEF KeepaliveKeptUp
  <1> QED BY <1>1, <1>2, <1>3, <1>4, <1>5

LEMMA tsch_set_coordinatorIInv == ASSUME IInv, NEW enable \in BOOLEAN, tsch_set_coordinator(enable) PROVE IInv'
  <1> USE Constants DEF IInv, tsch_set_coordinator, syncVars, kaVars
  <1>1. FlagTypes'
    BY DEF FlagTypes
  <1>2. NodeTypes' /\ SeqTypes' /\ RoomKept'
    BY DEF NodeTypes, SeqTypes, RoomKept
  <1>3. ScanClean'
    BY DEF ScanClean, FlagTypes
  <1>4. KaPeriod' /\ (tsch_is_associated => slots)'
    BY DEF KaPeriod, FlagTypes
  <1>5. KeepaliveKeptUp'
    BY DEF KeepaliveKeptUp, FlagTypes, KaPeriod
  <1> QED BY <1>1, <1>2, <1>3, <1>4, <1>5

-----------------------------------------------------------------------------
(* The slot operation *)

LEMMA SlotStartIInv == IInv /\ SlotStart => IInv'
  <1> SUFFICES ASSUME IInv, SlotStart PROVE IInv'
    OBVIOUS
  <1> USE Constants DEF IInv, SlotStart, slotUnchanged, CanListen
  <1>1. FlagTypes'
    BY DEF FlagTypes
  <1>2. NodeTypes' /\ SeqTypes' /\ RoomKept'
    <2>1. ka_queue # << >> => Head(ka_queue) \in Nbrs
      BY HeadTailProperties DEF SeqTypes
    <2> QED BY <2>1 DEF NodeTypes, SeqTypes, RoomKept
  <1>3. ScanClean'
    BY DEF ScanClean, FlagTypes
  <1>4. KaPeriod' /\ (tsch_is_associated => slots)'
    BY DEF KaPeriod, FlagTypes
  <1>5. KeepaliveKeptUp'
    BY DEF KeepaliveKeptUp, FlagTypes, KaPeriod
  <1> QED BY <1>1, <1>2, <1>3, <1>4, <1>5

LEMMA SlotEndIInv == IInv /\ SlotEnd => IInv'
  <1> SUFFICES ASSUME IInv, SlotEnd PROVE IInv'
    OBVIOUS
  <1> USE Constants DEF IInv, SlotEnd, slotUnchanged, tsch_disassociate, Listened, KeepaliveTried, OtherSlot, Synchronize, NoSync, tsch_schedule_keepalive
  <1>1. FlagTypes'
    BY DEF FlagTypes
  <1>2. NodeTypes' /\ RoomKept'
    BY DEF NodeTypes, RoomKept
  <1>6. SeqTypes'
    <2>1. CASE Listened
      <3>1. ASSUME NEW src \in Nbrs, NEW fits \in BOOLEAN,
                   input_ringbuf' = Append(input_ringbuf, [src |-> src, fits |-> fits])
            PROVE  input_ringbuf' \in Seq(Ebs) /\ Len(input_ringbuf') = Len(input_ringbuf) + 1
        <4>1. [src |-> src, fits |-> fits] \in Ebs
          BY DEF Ebs
        <4> QED BY <3>1, <4>1, AppendProperties DEF SeqTypes
      <3>2. \/ input_ringbuf' = input_ringbuf
            \/ input_ringbuf' \in Seq(Ebs) /\ Len(input_ringbuf') = Len(input_ringbuf) + 1
        BY <2>1, <3>1
      <3> QED BY <2>1, <3>2 DEF SeqTypes, RoomKept
    <2>2. CASE KeepaliveTried
      <3>1. \A status \in Statuses : /\ Append(ka_done, status) \in Seq(Statuses)
                                      /\ Len(Append(ka_done, status)) = Len(ka_done) + 1
        BY AppendProperties DEF SeqTypes
      <3>2. ka_done' = ka_done \/ \E status \in Statuses : ka_done' = Append(ka_done, status)
        BY <2>2 DEF Statuses
      <3>3. ka_queue # << >> => Tail(ka_queue) \in Seq(Nbrs) /\ Len(Tail(ka_queue)) = Len(ka_queue) - 1
        BY HeadTailProperties DEF SeqTypes
      <3>4. ka_queue' = ka_queue \/ (ka_queue # << >> /\ ka_queue' = Tail(ka_queue))
        BY <2>2
      <3>5. input_ringbuf' = input_ringbuf /\ slot \in Nbrs
        BY <2>2
      <3>6. Len(ka_done) < RingSize /\ RingSize \in Nat /\ QueueSize \in Nat
        BY <3>5 DEF RoomKept
      <3> HIDE DEF SlotEnd, Listened, KeepaliveTried, OtherSlot, Synchronize, NoSync
      <3>a. /\ ka_done \in Seq(Statuses) /\ Len(ka_done) \in Nat
            /\ ka_queue \in Seq(Nbrs) /\ Len(ka_queue) \in Nat /\ Len(ka_queue) <= QueueSize
        BY LenProperties DEF SeqTypes
      <3> HIDE DEF IInv
      <3>7. ka_done' \in Seq(Statuses) /\ Len(ka_done') <= RingSize
        <4>1. CASE ka_done' = ka_done
          BY <3>6, <3>a, <4>1
        <4>2. ASSUME NEW status \in Statuses, ka_done' = Append(ka_done, status)
              PROVE  ka_done' \in Seq(Statuses) /\ Len(ka_done') <= RingSize
          BY <3>1, <3>6, <3>a, <4>2
        <4> QED BY <3>2, <4>1, <4>2
      <3>8. ka_queue' \in Seq(Nbrs) /\ Len(ka_queue') <= QueueSize
        <4>1. CASE ka_queue' = ka_queue
          BY <3>a, <4>1
        <4>2. CASE ka_queue # << >> /\ ka_queue' = Tail(ka_queue)
          BY <3>3, <3>6, <3>a, <4>2
        <4> QED BY <3>4, <4>1, <4>2
      <3> QED BY <3>5, <3>7, <3>8 DEF IInv, SeqTypes
    <2>3. CASE OtherSlot
      BY <2>3 DEF SeqTypes
    <2> QED BY <2>1, <2>2, <2>3
  <1>3. ScanClean'
    BY DEF ScanClean, FlagTypes
  <1>4. KaPeriod' /\ (tsch_is_associated => slots)'
    BY DEF KaPeriod, FlagTypes
  <1>5. KeepaliveKeptUp'
    <2>1. (ka_queue' = ka_queue /\ ka_done' = ka_done) \/ ka_done' # << >>
      <3>1. \A status \in Statuses : Append(ka_done, status) # << >>
        BY AppendProperties DEF SeqTypes
      <3> QED BY <3>1 DEF Statuses
    <2>2. UNCHANGED <<time_source, tsch_is_coordinator>> /\ (tsch_is_associated' => tsch_is_associated)
      BY DEF FlagTypes
    <2>3. keepalive_timer => keepalive_timer'
      BY DEF FlagTypes
    <2> QED BY <2>1, <2>2, <2>3 DEF KeepaliveKeptUp
  <1> QED BY <1>1, <1>2, <1>3, <1>4, <1>5, <1>6

LEMMA TimePassesIInv == IInv /\ TimePasses => IInv'
  <1> SUFFICES ASSUME IInv, TimePasses PROVE IInv'
    OBVIOUS
  <1> USE Constants DEF IInv, TimePasses, netVars, kaVars
  <1>1. FlagTypes'
    BY DEF FlagTypes
  <1>2. NodeTypes' /\ SeqTypes' /\ RoomKept'
    BY DEF NodeTypes, SeqTypes, RoomKept
  <1>3. ScanClean'
    BY DEF ScanClean, FlagTypes
  <1>4. KaPeriod' /\ (tsch_is_associated => slots)'
    BY DEF KaPeriod, FlagTypes
  <1>5. KeepaliveKeptUp'
    BY DEF KeepaliveKeptUp, FlagTypes, KaPeriod
  <1> QED BY <1>1, <1>2, <1>3, <1>4, <1>5

-----------------------------------------------------------------------------
(* The theorems *)

LEMMA NextIInv == IInv /\ [Next]_vars => IInv'
  <1>1. IInv /\ UNCHANGED vars => IInv'
    <2> SUFFICES ASSUME IInv, UNCHANGED vars PROVE IInv'
      OBVIOUS
    <2> USE DEF IInv, vars, netVars, syncVars, kaVars
    <2>1. FlagTypes'
      BY DEF FlagTypes
    <2>2. NodeTypes' /\ SeqTypes' /\ RoomKept'
      BY DEF NodeTypes, SeqTypes, RoomKept
    <2>3. ScanClean' /\ KaPeriod' /\ KeepaliveKeptUp'
      BY DEF ScanClean, KaPeriod, KeepaliveKeptUp
    <2> QED BY <2>1, <2>2, <2>3
  <1> QED BY <1>1, HandleEventIInv, tsch_associateIInv, ScanEndsIInv, eb_inputIInv,
             KeepaliveSentIInv, keepalive_sendIInv, ParentSwitchIInv, tsch_set_coordinatorIInv,
             SlotStartIInv, SlotEndIInv, TimePassesIInv
          DEF Next, PostedEvent, BroadcastEvent

LEMMA AssociationInvariant == Spec => []IInv
  BY InitIInv, NextIInv, PTL DEF Spec

\* Neither the queue of keepalives nor a ring overflows, although the slot
\* operation looked for room at the start of the slot and fills at its end;
\* a scanning node is not associated and has no time source, and the slots of
\* an associated one run (tsch.c, for every number of neighbors).
THEOREM AssociationTypeCorrect == Spec => []AssociationTypeOK
  <1>1. IInv => AssociationTypeOK
    <2> SUFFICES ASSUME IInv PROVE AssociationTypeOK
      OBVIOUS
    <2>1. /\ ToSet(ka_queue) \subseteq Nbrs /\ ToSet(ka_done) \subseteq Statuses
          /\ ToSet(input_ringbuf) \subseteq Ebs
      BY DEF IInv, SeqTypes, ToSet
    <2>2. {tsch_is_associated, tsch_is_coordinator, posted, slots, synced, desync, ka_timeout,
           keepalive_timer, silent, torn} \subseteq BOOLEAN
      BY DEF IInv, FlagTypes
    <2> QED BY <2>1, <2>2
            DEF IInv, NodeTypes, SeqTypes, ScanClean, Statuses, Ebs, AssociationTypeOK
  <1> QED BY <1>1, AssociationInvariant, PTL

\* The keepalives to the time source never cease: keepalive_packet_sent,
\* keepalive_send and every change of the time source leave one scheduled, in
\* the queue, or waiting for its callback.
THEOREM KeepaliveNeverCeases == Spec => []KeepaliveKeptUp
  <1>1. IInv => KeepaliveKeptUp
    BY DEF IInv
  <1> QED BY <1>1, AssociationInvariant, PTL

\* Nothing of the network it was in before is left when an ordinary node
\* joins one, unless tsch_reset came in the middle of a slot.
THEOREM AssociationSessionClean == Spec => SessionClean
  <1> DEFINE Clean == /\ last_eb_nbr' = None /\ ~synced' /\ ~desync'
                      /\ input_ringbuf' = << >> /\ ka_queue' = << >> /\ ka_done' = << >>
  <1>1. IInv /\ [Next]_vars =>
            (~tsch_is_associated /\ tsch_is_associated' /\ ~tsch_is_coordinator' /\ ~torn => Clean)
    <2> SUFFICES ASSUME IInv, [Next]_vars, ~tsch_is_associated, tsch_is_associated',
                        ~tsch_is_coordinator', ~torn
                 PROVE  Clean
      OBVIOUS
    <2>1. CASE \E n \in Nbrs : tsch_associate(n)
      BY <2>1 DEF tsch_associate, IInv, ScanClean
    <2>2. CASE PostedEvent \/ BroadcastEvent \/ ScanEnds
      <3>1. ~HandleEvent
        <4> SUFFICES ASSUME HandleEvent PROVE FALSE
          OBVIOUS
        <4>1. UNCHANGED tsch_is_coordinator
          BY DEF HandleEvent
        <4>2. tsch_is_coordinator \/ UNCHANGED tsch_is_associated
          BY DEF HandleEvent
        <4> QED BY <4>1, <4>2
      <3>2. ~ScanEnds
        <4> SUFFICES ASSUME ScanEnds PROVE FALSE
          OBVIOUS
        <4>1. tsch_is_coordinator /\ tsch_is_coordinator' = tsch_is_coordinator
          BY DEF ScanEnds
        <4> QED BY <4>1
      <3> QED BY <2>2, <3>1, <3>2 DEF PostedEvent, BroadcastEvent
    <2>3. CASE eb_input \/ KeepaliveSent \/ keepalive_send
      BY <2>3 DEF eb_input, KeepaliveSent, keepalive_send, keepalive_packet_sent,
                  tsch_disassociate, netVars
    <2>4. CASE (\E n \in Nbrs \cup {None} : ParentSwitch(n)) \/ (\E enable \in BOOLEAN : tsch_set_coordinator(enable))
      BY <2>4 DEF ParentSwitch, tsch_set_coordinator, netVars
    <2>5. CASE SlotStart \/ SlotEnd \/ TimePasses \/ UNCHANGED vars
      BY <2>5 DEF SlotStart, SlotEnd, TimePasses, tsch_disassociate, netVars, vars
    <2> QED BY <2>1, <2>2, <2>3, <2>4, <2>5 DEF Next
  <1> QED BY <1>1, AssociationInvariant, PTL DEF Spec, SessionClean
===============================================================================
