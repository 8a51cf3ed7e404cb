------------------------------ MODULE TschQueue ------------------------------
(***************************************************************************)
(* A packet's way through TSCH, from send_packet to the sent callback: the *)
(* per-neighbor queues of tsch-queue.c, their CSMA backoff, the Tx part of *)
(* the slot operation, the ring of dequeued packets between interrupt and  *)
(* process, tsch_tx_process_pending, and tsch_reset when the node leaves   *)
(* the network.                                                            *)
(*                                                                         *)
(* The schedule does not change here (TschSchedule, TschSlotOperation):    *)
(* slots come over the fixed set Links.  A stretch of code that runs with  *)
(* the TSCH lock is one step, possible only while no transmission is in    *)
(* progress (theorem LockExcludesTx of TschSlotOperationProofs).  The      *)
(* rings are sequences (theorem RingImplementsFifo of RingBufIndexProofs). *)
(*                                                                         *)
(* The definitions marked "Faulty variant" are not part of the             *)
(* specification: each is a plausible mistake that a property rejects when *)
(* it replaces the definition below it.                                    *)
(***************************************************************************)
EXTENDS Integers, Sequences, FiniteSets, FiniteSetsExt, SequencesExt

CONSTANTS
    Packets,                    \* the cells of packet_memb
    Unicast, Broadcast, EB,     \* unicast addresses and the two virtual ones
    TimeSources,                \* the neighbors that may become time source
    Links,                      \* records [link_options, addr, link_type]
    MaxNbrs,                    \* cells of neighbor_memb
    QueueSize, DequeuedSize,    \* what fits into a ring: one less than its array
    MaxTransmissions,
    TSCH_MAC_MIN_BE, TSCH_MAC_MAX_BE,
    MaxSends                    \* bound on the number of packets sent

ASSUME QueueAssumption == /\ {QueueSize, DequeuedSize, MaxNbrs, MaxTransmissions,
                              TSCH_MAC_MIN_BE, TSCH_MAC_MAX_BE, MaxSends} \subseteq Nat
                          /\ MaxTransmissions > 0
                          /\ TSCH_MAC_MIN_BE <= TSCH_MAC_MAX_BE
                          /\ EB # Broadcast /\ {EB, Broadcast} \cap Unicast = {}
                          /\ TimeSources \subseteq Unicast /\ IsFiniteSet(Unicast)

\* Arithmetic that the proofs use: the prover does not know powers
ASSUME PowerAssumption == \A be \in 0 .. TSCH_MAC_MAX_BE :
                              2^be \in Nat /\ 2^be <= 2^TSCH_MAC_MAX_BE

VARIABLES
    net,                \* "joined" (tsch_is_associated), "leaving" until
                        \* tsch_process runs tsch_reset, "resetting", "scanning"
    neighbor_list,      \* addresses in list order
    nbr,                \* queue and backoff state of every neighbor
    time_source,
    packet,             \* the cells of the packet pool
    dequeued_ringbuf,
    slot,               \* is a Tx slot in progress?
    current_link, current_neighbor, current_packet,
    mac_tx_status,      \* static in tsch_tx_slot: keeps its value between slots
    polled,             \* is tsch_pending_events_process polled?
    pc,                 \* where the process is
    sends,              \* packets sent so far
    torn                \* history: did tsch_reset come to the queues in a Tx slot?

poolVars == <<neighbor_list, nbr, time_source, packet, dequeued_ringbuf>>
isrVars == <<slot, current_link, current_neighbor, current_packet, mac_tx_status>>
vars == <<net, poolVars, isrVars, polled, pc, sends, torn>>

Addrs == Unicast \cup {Broadcast, EB}
None == "none"          \* NULL as a pointer to a packet or a neighbor
NoLink == [link_options |-> {}, addr |-> None, link_type |-> None]     \* NULL, to a link
Status == {"ok", "noack", "err", "deferred"}

is_broadcast(a) == a \in {Broadcast, EB}

\* The number of Tx links to a neighbor, kept by tsch-schedule.c
tx_links_count(a) == Cardinality({l \in Links : l.addr = a /\ "tx" \in l.link_options})

\* The neighbors of the links got their cells when the links were added
Linked == {a \in Unicast : tx_links_count(a) > 0}
ASSUME LinkedAssumption == 2 + Cardinality(Linked) <= MaxNbrs

NewNbr == [tx_ringbuf |-> << >>, backoff_window |-> 0, backoff_exponent |-> TSCH_MAC_MIN_BE]

FreePacket == [used |-> FALSE, dest |-> None, transmissions |-> 0, max |-> 0,
               ret |-> "deferred"]

\* tsch_queue_free_packet: a free cell keeps what is in it, which nobody reads
\* as long as no packet is freed that is still in use
Freed(cell) == IF torn THEN [FreePacket EXCEPT !.transmissions = cell.transmissions, !.max = cell.max]
               ELSE FreePacket

\* tsch_queue_init, the links are set up and the node has joined a network
Init == /\ net = "joined"
        /\ neighbor_list = <<EB, Broadcast>> \o SetToSeq(Linked)
        /\ nbr = [a \in Addrs |-> NewNbr]
        /\ time_source = None
        /\ packet = [p \in Packets |-> FreePacket]
        /\ dequeued_ringbuf = << >>
        /\ slot = FALSE
        /\ current_link = NoLink /\ current_neighbor = None /\ current_packet = None
        /\ mac_tx_status = "ok"
        /\ polled = FALSE
        /\ pc = "idle"
        /\ sends = 0
        /\ torn = FALSE

-----------------------------------------------------------------------------
(* Neighbors *)

Known(a) == a \in ToSet(neighbor_list)

\* tsch_queue_add_nbr can take the lock, and there is a cell
CanAdd(a) == Known(a) \/ (~slot /\ Len(neighbor_list) < MaxNbrs)

tsch_queue_add_nbr(a) == IF Known(a) THEN neighbor_list ELSE Append(neighbor_list, a)

\* Faulty variant: a neighbor with packets is unused if it has no link
unusedDespitePackets(a) == ~is_broadcast(a) /\ a # time_source /\ tx_links_count(a) = 0

\* What tsch_queue_free_unused_neighbors frees
Unused(a) == /\ ~is_broadcast(a) /\ a # time_source
             /\ tx_links_count(a) = 0 /\ nbr[a].tx_ringbuf = << >>

-----------------------------------------------------------------------------
(* The processes *)

\* The application, or a sent callback, may send
MaySend == net = "joined" /\ pc \in {"idle", "reported"} /\ sends < MaxSends

\* tsch_queue_add_packet: the queue and the packet pool may be full, then the
\* callback is called at once and nothing but the neighbor is left
Enqueue(a, max) ==
    /\ CanAdd(a)
    /\ neighbor_list' = tsch_queue_add_nbr(a)
    /\ LET free == {p \in Packets : ~packet[p].used}
       IN  IF Len(nbr[a].tx_ringbuf) = QueueSize \/ free = {} THEN UNCHANGED <<nbr, packet>>
           ELSE LET p == CHOOSE p \in free : TRUE
                IN  /\ packet' = [packet EXCEPT ![p] =
                                     [FreePacket EXCEPT !.used = TRUE, !.dest = a, !.max = max]]
                    /\ nbr' = [nbr EXCEPT ![a].tx_ringbuf = Append(@, p)]
    /\ sends' = sends + 1
    /\ UNCHANGED <<net, time_source, dequeued_ringbuf, isrVars, polled, pc, torn>>

send_packet(a) == MaySend /\ Enqueue(a, MaxTransmissions)

\* tsch_send_eb_process: only if there is no EB in the queue, and sent once
SendEb == MaySend /\ pc = "idle" /\ nbr[EB].tx_ringbuf = << >> /\ Enqueue(EB, 1)

\* From eb_input, tsch_rpl or the keepalive's callback
tsch_queue_update_time_source(a) ==
    /\ net = "joined" /\ pc \in {"idle", "reported"}
    /\ CanAdd(a)
    /\ neighbor_list' = tsch_queue_add_nbr(a)
    /\ time_source' = a
    /\ UNCHANGED <<net, nbr, packet, dequeued_ringbuf, isrVars, polled, pc, sends, torn>>

\* eb_input and keepalive_packet_sent leave the network, whatever the slot
\* operation is doing
tsch_disassociate ==
    /\ net = "joined" /\ pc \in {"idle", "reported"}
    /\ net' = "leaving"
    /\ UNCHANGED <<poolVars, isrVars, polled, pc, sends, torn>>

\* tsch_pending_events_process
HandlePoll == /\ pc = "idle" /\ polled
              /\ polled' = FALSE
              /\ pc' = "pending"
              /\ UNCHANGED <<net, poolVars, isrVars, sends, torn>>

\* tsch_tx_process_pending: look at the first dequeued packet, call back ...
Callback == /\ pc = "pending" /\ dequeued_ringbuf # << >>
            /\ pc' = "reported"
            /\ UNCHANGED <<net, poolVars, isrVars, polled, sends, torn>>

\* ... free it ...
FreeReported == /\ pc = "reported"
                /\ packet' = [packet EXCEPT ![Head(dequeued_ringbuf)] = Freed(@)]
                /\ pc' = "freed"
                /\ UNCHANGED <<net, neighbor_list, nbr, time_source, dequeued_ringbuf,
                               isrVars, polled, sends, torn>>

\* ... free unused neighbors: the walk over the list removes each one with the
\* lock (tsch_queue_remove_nbr).  tsch_reset does the same.
FreeNeighbor ==
    LET i == SelectInSeq(neighbor_list, Unused)
    IN  /\ pc \in {"freed", "flushed"} /\ i # 0 /\ ~slot
        /\ neighbor_list' = RemoveAt(neighbor_list, i)
        /\ nbr' = [nbr EXCEPT ![neighbor_list[i]] = NewNbr]
        /\ UNCHANGED <<net, time_source, packet, dequeued_ringbuf, isrVars, polled, pc, sends,
                       torn>>

NoneUnused == \A a \in ToSet(neighbor_list) : ~Unused(a)

NeighborsFreed == /\ pc = "freed" /\ NoneUnused
                  /\ pc' = "get"
                  /\ UNCHANGED <<net, poolVars, isrVars, polled, sends, torn>>

\* Faulty variant: the position is given back before the packet is done
getKeepsHead == /\ pc = "get"
                /\ pc' = "pending"
                /\ UNCHANGED <<net, poolVars, isrVars, polled, sends, torn>>

\* ... and only then remove it from the ring
GetDequeued == /\ pc = "get"
               /\ dequeued_ringbuf' = Tail(dequeued_ringbuf)
               /\ pc' = "pending"
               /\ UNCHANGED <<net, neighbor_list, nbr, time_source, packet, isrVars,
                              polled, sends, torn>>

\* No more pending packets
PendingDone == /\ pc = "pending" /\ dequeued_ringbuf = << >>
               /\ pc' = IF net = "resetting" THEN "flush" ELSE "idle"
               /\ torn' = (torn \/ (net = "resetting" /\ slot))
               /\ UNCHANGED <<net, poolVars, isrVars, polled, sends>>

\* tsch_process wakes up after a disassociation: tsch_reset handles pending
\* packets first
StartReset == /\ pc = "idle" /\ net = "leaving"
              /\ net' = "resetting"
              /\ pc' = "pending"
              /\ UNCHANGED <<poolVars, isrVars, polled, sends, torn>>

\* tsch_queue_flush_nbr_queue, one packet: out of the queue, callback, free
FlushPacket(a) ==
    /\ pc = "flush" /\ Known(a) /\ nbr[a].tx_ringbuf # << >>
    /\ nbr' = [nbr EXCEPT ![a].tx_ringbuf = Tail(@)]
    /\ packet' = [packet EXCEPT ![Head(nbr[a].tx_ringbuf)] = Freed(@)]
    /\ UNCHANGED <<net, neighbor_list, time_source, dequeued_ringbuf, isrVars, polled, pc, sends,
                   torn>>

\* tsch_queue_reset has flushed all queues, and resets the backoff
QueuesFlushed ==
    /\ pc = "flush" /\ \A a \in ToSet(neighbor_list) : nbr[a].tx_ringbuf = << >>
    /\ nbr' = [a \in Addrs |-> NewNbr]
    /\ pc' = "flushed"
    /\ UNCHANGED <<net, neighbor_list, time_source, packet, dequeued_ringbuf, isrVars, polled,
                   sends, torn>>

\* The rest of tsch_reset: the time source is still kept by the walk over
\* the neighbors, and forgotten after it
FinishReset ==
    /\ pc = "flushed" /\ NoneUnused
    /\ time_source' = None
    /\ current_link' = NoLink
    /\ net' = "scanning"
    /\ pc' = "idle"
    /\ UNCHANGED <<neighbor_list, nbr, packet, dequeued_ringbuf, slot, current_neighbor,
                   current_packet, mac_tx_status, polled, sends, torn>>

\* tsch_associate: the sender of the EB becomes the time source.  Scanning
\* takes longer than what is left of a slot.
tsch_associate(a) ==
    /\ net = "scanning" /\ pc = "idle" /\ CanAdd(a) /\ ~slot
    /\ neighbor_list' = tsch_queue_add_nbr(a)
    /\ time_source' = a
    /\ net' = "joined"
    /\ UNCHANGED <<nbr, packet, dequeued_ringbuf, isrVars, polled, pc, sends, torn>>

-----------------------------------------------------------------------------
(* The slot operation *)

Shared(l) == "shared" \in l.link_options

tsch_queue_get_packet_for_nbr(a, l) ==
    IF Known(a) /\ nbr[a].tx_ringbuf # << >> /\ ~(Shared(l) /\ nbr[a].backoff_window # 0)
    THEN Head(nbr[a].tx_ringbuf) ELSE None

\* The first unicast neighbor, in list order, without a Tx link of its own
\* and with a packet that may go over l; None if there is none
tsch_queue_get_unicast_packet_for_any(l) ==
    LET i == SelectInSeq(neighbor_list, LAMBDA a : /\ ~is_broadcast(a)
                                                   /\ tx_links_count(a) = 0
                                                   /\ tsch_queue_get_packet_for_nbr(a, l) # None)
    IN  IF i = 0 THEN None ELSE neighbor_list[i]

\* get_packet_and_neighbor_for_link: the neighbor whose packet goes out
NeighborForLink(l) ==
    IF "tx" \notin l.link_options THEN None
    ELSE IF l.link_type # "normal" /\ tsch_queue_get_packet_for_nbr(EB, l) # None THEN EB
    ELSE IF l.link_type = "advertising_only" THEN None
    ELSE IF tsch_queue_get_packet_for_nbr(l.addr, l) # None THEN l.addr
    ELSE IF l.addr = Broadcast THEN tsch_queue_get_unicast_packet_for_any(l)
    ELSE None

\* Is there room to store a packet that this slot may dequeue?
HasRoom == Len(dequeued_ringbuf) < DequeuedSize

\* Faulty variant: the window is not decremented over broadcast links
decrementOwnLinksOnly(l, contents) ==
    [a \in Addrs |-> IF /\ Shared(l) /\ "tx" \in l.link_options /\ Known(a)
                        /\ contents[a].backoff_window # 0 /\ a = l.addr
                     THEN [contents[a] EXCEPT !.backoff_window = @ - 1] ELSE contents[a]]

\* tsch_queue_update_all_backoff_windows, at the end of a slot over l
UpdateBackoffWindows(l, contents) ==
    [a \in Addrs |-> IF /\ Shared(l) /\ "tx" \in l.link_options /\ Known(a)
                        /\ contents[a].backoff_window # 0
                        /\ \/ tx_links_count(a) = 0 /\ l.addr = Broadcast
                           \/ tx_links_count(a) > 0 /\ l.addr = a
                     THEN [contents[a] EXCEPT !.backoff_window = @ - 1] ELSE contents[a]]

\* A slot over l ends, with these neighbors: the node is still synchronized
\* and the next slot is scheduled, or it leaves the network
EndOfSlot(l, contents, synced) ==
    /\ net' = IF synced \/ net # "joined" THEN net ELSE "leaving"
    /\ nbr' = IF synced THEN UpdateBackoffWindows(l, contents) ELSE contents

\* tsch_queue_backoff_reset, tsch_queue_backoff_inc: the outcomes for a
\* neighbor's state
BackoffReset(n) == [n EXCEPT !.backoff_window = 0, !.backoff_exponent = TSCH_MAC_MIN_BE]

BackoffInc(n) ==
    LET be == Min({n.backoff_exponent + 1, TSCH_MAC_MAX_BE})
    IN  {[n EXCEPT !.backoff_exponent = be, !.backoff_window = w + 1] : w \in 0 .. 2^be - 1}

\* The slot takes the first packet out of its queue.  If a flush has taken
\* packet p away before it, the two ringbufindex_get may have overlapped and
\* moved get_ptr only once.
QueuesAfter(queue, p, done) ==
    IF ~done \/ queue = << >> THEN {queue}
    ELSE {Tail(queue)} \cup {q \in {queue} : pc = "flush" /\ Head(queue) # p}

\* tsch_queue_packet_sent, what becomes of the neighbor: "Failures on
\* dedicated (== non-shared) leave the backoff window nor exponent unchanged"
AfterTx(a, shared, status, queue) ==
    LET n == [nbr[a] EXCEPT !.tx_ringbuf = queue]
    IN  IF is_broadcast(a) THEN {n}
        ELSE IF status = "ok" THEN {IF shared \/ queue = << >> THEN BackoffReset(n) ELSE n}
        ELSE IF shared THEN BackoffInc(n) ELSE {n}

\* Faulty variant: one transmission too many
doneLate(p, status) == status = "ok" \/ packet[p].transmissions > packet[p].max

\* Is this attempt the packet's last?
Done(p, status) == status = "ok" \/ packet[p].transmissions + 1 >= packet[p].max

\* The end of tsch_tx_slot, and of the slot
PostTx(l, shared, a, p, status, synced) ==
    LET done == Done(p, status)
    IN  /\ packet' = [packet EXCEPT ![p].transmissions = @ + 1,
                                    ![p].ret = status]
        /\ dequeued_ringbuf' = IF done THEN Append(dequeued_ringbuf, p) ELSE dequeued_ringbuf
        /\ \E queue \in QueuesAfter(nbr[a].tx_ringbuf, p, done) :
           \E n \in AfterTx(a, shared, status, queue) : EndOfSlot(l, [nbr EXCEPT ![a] = n], synced)
        /\ mac_tx_status' = status
        /\ polled' = TRUE
        /\ slot' = FALSE
        /\ current_link' = NoLink /\ current_neighbor' = None /\ current_packet' = None
        /\ UNCHANGED <<neighbor_list, time_source, pc, sends, torn>>

MayStart == net = "joined" /\ ~slot

\* Nothing to send over l, or no room for what would be dequeued
IdleSlot(l, synced) ==
    /\ MayStart
    /\ NeighborForLink(l) = None \/ ~HasRoom
    /\ EndOfSlot(l, nbr, synced)
    /\ UNCHANGED <<neighbor_list, time_source, packet, dequeued_ringbuf,
                   isrVars, polled, pc, sends, torn>>

\* tsch_tx_slot up to its first yield
TxStart(l) ==
    LET a == NeighborForLink(l)
    IN  /\ MayStart /\ a # None /\ HasRoom
        /\ slot' = TRUE
        /\ current_link' = l /\ current_neighbor' = a
        /\ current_packet' = Head(nbr[a].tx_ringbuf)
        /\ UNCHANGED <<net, poolVars, mac_tx_status, polled, pc, sends, torn>>

\* The Sync-IE of an EB or the radio buffer cannot be written: there is no
\* transmission and no yield, and mac_tx_status is what the last slot left
TxUnprepared(l, synced) ==
    LET a == NeighborForLink(l)
    IN  /\ MayStart /\ a # None /\ HasRoom
        /\ PostTx(l, Shared(l), a, Head(nbr[a].tx_ringbuf), mac_tx_status, synced)

\* tsch_tx_slot after its last yield.  If current_link was reset to NULL
\* meanwhile, the options it reads of the link are arbitrary.
TxEnd == /\ slot
         /\ \E shared \in IF current_link = NoLink THEN BOOLEAN ELSE {Shared(current_link)},
               status \in IF is_broadcast(current_neighbor) THEN {"ok", "err"}
                          ELSE {"ok", "noack", "err"},
               synced \in BOOLEAN :
               PostTx(current_link, shared, current_neighbor, current_packet, status, synced)

-----------------------------------------------------------------------------

Process == \/ \E a \in Unicast \cup {Broadcast} : send_packet(a)
           \/ SendEb
           \/ \E a \in TimeSources : tsch_queue_update_time_source(a)
           \/ tsch_disassociate
           \/ HandlePoll \/ Callback \/ FreeReported \/ FreeNeighbor \/ NeighborsFreed \/ GetDequeued
           \/ PendingDone \/ StartReset
           \/ \E a \in Addrs : FlushPacket(a)
           \/ QueuesFlushed \/ FinishReset
           \/ \E a \in TimeSources : tsch_associate(a)

SlotOver(l, synced) == IdleSlot(l, synced) \/ TxStart(l) \/ TxUnprepared(l, synced)

Interrupt == TxEnd \/ \E l \in Links, synced \in BOOLEAN : SlotOver(l, synced)

Next == Process \/ Interrupt

\* Processes run what they have begun, the slots of every link come again
\* and again, and a slot ends.  Nobody has to send or to associate, and the
\* node need not lose its synchronization.
Fairness == /\ WF_vars(HandlePoll) /\ WF_vars(Callback) /\ WF_vars(FreeReported)
            /\ SF_vars(FreeNeighbor) /\ WF_vars(NeighborsFreed)
            /\ WF_vars(GetDequeued) /\ WF_vars(PendingDone)
            /\ WF_vars(StartReset) /\ WF_vars(\E a \in Addrs : FlushPacket(a))
            /\ WF_vars(QueuesFlushed) /\ WF_vars(FinishReset)
            /\ WF_vars(TxEnd) /\ \A l \in Links : SF_vars(SlotOver(l, TRUE))

Spec == Init /\ [][Next]_vars /\ Fairness

-----------------------------------------------------------------------------
(* Properties *)

\* Queues, rings, packets and backoff state have their types and bounds: no
\* ring overflows, a backoff window is a small number of slots, and no packet
\* is transmitted more often than it may (unless it was freed in its slot).
QueueTypeOK ==
    /\ net \in {"joined", "leaving", "resetting", "scanning"}
    /\ ToSet(neighbor_list) \subseteq Addrs /\ Len(neighbor_list) <= MaxNbrs
    /\ time_source \in TimeSources \cup {None}
    /\ \A a \in Addrs : /\ ToSet(nbr[a].tx_ringbuf) \subseteq Packets
                        /\ Len(nbr[a].tx_ringbuf) <= QueueSize
                        /\ nbr[a].backoff_exponent \in TSCH_MAC_MIN_BE .. TSCH_MAC_MAX_BE
                        /\ nbr[a].backoff_window \in 0 .. 2^TSCH_MAC_MAX_BE
    /\ \A p \in Packets : /\ packet[p].ret \in Status
                          /\ torn \/ packet[p].transmissions <= packet[p].max
    /\ ToSet(dequeued_ringbuf) \subseteq Packets /\ Len(dequeued_ringbuf) <= DequeuedSize
    /\ slot => current_neighbor \in Addrs /\ current_packet \in Packets

\* The places where a packet can be
InQueue(p) == {a \in Addrs : p \in ToSet(nbr[a].tx_ringbuf)}
Dequeued == IF pc \in {"freed", "get"} THEN Tail(dequeued_ringbuf) ELSE dequeued_ringbuf

\* Every allocated packet is in exactly one place, the queue of its
\* neighbor, which is in the list, or the ring of dequeued packets; a free
\* packet is nowhere.  So nothing leaks, nothing is freed twice, and no
\* freed packet is sent.  A tsch_reset that comes to the queues while a Tx
\* slot is in progress ends this (torn): the slot then adds the packet that was
\* freed under it to the ring.
OnePlace ==
    ~torn =>
    /\ IsInjective(Dequeued)
    /\ \A a \in Addrs : IsInjective(nbr[a].tx_ringbuf) /\ (nbr[a].tx_ringbuf # << >> => Known(a))
    /\ \A p \in Packets :
           IF p \in ToSet(Dequeued) THEN packet[p].used /\ InQueue(p) = {}
           ELSE InQueue(p) = IF packet[p].used THEN {packet[p].dest} ELSE {}

\* The dequeued packets whose callback is to come, and all such packets for a
Unreported == IF pc \in {"reported", "freed", "get"} THEN Tail(dequeued_ringbuf)
              ELSE dequeued_ringbuf
Outstanding(a) == {p \in ToSet(Unreported) : packet[p].dest = a} \cup ToSet(nbr[a].tx_ringbuf)

\* p comes before q: in the ring of dequeued packets, then in the queue
Precedes(s, p, q) == \E i, j \in DOMAIN s : i < j /\ s[i] = p /\ s[j] = q
Earlier(a, p, q) == \/ Precedes(Unreported, p, q)
                    \/ p \in ToSet(Unreported) /\ q \in ToSet(nbr[a].tx_ringbuf)
                    \/ Precedes(nbr[a].tx_ringbuf, p, q)

Before == UNION {{pq \in Outstanding(a) \X Outstanding(a) : Earlier(a, pq[1], pq[2])} : a \in Addrs}

Mac == INSTANCE MacService WITH outstanding <- [a \in Addrs |-> Outstanding(a)], before <- Before

\* Every packet accepted is reported exactly once, and per destination in
\* the order of sending, over retries, backoff, disassociation and flush, up
\* to the first tsch_reset that comes to the queues in a Tx slot (torn).
ImplementsMacService == Mac!Init /\ [][torn \/ Mac!Next]_(Mac!vars)

\* All packets that are sent are reported in the end, unless a tsch_reset comes
\* to the queues in a Tx slot (MaxSends keeps broadcasts, which go first, from
\* starving unicast packets forever).
AllPacketsReported ==
    (\E p \in Packets : packet[p].used) ~> (torn \/ \A p \in Packets : ~packet[p].used)
=============================================================================
