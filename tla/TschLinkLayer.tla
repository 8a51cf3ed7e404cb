---------------------------- MODULE TschLinkLayer ----------------------------
(***************************************************************************)
(* Frames on the air, from the queues of several senders to the upper      *)
(* layer of one receiver: Tx slots with their retries and the parsing of   *)
(* the enhanced ACK, the Rx slot, which acknowledges what it can store,    *)
(* tsch_rx_process_pending, and the history of sequence numbers by which   *)
(* packet_input drops the copies that lost ACKs lead to (mac-sequence.c).  *)
(*                                                                         *)
(* What a sender's queue does otherwise (backoff, callbacks, flush) is in  *)
(* TschQueue.  Here a sender has one queue, to the receiver; its frames to *)
(* other nodes only use up sequence numbers.  A cell may be shared: several*)
(* senders transmit at once, and the receiver hears at most one of them.   *)
(*                                                                         *)
(* The definitions marked "Faulty variant" are not part of the             *)
(* specification: each is a plausible mistake that a property rejects when *)
(* it replaces the definition below it.                                    *)
(***************************************************************************)
EXTENDS Integers, Sequences, FiniteSets, Bags, SequencesExt

CONSTANTS
    Senders,
    MAX_SEQNOS,         \* entries of the history
    MaxSeqno,           \* the largest sequence number, 255 in the code
    MaxTransmissions,   \* TSCH_MAC_MAX_FRAME_RETRIES + 1
    QueueSize, InputSize,   \* capacity of a queue and of the input ring
    MaxSends,           \* bound on the frames sent
    MaxReboots          \* bound on the reboots of senders

ASSUME LinkAssumption == /\ {MAX_SEQNOS, MaxSeqno, MaxTransmissions, QueueSize, InputSize}
                               \subseteq Nat \ {0}
                         /\ {MaxSends, MaxReboots} \subseteq Nat

VARIABLES
    tsch_packet_seqno,  \* of every sender
    tx_ringbuf,         \* every sender's queue to the receiver
    numbers,            \* how many numbers a sender has used since it started
    boot,               \* how often a sender has restarted
    input_ringbuf,      \* the receiver's ring between interrupt and process
    received_seqnos,    \* the receiver's history; of a timestamp there is only
                        \* whether it is at most SEQNO_MAX_AGE old
    acked,              \* frames reported as MAC_TX_OK
    unsent,             \* those of them that were not sent in the slot that says so
    delivered,          \* the bag of frames handed to the upper layer
    last,               \* what the history is to remember of every sender: the
                        \* frame it was last registered for, whether that is
                        \* recent, and the senders registered since
    sends, reboots      \* frames sent and senders restarted so far

senderVars == <<tsch_packet_seqno, tx_ringbuf, numbers, boot>>
vars == <<senderVars, input_ringbuf, received_seqnos, acked, unsent, delivered, last, sends,
          reboots>>

NoSeqno == 255 + MaxSeqno       \* 0xffff, "no seqno": that of a broadcast frame
NoSender == "null"              \* linkaddr_null
ASSUME SendersAssumption == IsFiniteSet(Senders) /\ NoSender \notin Senders

\* A frame is known by its sender and by its place among the frames of the
\* sender, over reboots; copies of it are the same frame
Frame(s, b, n, seqno) == [sender |-> s, boot |-> b, nth |-> n, seqno |-> seqno]
BroadcastFrame(s) == Frame(s, 0, 0, NoSeqno)

Never == [frame |-> Frame(NoSender, 0, 0, 0), recent |-> FALSE, since |-> Senders]

\* All have started: a sender's number is random, the history is empty
Init == /\ tsch_packet_seqno \in [Senders -> 0 .. MaxSeqno]
        /\ tx_ringbuf = [s \in Senders |-> << >>]
        /\ numbers = [s \in Senders |-> 0]
        /\ boot = [s \in Senders |-> 0]
        /\ input_ringbuf = << >>
        /\ received_seqnos = [i \in 1 .. MAX_SEQNOS |->
                                 [sender |-> NoSender, seqno |-> 0, recent |-> FALSE]]
        /\ acked = {} /\ unsent = {} /\ delivered = EmptyBag
        /\ last = [s \in Senders |-> Never]
        /\ sends = 0 /\ reboots = 0

-----------------------------------------------------------------------------
(* The senders *)

\* ++tsch_packet_seqno in send_packet: 0 is left out
NextSeqno(q) == IF q = MaxSeqno THEN 1 ELSE q + 1

\* send_packet to the receiver, accepted by the queue
send_packet(s) ==
    /\ sends < MaxSends /\ Len(tx_ringbuf[s]) < QueueSize
    /\ sends' = sends + 1
    /\ numbers' = [numbers EXCEPT ![s] = @ + 1]
    /\ tsch_packet_seqno' = [tsch_packet_seqno EXCEPT ![s] = NextSeqno(@)]
    /\ tx_ringbuf' = [tx_ringbuf EXCEPT ![s] =
           Append(@, [frame |-> Frame(s, boot[s], numbers'[s], tsch_packet_seqno'[s]),
                      transmissions |-> 0])]
    /\ UNCHANGED <<boot, input_ringbuf, received_seqnos, acked, unsent, delivered, last, reboots>>

\* send_packet to another node, or refused by a full queue: the number is used
SendElsewhere(s) ==
    /\ sends < MaxSends
    /\ sends' = sends + 1
    /\ numbers' = [numbers EXCEPT ![s] = @ + 1]
    /\ tsch_packet_seqno' = [tsch_packet_seqno EXCEPT ![s] = NextSeqno(@)]
    /\ UNCHANGED <<tx_ringbuf, boot, input_ringbuf, received_seqnos, acked, unsent, delivered, last,
                   reboots>>

\* tsch_reset of a sender that leaves the network: its queue is flushed
Flush(s) ==
    /\ tx_ringbuf[s] # << >>
    /\ tx_ringbuf' = [tx_ringbuf EXCEPT ![s] = << >>]
    /\ UNCHANGED <<tsch_packet_seqno, numbers, boot, input_ringbuf, received_seqnos, acked,
                   unsent, delivered, last, sends, reboots>>

\* A sender restarts: tsch_init draws a number at random
Reboot(s) ==
    /\ reboots < MaxReboots
    /\ reboots' = reboots + 1
    /\ boot' = [boot EXCEPT ![s] = @ + 1]
    /\ numbers' = [numbers EXCEPT ![s] = 0]
    /\ \E q \in 0 .. MaxSeqno : tsch_packet_seqno' = [tsch_packet_seqno EXCEPT ![s] = q]
    /\ tx_ringbuf' = [tx_ringbuf EXCEPT ![s] = << >>]
    /\ UNCHANGED <<input_ringbuf, received_seqnos, acked, unsent, delivered, last, sends>>

-----------------------------------------------------------------------------
(* A timeslot *)

\* tsch_packet_create_eack, with the destination address as by default; none
\* for a broadcast frame
create_eack(f) == IF f.seqno = NoSeqno THEN {} ELSE {[dest |-> f.sender, seqno |-> f.seqno]}

\* Faulty variant: the ACK may be for another node
eackAnyAddress(ack, s, seqno) == ack.seqno = seqno

\* tsch_packet_parse_eack: is this the ACK that s waits for?
parse_eack(ack, s, seqno) == ack.seqno = seqno /\ ack.dest = s

\* tsch_queue_packet_sent: what is left of the queue
QueueAfter(queue, ok) ==
    IF ok \/ Head(queue).transmissions + 1 >= MaxTransmissions THEN Tail(queue)
    ELSE [queue EXCEPT ![1].transmissions = @ + 1]

\* Faulty variant: the Rx slot listens without a look at the ring
listenAlways == TRUE

\* tsch_rx_slot: without room for a frame the slot is skipped
CanListen == Len(input_ringbuf) < InputSize

\* A slot in which the senders in unicast transmit the first frame of their
\* queue, others perhaps a broadcast frame.  The receiver hears the sender in
\* heard, if any, and the senders in reached hear its ACK.
Slot(unicast, heard, reached) ==
    LET First(s) == Head(tx_ringbuf[s]).frame
        got == {IF s \in unicast THEN First(s) ELSE BroadcastFrame(s) : s \in heard}
        acks == UNION {create_eack(f) : f \in got}
        ok == {s \in unicast \cap reached : \E ack \in acks : parse_eack(ack, s, First(s).seqno)}
    IN  /\ heard # {} => CanListen
        /\ input_ringbuf' = input_ringbuf \o SetToSeq(got)
        /\ tx_ringbuf' = [s \in Senders |-> IF s \in unicast THEN QueueAfter(tx_ringbuf[s], s \in ok)
                                            ELSE tx_ringbuf[s]]
        /\ acked' = acked \cup {First(s) : s \in ok}
        /\ UNCHANGED <<tsch_packet_seqno, numbers, boot, received_seqnos, unsent, delivered, last,
                       sends, reboots>>

Slots == \E unicast \in SUBSET {s \in Senders : tx_ringbuf[s] # << >>},
            heard \in {{}} \cup {{s} : s \in Senders} :
               \E reached \in IF heard = {} THEN {{}} ELSE SUBSET unicast :
                  Slot(unicast, heard, reached)

\* A slot in which the radio buffer of sender s cannot be written: its frame is
\* not sent, and the status is what mac_tx_status has kept from the sender's
\* last slot, with whatever frame and to whatever node, or MAC_TX_OK at first
Unprepared(s, ok) ==
    LET f == Head(tx_ringbuf[s]).frame
    IN  /\ tx_ringbuf[s] # << >>
        /\ tx_ringbuf' = [tx_ringbuf EXCEPT ![s] = QueueAfter(@, ok)]
        /\ acked' = IF ok THEN acked \cup {f} ELSE acked
        /\ unsent' = IF ok THEN unsent \cup {f} ELSE unsent
        /\ UNCHANGED <<tsch_packet_seqno, numbers, boot, input_ringbuf, received_seqnos,
                       delivered, last, sends, reboots>>

-----------------------------------------------------------------------------
(* The receiver's process *)

\* mac_sequence_is_duplicate: only the first entry of the sender counts
mac_sequence_is_duplicate(s, seqno) ==
    LET i == SelectInSeq(received_seqnos, LAMBDA e : e.sender = s)
    IN  i # 0 /\ received_seqnos[i].seqno = seqno /\ received_seqnos[i].recent

\* Faulty variant: the entries before the sender's old one are shifted one
\* place too little, and the old one stays
registerOffByOne(s, seqno) ==
    LET i == SelectInSeq(received_seqnos, LAMBDA e : e.sender = s)
        old == IF i = 0 THEN MAX_SEQNOS ELSE IF i > 1 THEN i - 1 ELSE 1
    IN  <<[sender |-> s, seqno |-> seqno, recent |-> TRUE]>> \o RemoveAt(received_seqnos, old)

\* mac_sequence_register_seqno: the sender's old entry, or the last one if it
\* has none, makes place for the new first one
mac_sequence_register_seqno(s, seqno) ==
    LET i == SelectInSeq(received_seqnos, LAMBDA e : e.sender = s)
        old == IF i = 0 THEN MAX_SEQNOS ELSE i
    IN  <<[sender |-> s, seqno |-> seqno, recent |-> TRUE]>> \o RemoveAt(received_seqnos, old)

\* A frame is registered: what is to be remembered of the senders
Remember(f) ==
    [s \in Senders |-> IF s = f.sender THEN [frame |-> f, recent |-> TRUE, since |-> {}]
                       ELSE [last[s] EXCEPT !.since = @ \cup {f.sender}]]

\* Faulty variant: frames without a number are registered, too
inputRegistersAll(f) ==
    IF mac_sequence_is_duplicate(f.sender, f.seqno)
    THEN UNCHANGED <<received_seqnos, delivered, last>>
    ELSE /\ received_seqnos' = mac_sequence_register_seqno(f.sender,
                                  IF f.seqno = NoSeqno THEN MaxSeqno ELSE f.seqno)
         /\ IF f.seqno = NoSeqno THEN UNCHANGED <<delivered, last>>
            ELSE delivered' = delivered (+) SetToBag({f}) /\ last' = Remember(f)

\* packet_input: the upper layer gets what is no copy.  Broadcast frames, which
\* it always gets, are not counted in delivered.
packet_input(f) ==
    IF f.seqno = NoSeqno \/ mac_sequence_is_duplicate(f.sender, f.seqno)
    THEN UNCHANGED <<received_seqnos, delivered, last>>
    ELSE /\ received_seqnos' = mac_sequence_register_seqno(f.sender, f.seqno)
         /\ delivered' = delivered (+) SetToBag({f})
         /\ last' = Remember(f)

\* tsch_rx_process_pending, one frame: it is removed when it has been handled
tsch_rx_process_pending ==
    /\ input_ringbuf # << >>
    /\ packet_input(Head(input_ringbuf))
    /\ input_ringbuf' = Tail(input_ringbuf)
    /\ UNCHANGED <<senderVars, acked, unsent, sends, reboots>>

\* SEQNO_MAX_AGE passes since sender s was last registered, and so since all
\* registrations before that
Expire(s) ==
    LET old == {r \in Senders : r = s \/ s \in last[r].since}
    IN  /\ last[s].recent
        /\ received_seqnos' = [i \in 1 .. MAX_SEQNOS |->
               [received_seqnos[i] EXCEPT !.recent = @ /\ received_seqnos[i].sender \notin old]]
        /\ last' = [r \in Senders |-> [last[r] EXCEPT !.recent = @ /\ r \notin old]]
        /\ UNCHANGED <<senderVars, input_ringbuf, acked, unsent, delivered, sends, reboots>>

-----------------------------------------------------------------------------

Next == \/ \E s \in Senders : send_packet(s) \/ SendElsewhere(s) \/ Flush(s) \/ Reboot(s)
        \/ \E s \in Senders : Expire(s)
        \/ \E s \in Senders, ok \in BOOLEAN : Unprepared(s, ok)
        \/ Slots \/ tsch_rx_process_pending

Spec == Init /\ [][Next]_vars
-----------------------------------------------------------------------------
(* Properties *)

Numbered == [sender : Senders, boot : 0 .. MaxReboots, nth : 1 .. MaxSends,
             seqno : 1 .. MaxSeqno]

\* Queues, ring and history have their types, and no ring overflows, although
\* the interrupt fills the input ring while the process is not running.
LinkTypeOK ==
    /\ tsch_packet_seqno \in [Senders -> 0 .. MaxSeqno]
    /\ \A s \in Senders :
           /\ Len(tx_ringbuf[s]) <= QueueSize
           /\ \A i \in 1 .. Len(tx_ringbuf[s]) :
                 /\ tx_ringbuf[s][i].frame \in Numbered
                 /\ tx_ringbuf[s][i].transmissions \in 0 .. MaxTransmissions - 1
    /\ Len(input_ringbuf) <= InputSize
    /\ ToSet(input_ringbuf) \subseteq Numbered \cup {BroadcastFrame(s) : s \in Senders}
    /\ received_seqnos \in [1 .. MAX_SEQNOS -> [sender : Senders \cup {NoSender},
                                                seqno : 0 .. MaxSeqno,
                                                recent : BOOLEAN]]
    /\ acked \subseteq Numbered /\ BagToSet(delivered) \subseteq Numbered

\* What was last registered of sender s is too old, or as many senders as the
\* history has entries were registered since
Forgotten(s) == ~last[s].recent \/ Cardinality(last[s].since) >= MAX_SEQNOS

\* The array that mac_sequence_register_seqno shifts keeps "the last sequence
\* number for each address": a frame is taken for a copy if and only if it has
\* the number that was registered last of its sender, not too long ago and
\* with fewer than MAX_SEQNOS other senders since.
HistoryCorrect ==
    \A s \in Senders, seqno \in 1 .. MaxSeqno :
        mac_sequence_is_duplicate(s, seqno) <=> last[s].frame.seqno = seqno /\ ~Forgotten(s)

\* A frame is handed to the upper layer once, however often its ACK is lost
\* and whatever its sender broadcasts and sends to others between two copies;
\* unless the history has forgotten the sender in the meantime.
AtMostOnce ==
    [][delivered' # delivered =>
          ~BagIn(Head(input_ringbuf), delivered) \/ Forgotten(Head(input_ringbuf).sender)]_vars

\* The receiver has frame f, in the input ring or handed to the upper layer.
\* After its sender has restarted or used all of its numbers, f may have been
\* mistaken for a copy of an earlier one.
Received(f) == \/ BagIn(f, delivered) \/ f \in ToSet(input_ringbuf)
               \/ f.boot > 0 \/ f.nth > MaxSeqno

\* A frame that was sent and reported as MAC_TX_OK was received: also when
\* several senders share the cell, a full ring keeps the receiver from
\* listening, and ACKs are lost or are for another sender.  Excepted are the
\* frames reported after a slot that did not send them (unsent), and those of
\* a sender that has restarted or has used all of its numbers.
OkMeansDelivered == \A f \in acked : f \in unsent \/ Received(f)
=============================================================================
