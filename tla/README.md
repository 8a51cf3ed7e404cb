# A verification project for multi-PHY TSCH

The repository is a fork of Contiki-NG whose own subject is IEEE 802.15.4 TSCH
(time-slotted channel hopping) over several physical layers. Its core is
`os/net/mac/tsch`, which runs in two contexts on one processor: the *slot
operation* in the rtimer interrupt, and Contiki's cooperative *processes* and
callbacks in the main program. The two share queues, rings, the schedule and the
pointers to the current link. This project models that core in TLA+, checks it
with TLC on small instances, and proves parts of it with TLAPS.

## 1. Inventory

| Component | State | Operations | Talks to |
|---|---|---|---|
| Index ring (`lib/ringbufindex.c`) | `put_ptr`, `get_ptr`, the array beside it | peek_put / put, peek_get / get | one side in the interrupt, one in a process, no lock |
| ASN and timing (`tsch-asn.h`, end of `tsch_slot_operation`) | `tsch_current_asn`, `last_sync_asn`, `current_slot_start`, `drift_correction` | ASN_INC/DEC/DIFF/MOD, `check_timer_miss`, `tsch_schedule_slot_operation` | rtimer |
| Lock (`tsch-slot-operation.c`) | `tsch_locked`, `tsch_lock_requested`, `tsch_in_slot_operation` | `tsch_get_lock`, `tsch_release_lock` | busy wait of a process on the interrupt |
| Schedule (`tsch-schedule.c`) | slotframe list, link lists, link pool, counters in the neighbors | add/remove slotframe and link, create_minimal, get_next_active_link | lock; neighbors of the queue module; `current_link` |
| Slot operation (`tsch-slot-operation.c`) | `current_link`, `backup_link`, packet and neighbor of the slot, burst state | skip, Tx slot, Rx slot, schedule the next | radio, rtimer, schedule, queues, rings |
| Queues (`tsch-queue.c`, parts of `tsch.c`) | neighbor list, a ring per neighbor, packet pool, backoff | add/remove neighbor, add packet, packet_sent, backoff, flush, reset | application callbacks |
| Association (`tsch.c`) | `tsch_is_associated`, `tsch_is_coordinator`, time source, last EB neighbor, keepalive timer | scan, associate, disassociate, reset, EB input, keepalive, parent switch, role change | queues, slot operation, RPL |
| Reception (`tsch.c`, `tsch-packet.c`, `mac-sequence.c`) | input ring, sequence number of a node, history of the numbers received | Rx slot, ACK, duplicate test | peer nodes |
| 6top (`sixtop/`) | a transaction per peer with state and timer, next sequence number per peer | request, response, confirmation, sent callback, timeout | peers, scheduling function |
| Others | — | adaptive time sync, frames and security, log, RPL glue, Orchestra, drivers | — |

What is hard here:

* the interrupt comes between any two instructions of the main program, and the
  main program runs between the yields *inside* a Tx or Rx slot, so pointers held
  across a yield may become stale (links, packets, neighbors);
* the lock is not a mutual exclusion: it waits for the slot in progress, then
  withdraws its request, and slots start again while TSCH is locked;
* deadlines are missed, and clock and ASN words wrap;
* pools and rings are small and do fill up;
* transmissions fail and are retried under backoff, and the node loses its
  synchronization and leaves the network at any time;
* sent callbacks send again;
* frames and ACKs are lost, so a sender that reports a failure may have succeeded,
  and packets are repeated; sequence numbers are few and wrap, nodes restart and
  draw them anew;
* results come late: a response before the callback of its request, a callback
  for a transaction whose cell is in use again.

What makes it correct, component by component: the ring is a FIFO whose elements
are not overwritten while in use; ASN and slot start are right and in step; no
transmission while the lock is held; lists, pools and counters of the schedule
agree and the link chosen is the one the standard prescribes; the slot operation
uses only links that are in the schedule, and never stops; every accepted packet
is reported exactly once, in order, and in the end; what is reported as sent was
received, and handed up once; keepalives never cease, a session starts clean, a node
out of sync gets back or scans; 6P answers and callbacks are applied to their own
transaction, and both ends count on from the same number.
`PROJECT.json` lists the hazards with their lines and the properties aimed at them.

## 2. Modules

`A <- B` means B extends or instantiates A.

    BoundedFifo  <- RingBufIndex <- MCRingBufIndex, RingBufIndexProofs
                    TschTiming   <- MCTschTiming, TschTimingProofs
                    TschSchedule <- MCTschSchedule, TschScheduleProofs
    TschLock, TschSchedule <- TschSlotOperation <- MCTschSlotOperation
    TschSlotOperation, TschScheduleProofs <- TschSlotOperationProofs
    MacService   <- TschQueue    <- MCTschQueue, TschQueueProofs
                    TschLinkLayer   <- MCTschLinkLayer, TschLinkLayerProofs
                    TschAssociation <- MCTschAssociation, TschAssociationProofs
                    SixpTrans       <- MCSixpTrans, SixpTransProofs

Definitions keep the names of the code. Definitions marked "Faulty variant" belong
to no specification: each is a plausible mistake which replaces the definition
below it to see that a property notices.

**RingBufIndex** — the functions of `ringbufindex.c` on `put_ptr` and `get_ptr`
(`x & mask` is `x % Size`), and its two users in steps: peek, fill or use in place,
put or get. The producer may give up after peeking (an invalid frame).
`BoundedFifo` is what the ring promises; the refinement maps the elements from
`get_ptr` to `put_ptr` to the queue.

**TschTiming** — the ASN macros with words of `LS` and `MS` values, the rtimer with
`W` values, `check_timer_miss`, and the loop at the end of a slot. `time`, `start`,
`slots` and `synced` are the unbounded truth the wrapping words are compared with.
A slot takes up to `MaxWork` ticks, enough to miss deadlines. Left out: the
compensation that adaptive synchronization adds to the time of the next slot, the
timing inside a slot, `rtimer_set` failing. TimingAssumption states the
condition under which the comments of `check_timer_miss` ("a single overflow")
are met; DivisorAssumption states when the int product in `TSCH_ASN_MOD` fits.

**TschLock** — `tsch_get_lock` in its steps (set the request, wait for the slot and
take, withdraw the request), `tsch_release_lock`, and the start and end of slots.
A slot kind is `tx`, `rx` or `off` (nothing to do). The request stops any slot; the
lock itself only stops transmissions, since the queue's getters return no packet
while TSCH is locked.

**TschSchedule** — the schedule is a record (slotframe list, link pool, neighbor
counters), and operations are functions on it, so that they can be run as a whole
here and in locked stretches in TschSlotOperation. Pool cells keep their contents
when freed, and are handed out lowest first, as `memb_alloc` does; the counters are
`uint8_t`. Adding a link removes the one at the same timeslot first and may then
fail. `tsch_schedule_get_next_active_link` is one pass over the lists
in list order, written as a recursive function.
Channel offsets, link handles, link types and printing are left out.

**TschSlotOperation** — TschLock and TschSchedule together with the pointers of the
slot operation. The main program is a stack of jobs (`todo`): a call is taken apart
in the way the C functions call each other, each job either runs without the lock
(lookups, loop tests, the counters) or is one locked stretch; the interrupt comes
between any two. `isr = "end"` is the loop that looks for the next link;
MissDeadline turns it once more. Whether there is a packet, whether a burst
follows and whether the sender is a time source are free choices, limited by the
switches `WithBursts` and `WithTimeSource`. `null_deref` records that a NULL link or
slotframe was read; the model then goes on as if the value read did not matter. The ASN is kept modulo `AsnPeriod`, a
multiple of all slotframe sizes; the burst counter is kept up to
`TSCH_BURST_MAX_LEN`, beyond which it makes no difference. The node stays
associated.

**TschQueue** — a packet's way: `send_packet`, the queue of the neighbor, a Tx slot
(start, then an outcome after the yields), backoff, the dequeued ring,
`tsch_tx_process_pending` in four steps (callback, free the packet, free unused
neighbors, remove from the ring), and leaving the network (`tsch_reset`) and
joining again. The callback may send (`pc = "reported"`). Two results proved of
the other modules are used as abstractions: rings are sequences
(RingImplementsFifo), and what runs with the lock is one step that needs no Tx
slot in progress (LockExcludesTx). Unused neighbors are freed one by one. Leaving
the network flushes the queues packet by packet, then resets the backoff, frees
unused neighbors and forgets the time source. Freed packet cells are handed out by
CHOOSE. The schedule does not change here. A slot in
which the packet cannot be prepared does not yield and is one step (TxUnprepared).
A process may leave the network at any time, also during a Tx slot, whose packet is
then flushed and freed under it; the variable `torn` records that a reset came to the
queues in a Tx slot. What the slot does afterwards is modelled as well: it appends the
freed packet to the dequeued ring and takes whatever is first out of the queue
(QueuesAfter), and reads the options of a link that may be gone (TxEnd).
Association waits for the end of a slot (`~slot`), as scanning takes longer than
what remains of one. Left out: link selection by packet attributes, CCA and RSSI
sampling (both off by default), statistics. `MacService` is what a MAC driver
promises to its user: the outstanding packets of every destination, and which of two
was accepted first; only the first may be reported. The refinement reads both off
the queues and the dequeued ring.

**TschLinkLayer** — several senders and one receiver. A slot is one step: any set of
senders transmits the head of its queue, the receiver hears one of them, a broadcast
of another node, or nothing, and acknowledges a numbered frame if the input ring has
room; any of the transmitting senders may hear the ACK, and accepts it if
`tsch_packet_parse_eack` does. A sender whose radio buffer cannot be written sends
nothing and gets the status an earlier slot left (Unprepared); `unsent` records the
frames reported OK that way. The receiver's process takes frames from the ring
through `packet_input` with the history of `mac-sequence.c`, an array that is
shifted. Of timestamps there is only whether they are recent; Expire lets a
registration and all before it become old. `last`, `acked` and `delivered` are the
truth that history and reports are compared with. Senders flush their queue and
restart; the receiver does not. Left out: NACKs, security, the clock's overflow.

**TschAssociation** — `tsch_process` (scan, start, reset), the EB and keepalive
handlers and the parent switch as one step each, and slots in two steps, so that a
reset can fall into a slot. Of ASN, join priority and clocks there is only what they
decide: does an EB fit, is the node out of sync, was there a synchronization in this
session (`sync_count`)? BroadcastEvent is any event that reaches all processes; it
is what rescues a node whose role was changed silently. A parent switch may be to a
neighbor whose link-layer address is not known (NULL), which leaves the node without
a time source and without keepalives. Two variables record
exceptions: `silent` (role change without a posted event) and `torn` (reset in the
middle of a slot). Left out: `TSCH_AUTOSELECT_TIME_SOURCE` (off by default), the EB
process (in TschQueue), contents of EBs.

**SixpTrans** — two nodes, each with at most one transaction with the other, the
number it keeps for the other, and a MAC reduced to what TschQueue and TschLinkLayer
establish: a queue, in-order delivery without copies, a sent callback that may say
failure although the packet arrived. Operations are functions from what a node keeps
to what it keeps afterwards. The polled process handles received packets, then sent
ones, before any timer. `fresh` records whether the cell of a transaction was free of
callbacks of an earlier one; `counted` which requests used up their number. The
scheduling function is external: it answers at once or not at all and may repeat
an unacknowledged answer. The transaction pool may be full at any time, as it is
shared with other peers. Left out: the encoding in `sixp-pkt.c`, registration of
SFs, replies with `ERR_SFID` or `ERR_VERSION`, full neighbor tables.

## 3. Runs

| Run | Instance | What it shows |
|---|---|---|
| ring | 4 elements, 2 values | all interleavings of the two sides through several turns of the pointers: FIFO, nothing overwritten in use |
| timing | W=32, LS=4, MS=3, slots of 4 ticks, drift -1..1, up to 20 slots | ASN value, remainder and difference, and slots on time, with every word wrapping and deadlines missed |
| schedule | 3 slotframe and 3 link cells, 4 handles, sizes 1 and 2 (0 is refused) | pool, lists and counters agree; the next link is right at every ASN of the period |
| slot_operation | 2 slotframes of one slot, 2 links, Tx, Rx and shared, bursts, a time source, PHY chosen per slotframe | every interleaving of schedule changes with slots, about 1.3 million states: no transmission under lock, the current link is in the schedule, counters right at rest, no call ends with the lock |
| slot_liveness | one slotframe of 2 slots, 2 links, no bursts | the lock is granted; slots keep running |
| slot_reconf | as slot_operation | violation, see findings |
| slot_burst | one link, bursts | violation, see findings |
| queue | 2 packets, 2 neighbors (own link; none), shared advertising link, ring of one | packets in one place, MacService implemented, all packets reported, up to a reset in a Tx slot |
| link_layer | 3 senders, history of 2, numbers 1..2, 2 attempts, queue and input ring of one, 3 frames, one restart | history correct, at most one delivery unless the sender was forgotten, of the frames sent OK only if received; about 3.2 million states |
| association | 2 neighbors, one keepalive in the queue, rings of 2, 2 role changes | keepalives kept up, clean sessions, back or scanning in the end; about 860,000 states |
| sixp | 2 nodes, Add with and without cells and Clear, numbers 0..2, MAC queue and rings of one, 2 requests, one restart | own callbacks, own answers, numbers agree; about 1.7 million states |
| sixp_clear | as sixp, Add and Clear, no restart | violation, see findings |

Bounds. The timing run stops after `MaxSlots` slots, by when LS has wrapped five
times, MS once and W more than once; this bound is why it does not check for
deadlock. In the run schedule the slotframe pool and the link pool are exhausted:
an addition then fails. The pools of the slot_* runs suffice for their slotframes.
The neighbor pool has room for all addresses (see the hazard at
`tsch-schedule.c:236` for what happens otherwise). In the queue run the packet
pool and the dequeued ring fill up; a neighbor's queue holds two packets, as many
as there are. `MaxSends = 3` reuses a packet cell. In link_layer there are more senders than the history has
entries, so that senders are forgotten, and more frames than numbers, so that a
number comes again; one frame per queue and ring suffices, as the order of frames is
the subject of `queue`. In sixp two requests are enough for a late packet of one to
meet the other, from either end; a number does not wrap within two requests (OwnAnswer
says what it means when it does). These two runs do not check for deadlock: they end when the bounds are used
up. Their senders and nodes are symmetric model values, and neither run has a
liveness property. In association, two role changes make a node a coordinator and
an ordinary node again. The views of
MCTschSchedule and MCTschSlotOperation hide the contents of free cells that no
pointer refers to: an allocation overwrites them before they are read, so states
that differ only there have the same successors and the same properties.
MCTschSchedule also hides which cell holds which link: without the slot operation
nobody keeps a pointer to a cell, and the properties do not tell cells apart. The
liveness runs use no view.

Fairness. TschSlotOperation: a main program step is strongly fair, because the
interrupt may disable it (a slot runs) but comes back to it: the processor always
returns to the interrupted instruction; it need not start new calls. The rtimer
fires, a slot's yields end (the radio waits are all bounded by timers), and a
deadline is not missed forever. TschQueue: processes go on with what they have
begun (strongly where they wait for a slot to end); the slot of every link comes
again and again, with the node synchronized, as the slotframe repeats; a Tx slot
ends. Nobody has to send, to associate or to disassociate. TschAssociation: an
event posted to `tsch_process` is handled, the scan's timer and the keepalive timer
expire, the polled process takes what is in the rings, and slots start and end
while they are scheduled. No EB need arrive, no keepalive be answered and no event be
broadcast.

## 4. Proofs

Every theorem is about the specification the runs check, for all values of the
constants that satisfy the named assumptions. Each module proves one inductive
invariant, with one lemma per action, and reads the listed properties off it. The
invariants were checked with TLC on the instances of section 3 before they were proved.

*RingBufIndexProofs.* The invariant adds to the types that a peeked index is still
the pointer it was read from and the ring still not full (not empty), and that
committed elements are filled: without it a put or get could hit another element
than the one filled or used. From it: RingTypeOK, RingIndexStillValid,
RingCommittedAreFilled, an element in use is never overwritten
(RingNoOverwrite), and the ring refines BoundedFifo (RingImplementsFifo), for all
power-of-two sizes a `uint8_t` can hold.

*TschTimingProofs.* TimerMissCorrect: `check_timer_miss` says whether a deadline has
passed, for a clock of any width, if less than one turn of it elapsed. With
TimingAssumption, and the invariant that the loop is entered at most `MaxWork`
ticks after the slot's start, TimingSlotsOnTime: the wrapping slot start is the
true one, and the timer is armed only for a start still to come and less than a
turn away. A second invariant ties the two words of the ASN to the number of slots:
TimingAsnCountsSlots, TimingModIsRemainder, TimingDiffIsElapsed and TimingTypeOK
follow. AsnAssumption (no step adds a turn of the low word; slotframe sizes have 16
bits) is what makes the carry of `TSCH_ASN_INC` visible.

*TschAssociationProofs.* Besides the types the invariant says that a node with a time
source has a keepalive period (without it `keepalive_timer` would not be set again),
that the room for a slot's result that was seen at its start is still there at its
end, and that a node that scans has nothing left but the one result of a slot that a
reset tore. AssociationTypeCorrect, KeepaliveNeverCeases and the action property
AssociationSessionClean follow, for every set of neighbors that does not contain the
three names used for "no neighbor".

*TschQueueProofs.* The invariant says where every packet is: in the queue of the
neighbor it is for, and once only, or in the dequeued ring, whose first packet the
process may just have reported or freed; that a neighbor that is not in the list has
no packets; and, until a reset is torn, that the packet of a Tx slot is at the head of
its queue, which holds because what runs with the lock needs no Tx slot in progress
and a reset comes to the queues only through the step that sets `torn`. After that the
invariant keeps what still holds: types and bounds, and the room in the dequeued ring
that the slot saw at its start. QueueTypeCorrect, QueueOnePlace and the refinement
QueueImplementsMacService follow. The refinement shows that every step is an Accept, a
Report or a stutter of MacService under the mapping in TschQueue, as long as no reset
was torn; the order of two packets for one destination is their order in ring and
queue, which needs that both are free of doubles. All three speak of every behavior;
`torn` is a history variable of the specification, not an assumption. PowerAssumption states two facts about powers of 2 that the prover
does not know; LinkedAssumption, that the neighbors of the fixed schedule fit in the
pool.

*SixpTransProofs.* The invariant says of what a node keeps: while a transaction runs
whose cell was free of callbacks when it was allocated, at most one packet in the
MAC's hands has a callback to come, it is the transaction's own and of the type that
its state waits for, and the transaction knows; and that a request carries a command.
Each function of 6top on a node's record has a lemma on what it preserves.
SixpTypeCorrect, SixpInitiatorCleared and the action property SixpOwnCallbacks
follow. For SixpSeqnosAgree a second invariant, proved on top of the first, says where
a node's number stands in each state of its transaction (Numbered), and that there is a
book of the requests made so far with which every request in a queue or ring and every
transaction agrees (Booked): so the two ends of a transaction have the same number and
command although one has only a copy of the request. Own is needed again, since a
response with number 0 may be sent only by a node that expected 0, and a stale callback
could otherwise count a refused request as answered.

*TschLinkLayerProofs.* The invariant says that the entries of the history are the
last registrations of their senders, in the order in which they were made, and that a
recent sender without entry was pushed out by as many others as there are entries;
that for every sender what was delivered, what the history remembers, what is in the
ring and what is in the queue come in this order; and that until a sender restarts or
has used all numbers, the numbers of its frames follow from the first one drawn; frames that were reported but
not sent count as neither.
LinkTypeCorrect, LinkHistoryCorrect, LinkOkMeansDelivered and the action property
LinkAtMostOnce follow, for every finite set of senders, size of history and range of
numbers.

*TschScheduleProofs.* The invariant, Sound, is ScheduleTypeOK with WellFormed: handles
are unique, the cells of a list are allocated, belong to its slotframe, have a
timeslot in it, and no two of them the same; the allocated cells are those in a list.
It is proved for every function of `tsch-schedule.c` by what it does to the lists.
Between taking a link from its list and updating the neighbor's counters, the
counters owe one link (CountsOwing); removing a slotframe or all of them is a loop,
treated with the existence of the recursive function and the least counterexample.
ScheduleTypeCorrect and ScheduleListsCorrect follow from ScheduleAssumption alone.
ScheduleCountsCorrect has the hypothesis RoomForAll: the pool has room for all
neighbors and there are fewer links than a `uint8_t` counts. Otherwise the counters
do not agree (`tsch-schedule.c:236`). ScheduleNextActiveCorrect: over the links
visited so far the pass keeps the best one and the best Rx backup (RightFor); it uses
that two links of one slotframe are never due in the same slot. NextActiveCorrect looks
at the ASNs below `MaxSize * MaxSize`, which for two slotframe sizes is a whole period;
for more, coprime sizes it is not.

*TschSlotOperationProofs.* The lock by itself: the invariant ties the two flags to the
main program's position and says that no slot is in progress between taking the lock
and withdrawing the request; LockTypeCorrect and LockExcludesTx follow. The composed
specification: LockInv and Sound, and JobsOK, which says of the stack of jobs that it
can still be done whenever the interrupt comes. Between two pieces of work it is one of
Rests, and the counters agree (Resting); a piece of work that was chosen is still
possible (Chosen: the link to remove is scheduled, the slotframe to free is empty, the
timeslot of a new link is vacant once the link before it is gone); after a link came or
went, the counters owe it (Settling); and what follows a locked stretch is its release
(Done). Each job has a lemma, for its step without the lock or for its locked stretch,
from the lemmas of TschScheduleProofs. On the side of the interrupt, PointersOK ties
`current_link` to the schedule, and a Tx slot keeps its link until it ends, since only
a locked stretch resets it. SlotTypeCorrect, SlotCurrentLinkScheduled,
SlotTxExcludesLock and SlotSeesWellFormed follow from the assumptions alone;
SlotCountsAtRest with RoomForAll. There is no theorem on NULL pointers, since the code
does read them (section 5). InitialAssumption says that slot operation starts with a schedule that
TschSchedule's operations can make.

Only model-checked:

* the liveness properties (AllPacketsReported, LockGranted,
  SlotsKeepRunning, BackOrScanning), since the prover has neither fairness nor ENABLED;
* OwnAnswer of SixpTrans: a number that comes again is told apart by what can still be
  in flight, since the queues and rings are in order; the invariant on the order of the
  packets between the two nodes has not been found.

## 5. Findings

1. *slot_reconf.* The slot operation looks only at the request, which is withdrawn
   once the lock is taken, so an Rx slot can start while TSCH is locked; the
   slotframe lookup then returns NULL and is dereferenced in a build that chooses
   radio or CC1200 configuration per slotframe.
2. *slot_burst.* If the link of a scheduled burst slot is removed, `current_link`
   is NULL and `burst_link_scheduled` is never reset: no further link is looked for.
3. *sixp_clear.* The responder of a CLEAR resets its number when the request comes,
   but sets it to the request's number plus one when its response is acknowledged.
   The initiator goes on with 0, so its next request is refused with `ERR_SEQNUM`.
   The test that states the rule stops before the acknowledgement.

Met in the models without a run of their own, and in the list of hazards:

* For the same reason as in 1, a link can be removed and the lock released during an
  Rx slot; for a frame of its time source the slot then reads the options of
  `current_link`, which is NULL (`tsch-slot-operation.c:914`). slot_reconf contains
  this too; with `TSCH_WITH_CC1200_RECONF = FALSE` TLC refutes NoNullDeref by it.
* A disassociation from a process during a Tx slot flushes and frees the packet being
  transmitted, which the slot then adds to the dequeued ring: it is reported twice and
  freed twice, and another packet may leave its queue unreported (`tsch.c:223`).
  OnePlace, ImplementsMacService and AllPacketsReported, and SessionClean for what an
  Rx slot leaves, end with such a reset (`torn`); OnePlace without this exception is
  refuted. Leaving after a slot that lost synchronization is not torn.
* A packet that cannot be prepared gets the status of an earlier slot and may be
  reported as sent (`tsch-slot-operation.c:531`). OkMeansDelivered excepts it
  (`unsent`) and is refuted without the exception.
* A 6P transaction that times out before the MAC is done with its request leaves a
  callback that reaches the transaction which has its cell now, and moves that one on
  (`sixp.c:62`). OwnCallbacks and SeqnosAgree except such transactions (not `fresh`);
  with `MacQueueSize = 2` OwnCallbacks is refuted without the exception.
* `eb_input` compares the stored neighbor, not the sender, with the time source, so
  the neighbor to fall back to may be the time source itself (`tsch.c:357`).
* `backup_link` is not reset when its link is removed. CurrentLinkScheduled excepts
  links reached through it (`viaBackup`).
* `tsch_set_coordinator` tells nobody; without its exception `silent`,
  BackOrScanning is refuted.
* A response that is handled before the callback of its request ends the
  transaction; a lost ACK lets the next request inherit the answer to the last one.
  OwnAnswer and SeqnosAgree name these exceptions.
* A sender that restarts may draw the number it used last; its frame is
  acknowledged and dropped as a copy. OkMeansDelivered excepts it.

## 6. Not modelled, and the plan

Not modelled: the encoding of EBs, IEs and 6P packets and security (bytes and
cryptography), join priorities (numbers that decide nothing but what `fits` stands
for), adaptive time synchronization (numerical), the log, Orchestra (a caller whose
calls TschSlotOperation allows in any order), radio drivers and platform code
(hardware), and the rest of Contiki-NG, which this repository takes over unchanged.

Next is the proof of OwnAnswer of SixpTrans: an invariant on the order of requests,
responses and confirmations in flight between two nodes, with the exceptions the
property names.
