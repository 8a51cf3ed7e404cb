--------------------------- MODULE TschAssociation ---------------------------
(***************************************************************************)
(* How a node joins, stays in and leaves a TSCH network (tsch.c):          *)
(* tsch_process with its scan, tsch_reset, the EBs of the time source, the *)
(* keepalives to it and the neighbor to fall back to, the slot operation's *)
(* own check that the node is still synchronized, and tsch_set_coordinator.*)
(*                                                                         *)
(* The processes are cooperative: a handler is one step, and only the slot *)
(* operation, an interrupt, comes in between.  A slot has two steps, its   *)
(* start and what it does after its last yield (TschSlotOperation and      *)
(* TschQueue have the details).  Of the clocks, the ASN and the join       *)
(* priority there is only what decides: is the node out of sync, does an   *)
(* EB fit?                                                                 *)
(*                                                                         *)
(* The definitions marked "Faulty variant" are not part of the             *)
(* specification: each is a plausible mistake that a property rejects when *)
(* it replaces the definition below it.                                    *)
(***************************************************************************)
EXTENDS Integers, Sequences, SequencesExt

CONSTANTS
    Nbrs,               \* the neighbors
    QueueSize,          \* keepalives that fit into the queue
    RingSize,           \* capacity of the rings of EBs and of sent keepalives
    MaxRoleChanges      \* bound on the calls of tsch_set_coordinator

ASSUME AssociationAssumption == /\ {QueueSize, RingSize} \subseteq Nat \ {0}
                                /\ MaxRoleChanges \in Nat
                                /\ {"none", "listen", "other"} \cap Nbrs = {}

VARIABLES
    tsch_is_associated, tsch_is_coordinator,
    pc,                 \* tsch_process: "scan", or "slots" while it yields
    posted,             \* is an event posted to tsch_process?
    slots,              \* is the slot operation scheduled?
    slot,               \* what the slot in progress does: "none", "listen",
                        \* "other", or the neighbor it sends a keepalive to
    time_source,
    last_eb_nbr,        \* last_eb_nbr_addr
    synced,             \* sync_count > 0
    desync,             \* last sync more than TSCH_DESYNC_THRESHOLD ago?
    ka_timeout,         \* tsch_current_ka_timeout > 0
    keepalive_timer,    \* is it running?
    ka_queue,           \* the destinations of the keepalives to be sent
    ka_done,            \* the outcome of those that were sent
    input_ringbuf,      \* the EBs received
    silent,             \* did tsch_set_coordinator end the association, and
                        \* nothing woke tsch_process since?
    torn,               \* did tsch_reset run in the middle of a slot?
    roles               \* calls of tsch_set_coordinator so far

netVars == <<tsch_is_associated, tsch_is_coordinator, pc, posted, slots, slot, silent, torn,
             roles>>
syncVars == <<time_source, last_eb_nbr, synced, desync>>
kaVars == <<ka_timeout, keepalive_timer, ka_queue, ka_done>>
vars == <<netVars, syncVars, kaVars, input_ringbuf>>

None == "none"      \* NULL, linkaddr_null

\* tsch_init and turn_on: tsch_process starts with the scan
Init == /\ tsch_is_associated = FALSE /\ tsch_is_coordinator = FALSE
        /\ pc = "scan" /\ posted = FALSE /\ slots = FALSE
        /\ time_source = None /\ last_eb_nbr = None /\ synced = FALSE /\ desync = FALSE
        /\ ka_timeout = FALSE /\ keepalive_timer = FALSE /\ ka_queue = << >> /\ ka_done = << >>
        /\ input_ringbuf = << >>
        /\ slot = "none" /\ silent = FALSE /\ torn = FALSE /\ roles = 0

-----------------------------------------------------------------------------
(* Functions of tsch.c that several handlers call *)

\* Faulty variant: tsch_process is not told
disassociateSilently == tsch_is_associated' = FALSE /\ UNCHANGED posted

tsch_disassociate == /\ tsch_is_associated' = FALSE
                     /\ posted' = (posted \/ tsch_is_associated)

\* Is the timer running after tsch_schedule_keepalive?
tsch_schedule_keepalive(associated) ==
    keepalive_timer \/ (~tsch_is_coordinator /\ associated /\ ka_timeout)

\* tsch_queue_update_time_source: a new time source has its keepalives
\* scheduled, but there may be no memory for it; without one they stop
tsch_queue_update_time_source(n) ==
    LET changes == ~tsch_is_coordinator /\ n # time_source
    IN  \/ /\ changes
           /\ time_source' = n
           /\ ka_timeout' = (n # None)
           /\ keepalive_timer' = (n # None /\ (keepalive_timer \/ tsch_is_associated))
        \/ /\ changes => n # None
           /\ UNCHANGED <<time_source, ka_timeout, keepalive_timer>>

-----------------------------------------------------------------------------
(* tsch_process *)

\* tsch_start_coordinator, from the scan or after a reset
StartCoordinator == /\ tsch_is_associated' = TRUE
                    /\ slots' = TRUE /\ desync' = FALSE
                    /\ pc' = "slots"

\* Faulty variant: the last neighbor is kept
resetKeepsLastEb ==
    /\ input_ringbuf' = << >> /\ ka_queue' = << >> /\ ka_done' = << >>
    /\ tsch_queue_update_time_source(None)
    /\ UNCHANGED <<last_eb_nbr, synced>>

\* tsch_reset: pending EBs and callbacks are handled first, then the queues are
\* flushed, and nothing those calls did survives.  A coordinator keeps its time
\* source: tsch_queue_update_time_source(NULL) does nothing there.
tsch_reset ==
    /\ input_ringbuf' = << >> /\ ka_queue' = << >> /\ ka_done' = << >>
    /\ tsch_queue_update_time_source(None)
    /\ last_eb_nbr' = None
    /\ UNCHANGED synced

\* An event, posted or broadcast, reaches tsch_process
HandleEvent ==
    /\ posted' = FALSE
    /\ IF pc = "slots" /\ ~tsch_is_associated
       THEN /\ tsch_reset
            /\ silent' = FALSE /\ torn' = (torn \/ slot # "none")
            /\ IF tsch_is_coordinator THEN StartCoordinator
               ELSE pc' = "scan" /\ UNCHANGED <<tsch_is_associated, slots, desync>>
       ELSE UNCHANGED <<tsch_is_associated, pc, slots, silent, torn, syncVars, kaVars,
                        input_ringbuf>>
    /\ UNCHANGED <<tsch_is_coordinator, slot, roles>>

PostedEvent == posted /\ HandleEvent
BroadcastEvent == HandleEvent

\* tsch_scan, an EB from n that is not rejected.  A scan takes longer than what
\* is left of a slot.
tsch_associate(n) ==
    /\ pc = "scan" /\ ~tsch_is_coordinator /\ slot = "none"
    /\ time_source' = n /\ ka_timeout' = TRUE
    /\ tsch_is_associated' = TRUE
    /\ synced' = FALSE /\ desync' = FALSE
    /\ keepalive_timer' = TRUE
    /\ pc' = "slots" /\ slots' = TRUE /\ torn' = FALSE
    /\ UNCHANGED <<tsch_is_coordinator, posted, slot, silent, roles, last_eb_nbr, ka_queue, ka_done,
                   input_ringbuf>>

\* The scan's timer expires, and the node is to be coordinator
ScanEnds == /\ pc = "scan" /\ tsch_is_coordinator
            /\ StartCoordinator
            /\ UNCHANGED <<tsch_is_coordinator, posted, slot, silent, torn, roles, time_source,
                           last_eb_nbr, synced, kaVars, input_ringbuf>>

-----------------------------------------------------------------------------
(* The other processes *)

\* eb_input: the neighbor is kept as the last one unless the one kept so far
\* is the time source.  An EB of the time source with another ASN, or with a
\* join priority that is too high, makes the node leave.
eb_input == LET eb == Head(input_ringbuf)
            IN  /\ input_ringbuf # << >>
                /\ input_ringbuf' = Tail(input_ringbuf)
                /\ last_eb_nbr' = IF time_source = None \/ last_eb_nbr # time_source
                                  THEN eb.src ELSE last_eb_nbr
                /\ IF eb.src = time_source /\ ~eb.fits THEN tsch_disassociate
                   ELSE UNCHANGED <<tsch_is_associated, posted>>
                /\ UNCHANGED <<tsch_is_coordinator, pc, slots, slot, silent, torn, roles,
                               time_source, synced, desync, kaVars>>

\* Faulty variant: no other neighbor is known, and no keepalive is scheduled
keepaliveGivesUp(status) ==
    IF status = "noack" /\ last_eb_nbr # None
    THEN /\ time_source' \in IF tsch_is_coordinator THEN {time_source} ELSE {time_source, last_eb_nbr}
         /\ ka_timeout' = (ka_timeout \/ time_source' # time_source)
         /\ keepalive_timer' = (keepalive_timer \/ (~tsch_is_coordinator /\ tsch_is_associated))
         /\ UNCHANGED <<tsch_is_associated, posted>>
    ELSE /\ IF status = "noack" /\ ~synced THEN tsch_disassociate
            ELSE UNCHANGED <<tsch_is_associated, posted>>
         /\ keepalive_timer' = IF status = "noack" THEN keepalive_timer
                               ELSE tsch_schedule_keepalive(tsch_is_associated')
         /\ UNCHANGED <<time_source, ka_timeout>>

\* keepalive_packet_sent: without an ACK the last neighbor becomes time source,
\* if it can be added, and gets a keepalive at once
keepalive_packet_sent(status) ==
    IF status = "noack" /\ last_eb_nbr # None
    THEN /\ time_source' \in IF tsch_is_coordinator THEN {time_source} ELSE {time_source, last_eb_nbr}
         /\ ka_timeout' = (ka_timeout \/ time_source' # time_source)
         /\ keepalive_timer' = (keepalive_timer \/ (~tsch_is_coordinator /\ tsch_is_associated))
         /\ UNCHANGED <<tsch_is_associated, posted>>
    ELSE /\ IF status = "noack" /\ ~synced THEN tsch_disassociate
            ELSE UNCHANGED <<tsch_is_associated, posted>>
         /\ keepalive_timer' = tsch_schedule_keepalive(tsch_is_associated')
         /\ UNCHANGED <<time_source, ka_timeout>>

\* tsch_tx_process_pending: received frames are handled first
KeepaliveSent == /\ input_ringbuf = << >> /\ ka_done # << >>
                 /\ keepalive_packet_sent(Head(ka_done))
                 /\ ka_done' = Tail(ka_done)
                 /\ UNCHANGED <<tsch_is_coordinator, pc, slots, slot, silent, torn, roles, last_eb_nbr,
                                synced, desync, ka_queue, input_ringbuf>>

\* keepalive_send, when the timer expires.  A full queue calls back at once,
\* with MAC_TX_ERR.
keepalive_send ==
    /\ keepalive_timer
    /\ IF tsch_is_associated /\ time_source # None
       THEN IF Len(ka_queue) < QueueSize
            THEN ka_queue' = Append(ka_queue, time_source) /\ keepalive_timer' = FALSE
            ELSE /\ keepalive_timer' = (~tsch_is_coordinator /\ ka_timeout)
                 /\ UNCHANGED ka_queue
       ELSE keepalive_timer' = FALSE /\ UNCHANGED ka_queue
    /\ UNCHANGED <<netVars, syncVars, ka_timeout, ka_done, input_ringbuf>>

\* tsch_rpl_callback_parent_switch; no link-layer address may be known of the
\* new parent, then the node is left without a time source
ParentSwitch(n) == /\ tsch_is_associated
                   /\ tsch_queue_update_time_source(n)
                   /\ UNCHANGED <<netVars, last_eb_nbr, synced, desync, ka_queue, ka_done,
                                  input_ringbuf>>

\* From the application, the shell or RPL: nothing is posted
tsch_set_coordinator(enable) ==
    /\ roles < MaxRoleChanges /\ tsch_is_coordinator # enable
    /\ roles' = roles + 1
    /\ tsch_is_coordinator' = enable
    /\ tsch_is_associated' = FALSE
    /\ silent' = (silent \/ (tsch_is_associated /\ ~posted))
    /\ UNCHANGED <<pc, posted, slots, slot, torn, syncVars, kaVars, input_ringbuf>>

-----------------------------------------------------------------------------
(* The slot operation *)

slotUnchanged == <<tsch_is_coordinator, pc, silent, torn, roles, time_source, last_eb_nbr, ka_timeout>>

\* Faulty variant: a slot listens without a look at the input ring
listenAlways == TRUE

\* tsch_rx_slot needs a place in the input ring, tsch_tx_slot in the other one
CanListen == Len(input_ringbuf) < RingSize

\* The start of a slot; the loop of the slot operation ends in the first slot
\* after the association has ended
SlotStart ==
    /\ slots /\ slot = "none"
    /\ IF tsch_is_associated
       THEN /\ UNCHANGED slots
            /\ \/ slot' = "other"
               \/ slot' = "listen" /\ CanListen
               \/ ka_queue # << >> /\ Len(ka_done) < RingSize /\ slot' = Head(ka_queue)
       ELSE slots' = FALSE /\ UNCHANGED slot
    /\ UNCHANGED <<slotUnchanged, tsch_is_associated, posted, synced, desync, keepalive_timer,
                   ka_queue, ka_done, input_ringbuf>>

\* The ACK or a frame of the time source in a link for time keeping; only a
\* frame counts in sync_count
Synchronize(byFrame) == /\ desync' = FALSE
                        /\ synced' = (synced \/ byFrame)
                        /\ keepalive_timer' = tsch_schedule_keepalive(tsch_is_associated)

NoSync == UNCHANGED <<desync, synced, keepalive_timer>>

\* Nothing is received, an EB, or another frame
Listened == /\ slot = "listen"
            /\ \/ NoSync /\ UNCHANGED input_ringbuf
               \/ time_source # None /\ Synchronize(TRUE) /\ UNCHANGED input_ringbuf
               \/ \E src \in Nbrs, fits \in BOOLEAN :
                     /\ input_ringbuf' = Append(input_ringbuf, [src |-> src, fits |-> fits])
                     /\ NoSync \/ (src = time_source /\ Synchronize(TRUE))
            /\ UNCHANGED <<ka_queue, ka_done>>

\* A keepalive's attempt fails and is to be repeated, or is its last.  The
\* queue may have been flushed meanwhile.
KeepaliveTried ==
    /\ slot \in Nbrs
    /\ \/ NoSync /\ UNCHANGED <<ka_queue, ka_done>>
       \/ /\ ka_queue' = IF ka_queue # << >> /\ Head(ka_queue) = slot THEN Tail(ka_queue)
                         ELSE ka_queue
          /\ \E status \in {"ok", "noack", "err"} :
                /\ ka_done' = Append(ka_done, status)
                /\ NoSync \/ (status = "ok" /\ slot = time_source /\ Synchronize(FALSE))
    /\ UNCHANGED input_ringbuf

\* Another packet is sent, perhaps to the time source
OtherSlot == /\ slot = "other"
             /\ NoSync \/ (time_source # None /\ Synchronize(FALSE))
             /\ UNCHANGED <<ka_queue, ka_done, input_ringbuf>>

\* The end of a slot: a node that is out of sync leaves, a coordinator never is
SlotEnd == /\ Listened \/ KeepaliveTried \/ OtherSlot
           /\ IF desync' /\ ~tsch_is_coordinator THEN tsch_disassociate
              ELSE UNCHANGED <<tsch_is_associated, posted>>
           /\ slot' = "none"
           /\ UNCHANGED <<slotUnchanged, slots>>

\* TSCH_DESYNC_THRESHOLD passes
TimePasses == /\ tsch_is_associated /\ ~desync
              /\ desync' = TRUE
              /\ UNCHANGED <<netVars, time_source, last_eb_nbr, synced, kaVars, input_ringbuf>>

-----------------------------------------------------------------------------

Next == \/ PostedEvent \/ BroadcastEvent \/ ScanEnds
        \/ \E n \in Nbrs : tsch_associate(n)
        \/ \E n \in Nbrs \cup {None} : ParentSwitch(n)
        \/ eb_input \/ KeepaliveSent \/ keepalive_send
        \/ \E enable \in BOOLEAN : tsch_set_coordinator(enable)
        \/ SlotStart \/ SlotEnd \/ TimePasses

\* The processor is given to every process that has an event, and the slot
\* operation's timer expires.  Nobody need broadcast an event, send EBs, or
\* answer keepalives.
Fairness == /\ WF_vars(PostedEvent) /\ WF_vars(ScanEnds)
            /\ WF_vars(eb_input) /\ WF_vars(KeepaliveSent) /\ WF_vars(keepalive_send)
            /\ WF_vars(SlotStart) /\ WF_vars(SlotEnd)

Spec == Init /\ [][Next]_vars /\ Fairness
-----------------------------------------------------------------------------
(* Properties *)

\* Types and the bounds of the queue and the rings.  A scanning node is not
\* associated and has no time source, and an associated one runs its slots.
AssociationTypeOK ==
    /\ {tsch_is_associated, tsch_is_coordinator, posted, slots, synced, desync, ka_timeout,
        keepalive_timer, silent, torn} \subseteq BOOLEAN
    /\ slot \in {"none", "listen", "other"} \cup Nbrs
    /\ pc \in {"scan", "slots"} /\ {time_source, last_eb_nbr} \subseteq Nbrs \cup {None}
    /\ Len(ka_queue) <= QueueSize /\ ToSet(ka_queue) \subseteq Nbrs
    /\ Len(ka_done) <= RingSize /\ ToSet(ka_done) \subseteq {"ok", "noack", "err"}
    /\ Len(input_ringbuf) <= RingSize
    /\ ToSet(input_ringbuf) \subseteq [src : Nbrs, fits : BOOLEAN]
    /\ roles \in 0 .. MaxRoleChanges
    /\ pc = "scan" => ~tsch_is_associated /\ time_source = None
    /\ tsch_is_associated => slots

\* The keepalives of a node that has a time source never cease: one is
\* scheduled, or is on its way and its callback will schedule the next.  No
\* other code checks the link to the time source before the node is out of
\* sync.
KeepaliveKeptUp ==
    tsch_is_associated /\ ~tsch_is_coordinator /\ time_source # None =>
        keepalive_timer \/ ka_queue # << >> \/ ka_done # << >>

\* When an ordinary node joins a network nothing is left of the network it was
\* in before: no neighbor to fall back to, no EB, no keepalive whose callback
\* could make it leave at once, and sync_count is 0.  The exception is a
\* tsch_reset in the middle of a slot, which leaves its result behind.
SessionClean ==
    [][~tsch_is_associated /\ tsch_is_associated' /\ ~tsch_is_coordinator' /\ ~torn =>
          /\ last_eb_nbr' = None /\ ~synced' /\ ~desync'
          /\ input_ringbuf' = << >> /\ ka_queue' = << >> /\ ka_done' = << >>]_vars

\* A node that is out of sync, or has left, is in sync again or scans in the
\* end, whatever it hears; unless tsch_set_coordinator ended the association,
\* which no event tells tsch_process.
BackOrScanning ==
    desync \/ ~tsch_is_associated ~>
        \/ tsch_is_associated /\ (~desync \/ tsch_is_coordinator)
        \/ pc = "scan"
        \/ silent
=============================================================================
