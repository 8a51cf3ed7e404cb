--------------------------- MODULE TschSlotOperation ---------------------------
(***************************************************************************)
(* The slot operation of tsch-slot-operation.c against the operations on   *)
(* the schedule: tsch_slot_operation runs in the rtimer interrupt, yields  *)
(* in the middle of a Tx or Rx slot and between slots, and holds pointers  *)
(* to links (current_link, backup_link) across its yields; the main        *)
(* program meanwhile adds and removes links, taking the TSCH lock for each *)
(* stretch of its work and releasing it in between.                        *)
(*                                                                         *)
(* Packets are left to TschQueue: that there is one to send is a free      *)
(* choice, refused while TSCH is locked as the getters of tsch-queue.c do. *)
(* The node is associated throughout.  The ASN is kept modulo a multiple   *)
(* of all slotframe sizes (TschTiming: only its remainders are used).      *)
(*                                                                         *)
(* The definitions marked "Faulty variant" are not part of the             *)
(* specification: each is a plausible mistake that a property rejects when *)
(* it replaces the definition below it.                                    *)
(***************************************************************************)
EXTENDS TschLock, TschSchedule

CONSTANTS
    AsnPeriod,                  \* a multiple of all slotframe sizes
    TSCH_BURST_MAX_LEN,
    WithBursts,                 \* do nodes set the frame pending bit?
    TSCH_WITH_CC1200_RECONF,    \* does the build look up the slotframe's PHY?
    WithTimeSource,             \* can a received frame come from a time source?
    InitialSchedules            \* the schedules before slot operation starts

ASSUME SlotAssumption == /\ AsnPeriod \in Nat \ {0} /\ \A n \in Sizes \ {0} : AsnPeriod % n = 0
                         /\ TSCH_BURST_MAX_LEN \in Nat
                         /\ WithBursts \in BOOLEAN /\ WithTimeSource \in BOOLEAN

\* The operations of TschSchedule made them
ASSUME InitialAssumption ==
           \A s \in InitialSchedules :
               s \in Schedules /\ WellFormed(s) /\ (RoomForAll => CountsAgree(s))

VARIABLES
    todo,               \* what is left of the main program's call
    current_link, backup_link,
    burst_link_scheduled, tsch_current_burst_count,
    asn,                \* tsch_current_asn, modulo AsnPeriod
    isr,                \* "yielded", or "end": at the end of a slot
    viaBackup,          \* was current_link last set from backup_link?
    null_deref          \* has the slot operation dereferenced NULL?

slotVars == <<current_link, backup_link, burst_link_scheduled,
              tsch_current_burst_count, asn, isr, viaBackup, null_deref>>
allVars == <<lockVars, schedule, todo, slotVars>>

-----------------------------------------------------------------------------
(* The main program.  A call is a stack of jobs; a job runs without the     *)
(* lock (a lookup, a loop test, a counter) or is one locked stretch.        *)

RmAll == [op |-> "rmall"]
RmSf(h) == [op |-> "rmsf", handle |-> h]
FreeSf(h) == [op |-> "freesf", handle |-> h]
AddSf(h, n) == [op |-> "addsf", handle |-> h, size |-> n]
RmTimeslot(h, t) == [op |-> "rmts", handle |-> h, timeslot |-> t]
RmLink(c) == [op |-> "rmlink", cell |-> c]
NewLink(h, k, t) == [op |-> "newlink", handle |-> h, kind |-> k, timeslot |-> t]
Nbr(a) == [op |-> "nbr", addr |-> a]
FreeUnused(a) == [op |-> "freenbr", addr |-> a]
Count(a, o, d) == [op |-> "count", addr |-> a, opts |-> o, delta |-> d]
Release == [op |-> "release"]

Fits(h, t) == HasSlotframe(schedule, h) /\ t < Slotframe(schedule, h).size

\* The calls of the schedule's users (Orchestra, 6top, the application), of
\* tsch_queue_add_packet for a new neighbor and of tsch_tx_process_pending
Calls ==
    {<<RmAll>>}
    \cup {<<AddSf(h, n)>> : h \in {g \in Handles : ~HasSlotframe(schedule, g)},
                            n \in Sizes \ {0}}
    \cup {<<RmSf(h)>> : h \in {g \in Handles : HasSlotframe(schedule, g)}}
    \cup {<<RmTimeslot(ht[1], ht[2]), NewLink(ht[1], k, ht[2])>> :
              ht \in {x \in Handles \X Timeslots : Fits(x[1], x[2])}, k \in LinkKinds}
    \cup {<<RmLink(c)>> : c \in Scheduled(schedule)}
    \cup {<<Nbr(a)>> : a \in {b \in Addrs : ~schedule.nbr[b].present}}
    \cup {<<FreeUnused(a)>> : a \in {b \in Addrs \ {Broadcast} :
              schedule.nbr[b].present /\ schedule.nbr[b].tx_links_count = 0}}

MainRuns == isr = "yielded"     \* the interrupt is not running

Call == /\ MainRuns /\ main = "out" /\ todo = << >>
        /\ todo' \in Calls
        /\ UNCHANGED <<lockVars, schedule, slotVars>>

\* What becomes of the jobs when the first needs no lock, or has to be
\* taken apart
Expand(job) ==
    LET sfl == schedule.slotframe_list IN
    CASE job.op = "rmall" ->
             IF sfl = << >> THEN << >> ELSE <<RmSf(sfl[1].handle), RmAll>>
      [] job.op = "rmsf" ->
             LET links == Slotframe(schedule, job.handle).links_list
             IN  IF links = << >> THEN <<FreeSf(job.handle)>>
                 ELSE <<RmLink(links[1]), job>>
      [] job.op = "rmts" ->
             LET c == tsch_schedule_get_link_by_timeslot(schedule, job.handle, job.timeslot)
             IN  IF c = NoLink THEN << >> ELSE <<RmLink(c)>>
      [] OTHER -> << >>

LockedOps == {"freesf", "addsf", "rmlink", "newlink", "nbr", "freenbr"}

\* tsch_queue_add_nbr takes the lock only for a neighbor it does not find
NeedsLock(job) == /\ job.op \in LockedOps
                  /\ job.op = "nbr" => ~schedule.nbr[job.addr].present

RunUnlocked == /\ MainRuns /\ main = "out" /\ todo # << >>
               /\ ~NeedsLock(Head(todo))
               /\ todo' = Expand(Head(todo)) \o Tail(todo)
               /\ schedule' = IF Head(todo).op = "count"
                              THEN UpdateCounts(schedule, Head(todo).addr,
                                                Head(todo).opts, Head(todo).delta)
                              ELSE schedule
               /\ UNCHANGED <<lockVars, slotVars>>

\* tsch_get_lock, in its three steps
RequestLock == /\ MainRuns /\ todo # << >> /\ NeedsLock(Head(todo))
               /\ Request
               /\ UNCHANGED <<schedule, todo, slotVars>>

TakeLock == MainRuns /\ Take /\ UNCHANGED <<schedule, todo, slotVars>>

GotLock == MainRuns /\ ClearRequest /\ UNCHANGED <<schedule, todo, slotVars>>

\* The neighbor is looked up (and allocated) before its counter changes
CountJobs(l, d) == IF "tx" \in l.link_options
                   THEN <<Nbr(l.addr), Count(l.addr, l.link_options, d)>> ELSE << >>

\* Faulty variant: a link that goes is not taken off the neighbor's counters
countsForgotten(job) ==
    IF job.op = "newlink" /\ memb_alloc(schedule) # NoLink
    THEN <<Release>> \o CountJobs(job.kind, 1) ELSE <<Release>>

\* Faulty variant: the removal of a link that is not for transmission returns
\* before it has released the lock
returnsLocked(job) ==
    CASE job.op = "rmlink" -> IF "tx" \in Opts(schedule, job.cell)
                              THEN <<Release>> \o CountJobs(schedule.link_memb[job.cell], -1)
                              ELSE << >>
      [] job.op = "newlink" /\ memb_alloc(schedule) # NoLink ->
             <<Release>> \o CountJobs(job.kind, 1)
      [] OTHER -> <<Release>>

\* What is left to do once the locked stretch of a job is over
JobsAfter(job) ==
    CASE job.op = "rmlink" -> <<Release>> \o CountJobs(schedule.link_memb[job.cell], -1)
      [] job.op = "newlink" /\ memb_alloc(schedule) # NoLink ->
             <<Release>> \o CountJobs(job.kind, 1)
      [] OTHER -> <<Release>>

ScheduleAfter(job) ==
    CASE job.op = "freesf" -> FreeSlotframe(schedule, job.handle)
      [] job.op = "addsf" -> AllocSlotframe(schedule, job.handle, job.size)
      [] job.op = "rmlink" -> FreeLink(schedule, job.cell)
      [] job.op = "newlink" -> AllocLink(schedule, job.handle, job.kind, job.timeslot)
      [] job.op = "nbr" -> tsch_queue_add_nbr(schedule, job.addr)
      [] job.op = "freenbr" -> FreeNbr(schedule, job.addr)

\* Faulty variant: the next link operation is not aborted
keepCurrent(job) == current_link

\* "The link to be removed is scheduled as next, set it to NULL to abort the
\* next link operation"
CurrentAfter(job) == IF job.op = "rmlink" /\ job.cell = current_link
                     THEN NoLink ELSE current_link

\* The locked stretch
RunLocked == /\ MainRuns /\ main = "in" /\ Head(todo).op \in LockedOps
             /\ schedule' = ScheduleAfter(Head(todo))
             /\ current_link' = CurrentAfter(Head(todo))
             /\ todo' = JobsAfter(Head(todo)) \o Tail(todo)
             /\ UNCHANGED <<lockVars, backup_link, burst_link_scheduled,
                            tsch_current_burst_count, asn, isr, viaBackup, null_deref>>

ReleaseLock == /\ MainRuns /\ main = "in" /\ Head(todo).op = "release"
               /\ tsch_release_lock
               /\ todo' = Tail(todo)
               /\ UNCHANGED <<schedule, slotVars>>

Main == \/ Call \/ RunUnlocked \/ RequestLock \/ TakeLock \/ GotLock
        \/ RunLocked \/ ReleaseLock

-----------------------------------------------------------------------------
(* The slot operation *)

\* The rtimer fires, but there is no link or somebody wants the lock
SkipSlot == /\ isr = "yielded" /\ slot = "none"
            /\ current_link = NoLink \/ tsch_lock_requested
            /\ isr' = "end"
            /\ UNCHANGED <<lockVars, schedule, todo, current_link, backup_link,
                           burst_link_scheduled, tsch_current_burst_count, asn,
                           viaBackup, null_deref>>

\* get_packet_and_neighbor_for_link may find a packet
MayHavePacket(c) == ~tsch_locked /\ "tx" \in Opts(schedule, c)

\* Runs a slot over link c, with or without a packet.  A build that
\* reconfigures the radio for every slotframe looks the slotframe up, which
\* finds nothing while TSCH is locked.
RunSlot(c, packet) ==
    LET active == packet \/ "rx" \in Opts(schedule, c)
    IN  /\ packet => MayHavePacket(c)
        /\ StartSlot(IF packet THEN "tx" ELSE IF active THEN "rx" ELSE "off")
        /\ isr' = IF active THEN "yielded" ELSE "end"
        /\ burst_link_scheduled' = FALSE
        /\ null_deref' = (null_deref \/ (TSCH_WITH_CC1200_RECONF /\ active /\ tsch_locked))
        /\ current_link' = c
        /\ viaBackup' = (viaBackup \/ c # current_link)
        /\ UNCHANGED <<schedule, todo, backup_link, tsch_current_burst_count, asn>>

StartSlotOperation ==
    /\ isr = "yielded" /\ current_link # NoLink
    /\ \/ RunSlot(current_link, TRUE)
       \* No packet: the link's own Rx flag, or the backup link
       \/ /\ "rx" \in Opts(schedule, current_link) \/ backup_link = NoLink
          /\ RunSlot(current_link, FALSE)
       \/ /\ "rx" \notin Opts(schedule, current_link) /\ backup_link # NoLink
          /\ \E packet \in BOOLEAN : RunSlot(backup_link, packet)

\* tsch_tx_slot after its last yield.  An acknowledged frame with the frame
\* pending bit set starts or continues a burst.
FinishTx ==
    /\ isr = "yielded" /\ slot = "tx"
    /\ burst_link_scheduled' \in
          IF WithBursts /\ tsch_current_burst_count + 1 < TSCH_BURST_MAX_LEN
          THEN BOOLEAN ELSE {FALSE}
    /\ null_deref' = (null_deref \/ current_link = NoLink)
    /\ isr' = "end"
    /\ UNCHANGED <<lockVars, schedule, todo, current_link, backup_link,
                   tsch_current_burst_count, asn, viaBackup>>

\* tsch_rx_slot after its last yield.  The peer's frame pending bit decides
\* on a burst; a frame from the time source makes it look at the link.
FinishRx ==
    /\ isr = "yielded" /\ slot = "rx"
    /\ burst_link_scheduled' \in IF WithBursts THEN BOOLEAN ELSE {FALSE}
    /\ null_deref' \in {null_deref,
                        null_deref \/ (WithTimeSource /\ ~tsch_locked /\ current_link = NoLink)}
    /\ isr' = "end"
    /\ UNCHANGED <<lockVars, schedule, todo, current_link, backup_link,
                   tsch_current_burst_count, asn, viaBackup>>

AsnAfter(diff) == (asn + diff) % AsnPeriod

\* One turn of the loop at the end of a slot: the next link, and the ASN at
\* which it is.  The burst counter matters only up to TSCH_BURST_MAX_LEN.
NextLink ==
    LET next == IF tsch_locked THEN [time |-> 0, best |-> NoLink, backup |-> NoLink]
                ELSE tsch_schedule_get_next_active_link(schedule, asn)
        diff == IF burst_link_scheduled \/ next.best = NoLink THEN 1 ELSE next.time
    IN  /\ asn' = AsnAfter(diff)
        /\ backup_link' = IF burst_link_scheduled THEN NoLink ELSE next.backup
        /\ IF burst_link_scheduled
           THEN /\ tsch_current_burst_count' = Min({tsch_current_burst_count + 1,
                                                    TSCH_BURST_MAX_LEN})
                /\ UNCHANGED <<current_link, viaBackup>>
           ELSE /\ tsch_current_burst_count' = IF next.best = NoLink
                                               THEN tsch_current_burst_count ELSE 0
                /\ current_link' = next.best
                /\ viaBackup' = FALSE

\* The deadline of the next slot is missed: the loop turns again
MissDeadline == /\ isr = "end"
                /\ NextLink
                /\ UNCHANGED <<lockVars, schedule, todo, burst_link_scheduled, isr, null_deref>>

\* The rtimer is armed for the next slot, and the slot operation yields
ArmNextSlot == /\ isr = "end"
               /\ NextLink
               /\ isr' = "yielded"
               /\ IF slot = "none" THEN UNCHANGED lockVars ELSE EndSlot
               /\ UNCHANGED <<schedule, todo, burst_link_scheduled, null_deref>>

Interrupt == \/ SkipSlot \/ StartSlotOperation \/ FinishTx \/ FinishRx
             \/ MissDeadline \/ ArmNextSlot

-----------------------------------------------------------------------------

\* tsch_slot_operation_start, with a schedule the node set up before
SlotInit == /\ LockInit
            /\ schedule \in InitialSchedules
            /\ todo = << >>
            /\ LET next == tsch_schedule_get_next_active_link(schedule, 0)
               IN  /\ current_link = next.best
                   /\ backup_link = next.backup
                   /\ asn = (IF next.best = NoLink THEN 1 ELSE next.time) % AsnPeriod
            /\ burst_link_scheduled = FALSE
            /\ tsch_current_burst_count = 0
            /\ isr = "yielded"
            /\ viaBackup = FALSE
            /\ null_deref = FALSE

SlotNext == Main \/ Interrupt

\* The main program carries its calls through (it need not start new ones),
\* however often the interrupt comes between two of its instructions; the
\* rtimer fires, slots end, and deadlines are not missed forever.
Fairness == /\ SF_allVars(RunUnlocked) /\ SF_allVars(RequestLock) /\ SF_allVars(TakeLock)
            /\ SF_allVars(GotLock) /\ SF_allVars(RunLocked) /\ SF_allVars(ReleaseLock)
            /\ WF_allVars(SkipSlot \/ StartSlotOperation)
            /\ WF_allVars(FinishTx) /\ WF_allVars(FinishRx) /\ WF_allVars(ArmNextSlot)

SlotSpec == SlotInit /\ [][SlotNext]_allVars /\ Fairness

-----------------------------------------------------------------------------
(* Properties *)

\* The pointers of the slot operation are cells or NULL, the lock is well
\* typed, and a call that asked for the lock is not over before it has released
\* it, on whatever path it returns.
SlotTypeOK == /\ LockTypeOK
              /\ main # "out" => todo # << >>
              /\ current_link \in Cells \cup {NoLink}
              /\ backup_link \in Cells \cup {NoLink}
              /\ tsch_current_burst_count \in 0 .. TSCH_BURST_MAX_LEN
              /\ asn \in 0 .. AsnPeriod - 1
              /\ isr \in {"yielded", "end"}

\* The link of the current or next slot is in the schedule, also when it was
\* removed after it had been chosen, unless it was reached through
\* backup_link.
CurrentLinkScheduled ==
    current_link # NoLink /\ ~viaBackup => current_link \in Scheduled(schedule)

\* The slot operation does not dereference a NULL link or slotframe:
\* tsch_get_lock is there to "Lock TSCH (no slot operation)".
NoNullDeref == ~null_deref

\* When no call is in progress the counters agree with the schedule.
CountsInSyncAtRest == todo = << >> => CountsInSync

\* A process that asks for the lock gets it: its request keeps slots from
\* starting, so the busy wait ends with the current slot.
LockGranted == main = "requested" ~> main = "in"

\* Slot operation goes on: with links in a schedule nobody changes any more,
\* slots are run again and again.
SlotsKeepRunning ==
    <>[](Scheduled(schedule) # {} /\ todo = << >>) => []<>(slot # "none")
=============================================================================
