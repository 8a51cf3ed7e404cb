----------------------------- MODULE TschSchedule -----------------------------
(***************************************************************************)
(* The TSCH schedule of tsch-schedule.c: slotframes, each with a list of   *)
(* links, links from a fixed pool of cells, and the count of transmission  *)
(* links that the schedule keeps in the neighbors of tsch-queue.c.         *)
(*                                                                         *)
(* A schedule is a record                                                  *)
(*   slotframe_list  the slotframes, in list order                         *)
(*   link_memb       for every cell of the pool whether it is allocated,   *)
(*                   and its contents, which survive memb_free             *)
(*   nbr             the neighbors and their tx_links_count,               *)
(*                   dedicated_tx_links_count                              *)
(* and the operations are functions from schedule to schedule, one for     *)
(* each stretch of code between taking and releasing the TSCH lock; this   *)
(* module's actions run each API function as a whole, TschSlotOperation    *)
(* interleaves their stretches with the slot operation.                    *)
(*                                                                         *)
(* The definitions marked "Faulty variant" are not part of the             *)
(* specification: each is a plausible mistake that a property rejects when *)
(* it replaces the definition below it.                                    *)
(***************************************************************************)
EXTENDS Integers, Sequences, FiniteSets, FiniteSetsExt, SequencesExt

CONSTANTS
    Handles,        \* slotframe handles (numbers: the order matters)
    Sizes,          \* slotframe sizes asked for, 0 may be one of them
    LinkKinds,      \* records [link_options, addr] links are added with
    Addrs, Broadcast,               \* neighbor addresses, and the virtual one
    MaxSlotframes, MaxLinks, MaxNbrs   \* the sizes of the three pools

ASSUME ScheduleAssumption == /\ Handles \subseteq Nat /\ 0 \in Handles
                             /\ Sizes \subseteq Nat /\ IsFiniteSet(Sizes)
                             /\ Broadcast \in Addrs /\ IsFiniteSet(Addrs)
                             /\ \A k \in LinkKinds : k.addr \in Addrs
                             /\ {MaxSlotframes, MaxLinks, MaxNbrs} \subseteq Nat

VARIABLE schedule

Cells == 1 .. MaxLinks
NoLink == 0                     \* NULL as a pointer to a link
MaxSize == Max(Sizes \cup {1})
Timeslots == 0 .. MaxSize       \* one more than fits, which is refused
CounterSize == 256              \* the counters are uint8_t

EmptySchedule ==
    [slotframe_list |-> << >>,
     link_memb |-> [c \in Cells |->
        [used |-> FALSE, link_options |-> {}, addr |-> Broadcast,
         slotframe_handle |-> 0, timeslot |-> 0]],
     nbr |-> [a \in Addrs |-> [present |-> a = Broadcast,
                               tx_links_count |-> 0, dedicated |-> 0]]]

-----------------------------------------------------------------------------
(* Looking up *)

\* Position of the slotframe with this handle, 0 if there is none
tsch_schedule_get_slotframe_by_handle(s, handle) ==
    SelectInSeq(s.slotframe_list, LAMBDA sf : sf.handle = handle)

HasSlotframe(s, handle) == tsch_schedule_get_slotframe_by_handle(s, handle) # 0

Slotframe(s, handle) == s.slotframe_list[tsch_schedule_get_slotframe_by_handle(s, handle)]

\* The first link in the list with this timeslot
tsch_schedule_get_link_by_timeslot(s, handle, timeslot) ==
    LET links == Slotframe(s, handle).links_list
        i == SelectInSeq(links, LAMBDA c : s.link_memb[c].timeslot = timeslot)
    IN  IF i = 0 THEN NoLink ELSE links[i]

Scheduled(s) == UNION {ToSet(s.slotframe_list[i].links_list) :
                           i \in DOMAIN s.slotframe_list}

-----------------------------------------------------------------------------
(* The stretches of code that run with the lock *)

\* tsch_schedule_add_slotframe, from memb_alloc to list_add
AllocSlotframe(s, handle, size) ==
    IF Len(s.slotframe_list) = MaxSlotframes THEN s
    ELSE [s EXCEPT !.slotframe_list =
             Append(@, [handle |-> handle, size |-> size, links_list |-> << >>])]

\* tsch_schedule_remove_slotframe, once all its links are gone
FreeSlotframe(s, handle) ==
    [s EXCEPT !.slotframe_list = RemoveAt(@, tsch_schedule_get_slotframe_by_handle(s, handle))]

\* The cell memb_alloc returns: the first that is free
memb_alloc(s) == LET free == {c \in Cells : ~s.link_memb[c].used}
                 IN  IF free = {} THEN NoLink ELSE Min(free)

\* tsch_schedule_add_link, from memb_alloc to the release of the lock
AllocLink(s, handle, kind, timeslot) ==
    LET c == memb_alloc(s)
        i == tsch_schedule_get_slotframe_by_handle(s, handle)
    IN  IF c = NoLink THEN s
        ELSE [s EXCEPT !.slotframe_list[i].links_list = Append(@, c),
                       !.link_memb[c] = [used |-> TRUE,
                                         link_options |-> kind.link_options,
                                         addr |-> kind.addr,
                                         slotframe_handle |-> handle,
                                         timeslot |-> timeslot]]

\* tsch_schedule_remove_link, list_remove and memb_free
FreeLink(s, c) ==
    LET i == tsch_schedule_get_slotframe_by_handle(s, s.link_memb[c].slotframe_handle)
    IN  [s EXCEPT !.slotframe_list[i].links_list = RemoveFirst(@, c),
                  !.link_memb[c].used = FALSE]

\* tsch_queue_add_nbr: the neighbor, allocated if it is new and there is room
tsch_queue_add_nbr(s, addr) ==
    IF s.nbr[addr].present \/ Cardinality({a \in Addrs : s.nbr[a].present}) = MaxNbrs
    THEN s
    ELSE [s EXCEPT !.nbr[addr] = [present |-> TRUE, tx_links_count |-> 0,
                                  dedicated |-> 0]]

\* tsch_queue_remove_nbr, from a call of tsch_queue_free_unused_neighbors
FreeNbr(s, addr) == [s EXCEPT !.nbr[addr].present = FALSE]

-----------------------------------------------------------------------------
(* The counters, updated without the lock *)

\* Faulty variant: shared links are not counted
countDedicatedOnly(s, addr, link_options, d) ==
    IF ~s.nbr[addr].present \/ "tx" \notin link_options \/ "shared" \in link_options
    THEN s
    ELSE [s EXCEPT !.nbr[addr].tx_links_count = (@ + d) % CounterSize,
                   !.nbr[addr].dedicated = (@ + d) % CounterSize]

\* A transmission link to this neighbor came (d = 1) or went (d = -1)
UpdateCounts(s, addr, link_options, d) ==
    IF ~s.nbr[addr].present \/ "tx" \notin link_options THEN s
    ELSE [s EXCEPT !.nbr[addr].tx_links_count = (@ + d) % CounterSize,
                   !.nbr[addr].dedicated =
                       IF "shared" \in link_options THEN @ ELSE (@ + d) % CounterSize]

-----------------------------------------------------------------------------
(* The API functions as a whole *)

\* Faulty variant: a slotframe without slots is accepted
addAnySize(s, handle, size) ==
    IF HasSlotframe(s, handle) THEN s ELSE AllocSlotframe(s, handle, size)

tsch_schedule_add_slotframe(s, handle, size) ==
    IF size = 0 \/ HasSlotframe(s, handle) THEN s
    ELSE AllocSlotframe(s, handle, size)

tsch_schedule_remove_link(s, c) ==
    LET l == s.link_memb[c]
        removed == FreeLink(s, c)
    IN  IF "tx" \notin l.link_options THEN removed
        ELSE UpdateCounts(tsch_queue_add_nbr(removed, l.addr), l.addr, l.link_options, -1)

tsch_schedule_remove_link_by_timeslot(s, handle, timeslot) ==
    LET c == tsch_schedule_get_link_by_timeslot(s, handle, timeslot)
    IN  IF c = NoLink THEN s ELSE tsch_schedule_remove_link(s, c)

\* The first link of the slotframe goes, as long as there is one
RemoveFirstLink(s, handle) == tsch_schedule_remove_link(s, Head(Slotframe(s, handle).links_list))

tsch_schedule_remove_slotframe(s, handle) ==
    LET n == Len(Slotframe(s, handle).links_list)
        without[k \in 0 .. n] == IF k = 0 THEN s ELSE RemoveFirstLink(without[k - 1], handle)
    IN  FreeSlotframe(without[n], handle)

RemoveFirstSlotframe(s) == tsch_schedule_remove_slotframe(s, Head(s.slotframe_list).handle)

tsch_schedule_remove_all_slotframes(s) ==
    LET n == Len(s.slotframe_list)
        without[k \in 0 .. n] == IF k = 0 THEN s ELSE RemoveFirstSlotframe(without[k - 1])
    IN  without[n]

\* Faulty variant: the link at this timeslot is not removed first
addBesides(s, handle, kind, timeslot) ==
    LET i == tsch_schedule_get_slotframe_by_handle(s, handle)
        added == AllocLink(s, handle, kind, timeslot)
    IN  IF i = 0 \/ timeslot > s.slotframe_list[i].size - 1 THEN s
        ELSE IF added = s \/ "tx" \notin kind.link_options THEN added
        ELSE UpdateCounts(tsch_queue_add_nbr(added, kind.addr),
                          kind.addr, kind.link_options, 1)

tsch_schedule_add_link(s, handle, kind, timeslot) ==
    LET i == tsch_schedule_get_slotframe_by_handle(s, handle)
        cleared == tsch_schedule_remove_link_by_timeslot(s, handle, timeslot)
        added == AllocLink(cleared, handle, kind, timeslot)
    IN  IF i = 0 \/ timeslot > s.slotframe_list[i].size - 1 THEN s
        ELSE IF added = cleared \/ "tx" \notin kind.link_options THEN added
        ELSE UpdateCounts(tsch_queue_add_nbr(added, kind.addr),
                          kind.addr, kind.link_options, 1)

MinimalKind == [link_options |-> {"tx", "rx", "shared", "time_keeping"},
                addr |-> Broadcast]

tsch_schedule_create_minimal(s, size) ==
    tsch_schedule_add_link(
        tsch_schedule_add_slotframe(tsch_schedule_remove_all_slotframes(s), 0, size),
        0, MinimalKind, 0)

-----------------------------------------------------------------------------
(* tsch_schedule_get_next_active_link *)

Opts(s, c) == s.link_memb[c].link_options

\* Slots from an ASN until the link is next active: 1 .. size
TimeToTimeslot(s, c, asn) ==
    LET l == s.link_memb[c]
        size == Slotframe(s, l.slotframe_handle).size
        timeslot == asn % size
    IN  IF l.timeslot > timeslot THEN l.timeslot - timeslot
        ELSE size + l.timeslot - timeslot

\* Which of two overlapping links replaces the current best: "by standard,
\* prioritize Tx links first, second by lowest handle"
NewBest(s, best, l) ==
    IF ("tx" \in Opts(s, best)) = ("tx" \in Opts(s, l))
    THEN IF s.link_memb[l].slotframe_handle < s.link_memb[best].slotframe_handle
         THEN l ELSE NoLink
    ELSE IF "tx" \in Opts(s, l) THEN l ELSE NoLink

\* Faulty variant: an earlier link is found, the old backup is kept
stepKeepsBackup(s, asn, acc, l) ==
    LET t == TimeToTimeslot(s, l, asn)
        new_best == NewBest(s, acc.best, l)
    IN  IF acc.best = NoLink \/ t < acc.time
        THEN [acc EXCEPT !.time = t, !.best = l]
        ELSE IF t > acc.time THEN acc
        ELSE [time |-> t,
              best |-> IF new_best # NoLink THEN new_best ELSE acc.best,
              backup |-> IF acc.backup # NoLink THEN acc.backup
                         ELSE IF new_best # acc.best /\ "rx" \in Opts(s, acc.best) THEN acc.best
                         ELSE IF new_best # l /\ "rx" \in Opts(s, l) THEN l
                         ELSE NoLink]

\* The body of the two nested loops, for the link l
ConsiderLink(s, asn, acc, l) ==
    LET t == TimeToTimeslot(s, l, asn)
        new_best == NewBest(s, acc.best, l)
    IN  IF acc.best = NoLink \/ t < acc.time
        THEN [time |-> t, best |-> l, backup |-> NoLink]
        ELSE IF t > acc.time THEN acc
        ELSE [time |-> t,
              best |-> IF new_best # NoLink THEN new_best ELSE acc.best,
              backup |-> IF acc.backup # NoLink THEN acc.backup
                         ELSE IF new_best # acc.best /\ "rx" \in Opts(s, acc.best) THEN acc.best
                         ELSE IF new_best # l /\ "rx" \in Opts(s, l) THEN l
                         ELSE NoLink]

\* The links in the order the loops visit them
AllLinks(s) ==
    LET n == Len(s.slotframe_list)
        links[k \in 0 .. n] == IF k = 0 THEN << >>
                               ELSE links[k - 1] \o s.slotframe_list[k].links_list
    IN  links[n]

\* The next active link, its distance and its backup; without a link the
\* distance is 0
tsch_schedule_get_next_active_link(s, asn) ==
    LET links == AllLinks(s)
        found[k \in 0 .. Len(links)] ==
            IF k = 0 THEN [time |-> 0, best |-> NoLink, backup |-> NoLink]
            ELSE ConsiderLink(s, asn, found[k - 1], links[k])
    IN  found[Len(links)]

-----------------------------------------------------------------------------

Init == schedule = EmptySchedule

AddSlotframe == \E h \in Handles, size \in Sizes :
                    schedule' = tsch_schedule_add_slotframe(schedule, h, size)

RemoveSlotframe == \E h \in Handles :
                       /\ HasSlotframe(schedule, h)
                       /\ schedule' = tsch_schedule_remove_slotframe(schedule, h)

RemoveAllSlotframes == schedule' = tsch_schedule_remove_all_slotframes(schedule)

AddLink == \E h \in Handles, k \in LinkKinds, t \in Timeslots :
               schedule' = tsch_schedule_add_link(schedule, h, k, t)

RemoveLink == \E c \in Scheduled(schedule) :
                  schedule' = tsch_schedule_remove_link(schedule, c)

CreateMinimal == \E size \in Sizes \ {0} :
                     schedule' = tsch_schedule_create_minimal(schedule, size)

\* A packet for a neighbor not known yet
AddNbr == \E a \in Addrs : schedule' = tsch_queue_add_nbr(schedule, a)

\* tsch_queue_free_unused_neighbors meets an unused neighbor
FreeUnusedNbr == \E a \in Addrs \ {Broadcast} :
                     /\ schedule.nbr[a].present
                     /\ schedule.nbr[a].tx_links_count = 0
                     /\ schedule' = FreeNbr(schedule, a)

Next == \/ AddSlotframe \/ RemoveSlotframe \/ RemoveAllSlotframes
        \/ AddLink \/ RemoveLink \/ CreateMinimal
        \/ AddNbr \/ FreeUnusedNbr

Spec == Init /\ [][Next]_schedule

-----------------------------------------------------------------------------
(* Properties *)

Options == {k.link_options : k \in LinkKinds} \cup {{}, MinimalKind.link_options}
Slotframes == [handle : Handles, size : Sizes \ {0}, links_list : Seq(Cells)]
LinkCells == [used : BOOLEAN, link_options : Options, addr : Addrs,
              slotframe_handle : Nat, timeslot : Nat]
Neighbors == [present : BOOLEAN, tx_links_count : 0 .. CounterSize - 1,
              dedicated : 0 .. CounterSize - 1]
Schedules == {s \in [slotframe_list : Seq(Slotframes), link_memb : [Cells -> LinkCells],
                     nbr : [Addrs -> Neighbors]] : Len(s.slotframe_list) <= MaxSlotframes}

\* Slotframes, link cells and counters have their types; there is no
\* slotframe without slots, and the pool of slotframes is not exceeded.
ScheduleTypeOK == schedule \in Schedules

\* A slotframe has one link per timeslot, all of them its own and within its size
FrameWellFormed(sf, mb) ==
    LET links == sf.links_list
    IN  /\ \A k \in 1 .. Len(links) : /\ mb[links[k]].slotframe_handle = sf.handle
                                      /\ mb[links[k]].timeslot < sf.size
        /\ \A k, m \in 1 .. Len(links) : mb[links[k]].timeslot = mb[links[m]].timeslot => k = m

\* Handles are unique, and exactly the links in some list are allocated
WellFormed(s) ==
    LET sfl == s.slotframe_list
    IN  /\ \A i, j \in 1 .. Len(sfl) : sfl[i].handle = sfl[j].handle => i = j
        /\ \A i \in 1 .. Len(sfl) : FrameWellFormed(sfl[i], s.link_memb)
        /\ Scheduled(s) = {c \in Cells : s.link_memb[c].used}

\* The lists and the pool agree after every sequence of calls.
ScheduleWellFormed == WellFormed(schedule)

\* The links to transmit to a neighbor that the schedule holds
TxLinks(s, a) == {c \in Scheduled(s) : s.link_memb[c].addr = a /\ "tx" \in Opts(s, c)}
DedicatedTxLinks(s, a) == {c \in TxLinks(s, a) : "shared" \notin Opts(s, c)}

CountsAgree(s) ==
    \A a \in Addrs :
        /\ s.nbr[a].tx_links_count = Cardinality(TxLinks(s, a))
        /\ s.nbr[a].dedicated = Cardinality(DedicatedTxLinks(s, a))
        /\ TxLinks(s, a) # {} => s.nbr[a].present

\* The pool of neighbors has room for all of them, and the counters for all links
RoomForAll == Cardinality(Addrs) <= MaxNbrs /\ MaxLinks < CounterSize

\* tx_links_count of every neighbor is the number of its transmission links:
\* if it were too low the neighbor could be freed with links left, if it
\* were too high its packets would never go out over the broadcast link.
CountsInSync == CountsAgree(schedule)

\* The single pass over the lists finds, whatever their order, the link that
\* comes first, of those that overlap one with Tx, of those the one with the
\* lowest handle; and if that link cannot receive but another one overlapping
\* with it can, the backup is such a link.
NextActiveCorrect ==
    \A asn \in 0 .. MaxSize * MaxSize - 1 :
        LET r == tsch_schedule_get_next_active_link(schedule, asn)
            D(c) == TimeToTimeslot(schedule, c, asn)
            Soonest == {c \in Scheduled(schedule) :
                            \A d \in Scheduled(schedule) : D(c) <= D(d)}
            Rank(c) == <<IF "tx" \in Opts(schedule, c) THEN 0 ELSE 1,
                         schedule.link_memb[c].slotframe_handle>>
            Before(x, y) == x[1] < y[1] \/ (x[1] = y[1] /\ x[2] < y[2])
            CanReceive(c) == "rx" \in Opts(schedule, c)
        IN  IF Scheduled(schedule) = {} THEN r.best = NoLink
            ELSE /\ r.best \in Soonest /\ r.time = D(r.best)
                 /\ \A c \in Soonest \ {r.best} : Before(Rank(r.best), Rank(c))
                 /\ r.backup # NoLink => r.backup \in Soonest /\ CanReceive(r.backup)
                 /\ ~CanReceive(r.best) /\ (\E c \in Soonest : CanReceive(c))
                        => r.backup # NoLink
=============================================================================
