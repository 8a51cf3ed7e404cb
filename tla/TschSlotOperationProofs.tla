------------------------ MODULE TschSlotOperationProofs ------------------------
(***************************************************************************)
(* The slot operation and the TSCH lock, interleaved with the calls of the *)
(* main program: for every schedule, pool and set of neighbors.            *)
(***************************************************************************)
EXTENDS TschSlotOperation, TschScheduleProofs

-----------------------------------------------------------------------------
(* What is left of a call *)

\* With room for all neighbors the counters agree
InStep(s) == RoomForAll => CountsAgree(s)

\* The timeslots of the i-th slotframe with no link but those in D
Vacant(s, i, D) ==
    LET sf == s.slotframe_list[i]
    IN  {t \in 0 .. sf.size - 1 :
            \A m \in 1 .. Len(sf.links_list) :
                sf.links_list[m] \in D \/ s.link_memb[sf.links_list[m]].timeslot # t}

\* What a call may have to do after the work on a link, if the links in D
\* are gone by then: nothing, go on removing slotframes, or add a link
RestsOf(s, i, D) ==
    LET h == s.slotframe_list[i].handle
    IN  {<<RmSf(h)>>, <<RmSf(h), RmAll>>}
        \cup UNION {{<<NewLink(h, k, t)>> : k \in LinkKinds} : t \in Vacant(s, i, D)}
Rests(s, D) ==
    {<< >>, <<RmAll>>} \cup UNION {RestsOf(s, i, D) : i \in 1 .. Len(s.slotframe_list)}

\* Between two pieces of work
Resting(s, q) == InStep(s) /\ q \in Rests(s, {})

\* A link came or went, its neighbor's counters still have to be updated
Settling(s, q) ==
    \E a \in Addrs, o \in Options, d \in {1, -1} :
        \E r \in Rests(s, {}) :
            /\ "tx" \in o /\ (RoomForAll => CountsOwing(s, a, o, d))
            /\ \/ q = Cons(Nbr(a), Cons(Count(a, o, d), r))
               \/ q = Cons(Count(a, o, d), r) /\ (RoomForAll => s.nbr[a].present)

\* The next piece of work has been chosen, and may still be done
Chosen(s, q) ==
    LET sfl == s.slotframe_list
    IN  \/ \E i \in 1 .. Len(sfl) : \E r \in {<< >>, <<RmAll>>} :
               Len(sfl[i].links_list) = 0 /\ q = Cons(FreeSf(sfl[i].handle), r)
        \/ \E h \in Handles, n \in Sizes \ {0} : ~HasSlotframe(s, h) /\ q = <<AddSf(h, n)>>
        \/ \E i \in 1 .. Len(sfl), k \in LinkKinds : \E t \in 0 .. sfl[i].size - 1 :
               q = <<RmTimeslot(sfl[i].handle, t), NewLink(sfl[i].handle, k, t)>>
        \/ \E c \in Scheduled(s) : \E r \in Rests(s, {c}) : q = Cons(RmLink(c), r)
        \/ \E a \in Addrs : q = <<Nbr(a)>>
        \/ \E a \in Addrs : q = <<FreeUnused(a)>> /\ s.nbr[a].tx_links_count = 0

Unlocked(s, q) == Resting(s, q) \/ Settling(s, q) \/ (InStep(s) /\ Chosen(s, q))

\* The piece of work with the lock is done
Done(s, q) == q # << >> /\ Head(q) = Release /\ (Resting(s, Tail(q)) \/ Settling(s, Tail(q)))

\* The lock is asked for when the next piece of work needs it
JobsOK == \/ main = "out" /\ Unlocked(schedule, todo)
          \/ /\ main # "out" /\ todo # << >> /\ Head(todo).op \in LockedOps
             /\ Unlocked(schedule, todo)
          \/ main = "in" /\ Done(schedule, todo)

-----------------------------------------------------------------------------
(* The inductive invariant *)

\* TxExcludesLock needs that a request stays visible to the slot operation
\* until the lock is set, so that no slot is in progress when the lock is taken.
LockInv == /\ LockTypeOK
           /\ tsch_locked <=> main \in {"taken", "in"}
           /\ tsch_lock_requested <=> main \in {"requested", "taken"}
           /\ main = "taken" => ~tsch_in_slot_operation
           /\ TxExcludesLock

\* The slot operation's own variables and what ties them to the schedule
PointersOK == /\ current_link \in Cells \cup {NoLink}
              /\ backup_link \in Cells \cup {NoLink}
              /\ tsch_current_burst_count \in 0 .. TSCH_BURST_MAX_LEN
              /\ asn \in 0 .. AsnPeriod - 1
              /\ viaBackup \in BOOLEAN
              /\ CurrentLinkScheduled

SlotInv == /\ LockInv /\ Sound(schedule) /\ JobsOK /\ PointersOK
           /\ isr \in {"yielded", "end"}
           /\ burst_link_scheduled \in BOOLEAN

-----------------------------------------------------------------------------
(* The lock by itself *)

LEMMA LockInvInit == LockInit => LockInv
  BY DEF LockInit, LockInv, LockTypeOK, TxExcludesLock, MainStates, SlotStates,
         tsch_in_slot_operation

LEMMA LockInvNext == LockInv /\ [LockNext]_lockVars => LockInv'
  <1> SUFFICES ASSUME LockInv, [LockNext]_lockVars PROVE LockInv'
    OBVIOUS
  <1> USE DEF LockInv, LockTypeOK, TxExcludesLock, MainStates, SlotStates,
              tsch_in_slot_operation
  <1>1. CASE Request
    BY <1>1 DEF Request
  <1>2. CASE Take
    BY <1>2 DEF Take
  <1>3. CASE ClearRequest
    BY <1>3 DEF ClearRequest
  <1>4. CASE tsch_release_lock
    BY <1>4 DEF tsch_release_lock
  <1>5. ASSUME NEW kind \in SlotStates \ {"none"}, StartSlot(kind) PROVE LockInv'
    BY <1>5 DEF StartSlot
  <1>6. CASE EndSlot
    BY <1>6 DEF EndSlot
  <1>7. CASE UNCHANGED lockVars
    BY <1>7 DEF lockVars
  <1> QED BY <1>1, <1>2, <1>3, <1>4, <1>5, <1>6, <1>7 DEF LockNext

\* Every word of the lock protocol keeps its type.
THEOREM LockTypeCorrect == LockSpec => []LockTypeOK
  <1>1. LockInv => LockTypeOK
    BY DEF LockInv
  <1> QED BY LockInvInit, LockInvNext, <1>1, PTL DEF LockSpec

\* No transmission slot is in progress while a process holds the TSCH lock,
\* although tsch_slot_operation never tests tsch_locked before it starts.
THEOREM LockExcludesTx == LockSpec => []TxExcludesLock
  <1>1. LockInv => TxExcludesLock
    BY DEF LockInv
  <1> QED BY LockInvInit, LockInvNext, <1>1, PTL DEF LockSpec

-----------------------------------------------------------------------------
(* Stacks of jobs *)

\* Jobs are pushed onto a stack one by one
LEMMA Pushed ==
    ASSUME NEW S, NEW q \in Seq(S), NEW x
    PROVE  /\ Cons(x, q) # << >> /\ Head(Cons(x, q)) = x /\ Tail(Cons(x, q)) = q
           /\ \E T : Cons(x, q) \in Seq(T)
           /\ << >> \o q = q /\ <<x>> \o q = Cons(x, q)
  <1> DEFINE T == S \cup {x}
  <1>1. q \in Seq(T) /\ x \in T
    OBVIOUS
  <1> HIDE DEF T
  <1>2. Cons(x, q) = <<x>> \o q
    BY DEF Cons
  <1>3. <<x>> \o q \in Seq(T) /\ <<x>> \o q # << >>
    BY <1>1
  <1>4. Head(<<x>> \o q) = x
    BY <1>1
  <1>5. Tail(<<x>> \o q) = q
    BY <1>1
  <1>6. << >> \o q = q
    BY <1>1
  <1> QED BY <1>2, <1>3, <1>4, <1>5, <1>6

\* Short stacks
LEMMA ShortStacks ==
    ASSUME NEW x, NEW y
    PROVE  /\ <<x>> = Cons(x, << >>) /\ <<x, y>> = Cons(x, <<y>>)
           /\ \E S : << >> \in Seq(S) /\ <<y>> \in Seq(S)
  <1> DEFINE T == {x, y}
             p == <<x>> \o <<y>>
  <1>1. << >> \in Seq(T) /\ <<x>> \in Seq(T) /\ <<y>> \in Seq(T) /\ <<x, y>> \in Seq(T)
    OBVIOUS
  <1> HIDE DEF T
  <1>2. <<x>> \o << >> = <<x>>
    BY <1>1, ConcatEmptySeq
  <1>3. p \in Seq(T) /\ Len(p) = 2 /\ p[1] = x /\ p[2] = y
    BY <1>1
  <1>4. Len(<<x, y>>) = 2 /\ <<x, y>>[1] = x /\ <<x, y>>[2] = y
    OBVIOUS
  <1> HIDE DEF p
  <1>5. <<x, y>> = p
    <2>1. \A i \in 1 .. 2 : i = 1 \/ i = 2
      OBVIOUS
    <2> QED BY <1>1, <1>3, <1>4, <2>1, SeqEqual
  <1> QED BY <1>1, <1>2, <1>5 DEF Cons, p

LEMMA PushedTwo ==
    ASSUME NEW S, NEW q \in Seq(S), NEW x, NEW y
    PROVE  <<x, y>> \o q = Cons(x, Cons(y, q))
  <1> DEFINE T == S \cup {x, y}
  <1>1. q \in Seq(T) /\ <<x>> \in Seq(T) /\ <<y>> \in Seq(T)
    OBVIOUS
  <1> HIDE DEF T
  <1>2. <<x, y>> = <<x>> \o <<y>>
    BY ShortStacks DEF Cons
  <1>3. (<<x>> \o <<y>>) \o q = <<x>> \o (<<y>> \o q)
    BY <1>1, ConcatAssociative
  <1> QED BY <1>2, <1>3 DEF Cons

\* What may be left of a call: the ways to prove it, and to use it
LEMMA IsRest ==
    ASSUME NEW s, NEW D, NEW i \in 1 .. Len(s.slotframe_list)
    PROVE  LET h == s.slotframe_list[i].handle
           IN  /\ << >> \in Rests(s, D) /\ <<RmAll>> \in Rests(s, D)
               /\ <<RmSf(h)>> \in Rests(s, D) /\ <<RmSf(h), RmAll>> \in Rests(s, D)
               /\ \A kind \in LinkKinds, t \in Vacant(s, i, D) : <<NewLink(h, kind, t)>> \in Rests(s, D)
  <1> DEFINE h == s.slotframe_list[i].handle
  <1>1. RestsOf(s, i, D) \subseteq Rests(s, D)
    BY DEF Rests
  <1>2. <<RmSf(h)>> \in RestsOf(s, i, D) /\ <<RmSf(h), RmAll>> \in RestsOf(s, i, D)
    BY DEF RestsOf
  <1>3. ASSUME NEW kind \in LinkKinds, NEW t \in Vacant(s, i, D)
        PROVE  <<NewLink(h, kind, t)>> \in RestsOf(s, i, D)
    <2> HIDE DEF h
    <2>1. <<NewLink(h, kind, t)>> \in UNION {{<<NewLink(h, k, u)>> : k \in LinkKinds} : u \in Vacant(s, i, D)}
      OBVIOUS
    <2> QED BY <2>1 DEF RestsOf, h
  <1>4. << >> \in Rests(s, D) /\ <<RmAll>> \in Rests(s, D)
    BY DEF Rests
  <1> QED BY <1>1, <1>2, <1>3, <1>4

LEMMA RestCases ==
    ASSUME NEW s, NEW D, NEW q \in Rests(s, D), NEW P,
           q \in {<< >>, <<RmAll>>} => P,
           \A i \in 1 .. Len(s.slotframe_list) :
               q \in {<<RmSf(s.slotframe_list[i].handle)>>,
                      <<RmSf(s.slotframe_list[i].handle), RmAll>>} => P,
           \A i \in 1 .. Len(s.slotframe_list) : \A kind \in LinkKinds, t \in Vacant(s, i, D) :
               q = <<NewLink(s.slotframe_list[i].handle, kind, t)>> => P
    PROVE  P
  BY DEF Rests, RestsOf

\* What is left of a call is a stack
LEMMA RestIsStack ==
    ASSUME NEW s, NEW D, NEW q \in Rests(s, D)
    PROVE  \E S : q \in Seq(S)
  <1>1. CASE q \in {<< >>, <<RmAll>>}
    BY <1>1, ShortStacks
  <1>2. ASSUME NEW i \in 1 .. Len(s.slotframe_list),
               q \in {<<RmSf(s.slotframe_list[i].handle)>>, <<RmSf(s.slotframe_list[i].handle), RmAll>>}
        PROVE  \E S : q \in Seq(S)
    <2> DEFINE x == RmSf(s.slotframe_list[i].handle)
    <2>1. \E S : << >> \in Seq(S) /\ <<RmAll>> \in Seq(S)
      BY ShortStacks
    <2>2. <<x>> = Cons(x, << >>) /\ <<x, RmAll>> = Cons(x, <<RmAll>>)
      BY ShortStacks
    <2> HIDE DEF x
    <2>3. (\E T : Cons(x, << >>) \in Seq(T)) /\ (\E T : Cons(x, <<RmAll>>) \in Seq(T))
      BY <2>1, Pushed
    <2> QED BY <1>2, <2>2, <2>3 DEF x
  <1>3. ASSUME NEW x, q = <<x>> PROVE \E S : q \in Seq(S)
    BY <1>3, ShortStacks
  <1> QED BY <1>1, <1>2, <1>3 DEF Rests, RestsOf

\* It depends on the lists and the pool only
LEMMA SameRests ==
    ASSUME NEW r, NEW s, SameLists(r, s), NEW D
    PROVE  Rests(r, D) = Rests(s, D)
  BY DEF SameLists, Rests, RestsOf, Vacant

\* Once the link c is freed it is not in the way any more
LEMMA RestsAfterFree ==
    ASSUME NEW s, Sound(s), NEW c, NEW i, NEW k, At(s, c, i, k)
    PROVE  Rests(s, {c}) \subseteq Rests(FreeLink(s, c), {})
  <1> DEFINE f == FreeLink(s, c)
             sfl == s.slotframe_list
  <1>1. LinkFreed(f, s, c, i, k) /\ f \in Schedules /\ s \in Schedules
    BY FreeLinkFields DEF Sound
  <1>2. Scheduled(f) = Scheduled(s) \ {c}
    BY FreeLinkSound
  <1> HIDE DEF f
  <1>3. Len(f.slotframe_list) = Len(sfl)
        /\ \A j \in 1 .. Len(sfl) : f.slotframe_list[j].handle = sfl[j].handle
    BY <1>1 DEF LinkFreed
  <1>4. ASSUME NEW j \in 1 .. Len(sfl), NEW t \in Vacant(s, j, {c})
        PROVE  t \in Vacant(f, j, {})
    <2> DEFINE p == f.slotframe_list[j].links_list
               q == sfl[j].links_list
    <2>1. f.slotframe_list[j].size = sfl[j].size
      BY <1>1 DEF LinkFreed
    <2>2. /\ t \in 0 .. sfl[j].size - 1
          /\ \A m \in 1 .. Len(q) : q[m] = c \/ s.link_memb[q[m]].timeslot # t
      BY DEF Vacant
    <2>3. q \in Seq(Cells) /\ Len(q) \in Nat /\ p \in Seq(Cells) /\ Len(p) \in Nat
      BY <1>1, <1>3, ScheduleFields
    <2>4. ASSUME NEW m \in 1 .. Len(p) PROVE \E n \in 1 .. Len(q) : q[n] = p[m]
      <3>1. CASE j # i
        BY <1>1, <3>1 DEF LinkFreed
      <3>2. CASE j = i
        <4>1. p = RemoveAt(q, k) /\ k \in 1 .. Len(q)
          BY <1>1, <3>2 DEF LinkFreed, At
        <4> HIDE DEF p, q
        <4>2. Len(p) = Len(q) - 1
              /\ \A n \in 1 .. Len(q) - 1 : p[n] = IF n < k THEN q[n] ELSE q[n + 1]
          BY <2>3, <4>1, Removed
        <4>3. CASE m < k
          BY <2>3, <2>4, <4>2, <4>3
        <4>4. CASE ~(m < k)
          BY <2>3, <2>4, <4>2, <4>4
        <4> QED BY <4>3, <4>4
      <3> QED BY <3>1, <3>2
    <2>5. ASSUME NEW m \in 1 .. Len(p) PROVE f.link_memb[p[m]].timeslot # t
      <3>1. At(f, p[m], j, m)
        BY <1>3 DEF At
      <3>2. p[m] \in Scheduled(f)
        BY <1>1, <3>1, HasPlace
      <3>3. p[m] # c /\ p[m] \in Cells
        BY <1>2, <2>3, <3>2
      <3>4. f.link_memb[p[m]].timeslot = s.link_memb[p[m]].timeslot
        BY <1>1, <3>3 DEF LinkFreed
      <3> HIDE DEF p, q
      <3> QED BY <2>2, <2>4, <3>3, <3>4
    <2> QED BY <2>1, <2>2, <2>5 DEF Vacant
  <1> SUFFICES ASSUME NEW q \in Rests(s, {c}) PROVE q \in Rests(f, {})
    BY DEF f
  <1>5. CASE q \in {<< >>, <<RmAll>>}
    BY <1>5 DEF Rests
  <1>6. ASSUME NEW j \in 1 .. Len(sfl),
               q \in {<<RmSf(sfl[j].handle)>>, <<RmSf(sfl[j].handle), RmAll>>}
        PROVE  q \in Rests(f, {})
    BY <1>3, <1>6, IsRest
  <1>7. ASSUME NEW j \in 1 .. Len(sfl), NEW kind \in LinkKinds, NEW t \in Vacant(s, j, {c}),
               q = <<NewLink(sfl[j].handle, kind, t)>>
        PROVE  q \in Rests(f, {})
    <2>1. t \in Vacant(f, j, {}) /\ j \in 1 .. Len(f.slotframe_list)
      BY <1>3, <1>4
    <2>2. q = <<NewLink(f.slotframe_list[j].handle, kind, t)>>
      BY <1>3, <1>7
    <2> QED BY <2>1, <2>2, IsRest
  <1> QED BY <1>5, <1>6, <1>7, RestCases

-----------------------------------------------------------------------------
(* The next link *)

\* What the search for the next link returns is in the schedule or NULL
LEMMA NextActiveTyped ==
    ASSUME NEW s, Sound(s), NEW now \in Nat
    PROVE  LET next == tsch_schedule_get_next_active_link(s, now)
           IN  /\ next.best \in Scheduled(s) \cup {NoLink} /\ next.backup \in Scheduled(s) \cup {NoLink}
               /\ next.best # NoLink => next.time \in Nat
  <1> DEFINE next == tsch_schedule_get_next_active_link(s, now)
  <1>1. FoundIn(s, now, Scheduled(s), next)
    BY NextActiveFound
  <1> HIDE DEF next
  <1>2. CASE Scheduled(s) = {}
    BY <1>1, <1>2 DEF FoundIn, next
  <1>3. CASE Scheduled(s) # {}
    <2>1. RightFor(s, now, Scheduled(s), next)
      BY <1>1, <1>3 DEF FoundIn
    <2>2. next.best \in Scheduled(s) /\ next.time = TimeToTimeslot(s, next.best, now)
          /\ next.backup \in Scheduled(s) \cup {NoLink}
      BY <2>1 DEF RightFor
    <2>3. PICK i, k : At(s, next.best, i, k)
      BY <2>2, HasPlace DEF Sound
    <2>4. s.slotframe_list[i].size \in Nat
          /\ TimeToTimeslot(s, next.best, now) \in 1 .. s.slotframe_list[i].size
      BY <2>3, TimeOfLink
    <2> QED BY <2>2, <2>4 DEF next
  <1> QED BY <1>2, <1>3

\* A turn of the loop at the end of a slot
LEMMA NextLinkChosen ==
    ASSUME Sound(schedule), PointersOK, burst_link_scheduled \in BOOLEAN, tsch_locked \in BOOLEAN,
           NextLink, schedule' = schedule
    PROVE  PointersOK'
  <1> DEFINE next == IF tsch_locked THEN [time |-> 0, best |-> NoLink, backup |-> NoLink]
                     ELSE tsch_schedule_get_next_active_link(schedule, asn)
             diff == IF burst_link_scheduled \/ next.best = NoLink THEN 1 ELSE next.time
  <1>1. asn \in Nat /\ AsnPeriod \in Nat \ {0} /\ TSCH_BURST_MAX_LEN \in Nat
    BY SlotAssumption DEF PointersOK
  <1>2. Scheduled(schedule) \subseteq Cells
    BY ScheduledIn DEF Sound
  <1>3. /\ next.best \in Scheduled(schedule) \cup {NoLink}
        /\ next.backup \in Scheduled(schedule) \cup {NoLink}
        /\ next.best # NoLink => next.time \in Nat
    <2>1. CASE tsch_locked
      BY <2>1
    <2>2. CASE ~tsch_locked
      BY <1>1, <2>2, NextActiveTyped
    <2> QED BY <2>1, <2>2
  <1>4. /\ asn' = AsnAfter(diff)
        /\ backup_link' = IF burst_link_scheduled THEN NoLink ELSE next.backup
        /\ IF burst_link_scheduled
           THEN /\ tsch_current_burst_count' = Min({tsch_current_burst_count + 1,
                                                    TSCH_BURST_MAX_LEN})
                /\ UNCHANGED <<current_link, viaBackup>>
           ELSE /\ tsch_current_burst_count' = IF next.best = NoLink
                                               THEN tsch_current_burst_count ELSE 0
                /\ current_link' = next.best
                /\ viaBackup' = FALSE
    BY DEF NextLink
  <1> HIDE DEF next
  <1>5. diff \in Nat
    BY <1>3
  <1> HIDE DEF diff
  <1>6. asn' \in 0 .. AsnPeriod - 1
    BY <1>1, <1>4, <1>5 DEF AsnAfter
  <1>7. backup_link' \in Cells \cup {NoLink}
    BY <1>2, <1>3, <1>4
  <1>8. tsch_current_burst_count' \in 0 .. TSCH_BURST_MAX_LEN
    <2> DEFINE I == {tsch_current_burst_count + 1, TSCH_BURST_MAX_LEN}
    <2>1. CASE burst_link_scheduled
      <3>1. I \in SUBSET Nat /\ I # {} /\ TSCH_BURST_MAX_LEN \in I
        BY <1>1 DEF PointersOK
      <3>2. tsch_current_burst_count' = Min(I)
        BY <1>4, <2>1
      <3> HIDE DEF I
      <3>3. Min(I) \in I /\ Min(I) <= TSCH_BURST_MAX_LEN
        BY <3>1, LeastNumber
      <3>4. Min(I) \in Nat
        BY <3>1, <3>3
      <3> QED BY <1>1, <3>2, <3>3, <3>4
    <2>2. CASE ~burst_link_scheduled
      BY <1>1, <1>4, <2>2 DEF PointersOK
    <2> QED BY <2>1, <2>2
  <1>9. /\ current_link' \in Cells \cup {NoLink} /\ viaBackup' \in BOOLEAN
        /\ CurrentLinkScheduled'
    <2>1. CASE burst_link_scheduled
      BY <1>4, <2>1 DEF PointersOK, CurrentLinkScheduled
    <2>2. CASE ~burst_link_scheduled
      BY <1>2, <1>3, <1>4, <2>2 DEF CurrentLinkScheduled
    <2> QED BY <2>1, <2>2
  <1> QED BY <1>6, <1>7, <1>8, <1>9 DEF PointersOK

-----------------------------------------------------------------------------
(* The steps without the lock *)

\* What the loop tests and the search for a link expand to
LEMMA Expanded ==
    ASSUME NEW h, NEW t
    PROVE  /\ Expand(RmAll) = IF schedule.slotframe_list = << >> THEN << >>
                              ELSE <<RmSf(schedule.slotframe_list[1].handle), RmAll>>
           /\ Expand(RmSf(h)) = IF Slotframe(schedule, h).links_list = << >> THEN <<FreeSf(h)>>
                                ELSE <<RmLink(Slotframe(schedule, h).links_list[1]), RmSf(h)>>
           /\ Expand(RmTimeslot(h, t)) =
                 IF tsch_schedule_get_link_by_timeslot(schedule, h, t) = NoLink THEN << >>
                 ELSE <<RmLink(tsch_schedule_get_link_by_timeslot(schedule, h, t))>>
  <1>1. Expand(RmAll) = IF schedule.slotframe_list = << >> THEN << >>
                        ELSE <<RmSf(schedule.slotframe_list[1].handle), RmAll>>
    BY DEF Expand, RmAll
  <1>2. Expand(RmSf(h)) = IF Slotframe(schedule, h).links_list = << >> THEN <<FreeSf(h)>>
                          ELSE <<RmLink(Slotframe(schedule, h).links_list[1]), RmSf(h)>>
    BY DEF Expand, RmSf
  <1>3. Expand(RmTimeslot(h, t)) =
                 IF tsch_schedule_get_link_by_timeslot(schedule, h, t) = NoLink THEN << >>
                 ELSE <<RmLink(tsch_schedule_get_link_by_timeslot(schedule, h, t))>>
    BY DEF Expand, RmTimeslot
  <1> QED BY <1>1, <1>2, <1>3

\* Which jobs need the lock, and what is to be done for the others
LEMMA Expansions ==
    ASSUME NEW h, NEW n, NEW t, NEW k, NEW c, NEW a, NEW o, NEW d
    PROVE  /\ Expand(Nbr(a)) = << >> /\ Expand(Count(a, o, d)) = << >>
           /\ NeedsLock(FreeSf(h)) /\ NeedsLock(AddSf(h, n)) /\ NeedsLock(RmLink(c))
           /\ NeedsLock(NewLink(h, k, t)) /\ NeedsLock(FreeUnused(a))
           /\ ~NeedsLock(RmAll) /\ ~NeedsLock(RmSf(h)) /\ ~NeedsLock(RmTimeslot(h, t))
           /\ ~NeedsLock(Count(a, o, d))
           /\ NeedsLock(Nbr(a)) => ~schedule.nbr[a].present
           /\ ~NeedsLock(Nbr(a)) => schedule.nbr[a].present
           /\ RmAll.op # "count" /\ RmSf(h).op # "count" /\ RmTimeslot(h, t).op # "count"
           /\ Nbr(a).op # "count"
           /\ Count(a, o, d).op = "count" /\ Count(a, o, d).addr = a /\ Count(a, o, d).opts = o
           /\ Count(a, o, d).delta = d
  <1>1. Expand(Nbr(a)) = << >>
    BY DEF Expand, Nbr
  <1>2. Expand(Count(a, o, d)) = << >>
    BY DEF Expand, Count
  <1>3. /\ NeedsLock(FreeSf(h)) /\ NeedsLock(AddSf(h, n)) /\ NeedsLock(RmLink(c))
        /\ NeedsLock(NewLink(h, k, t)) /\ NeedsLock(FreeUnused(a))
    BY DEF NeedsLock, LockedOps, FreeSf, AddSf, RmLink, NewLink, FreeUnused
  <1>4. /\ ~NeedsLock(RmAll) /\ ~NeedsLock(RmSf(h)) /\ ~NeedsLock(RmTimeslot(h, t))
        /\ ~NeedsLock(Count(a, o, d))
    BY DEF NeedsLock, LockedOps, RmAll, RmSf, RmTimeslot, Count
  <1>5. /\ NeedsLock(Nbr(a)) => ~schedule.nbr[a].present
        /\ ~NeedsLock(Nbr(a)) => schedule.nbr[a].present
    BY DEF NeedsLock, LockedOps, Nbr
  <1>6. /\ RmAll.op # "count" /\ RmSf(h).op # "count" /\ RmTimeslot(h, t).op # "count"
        /\ Nbr(a).op # "count"
        /\ Count(a, o, d).op = "count" /\ Count(a, o, d).addr = a /\ Count(a, o, d).opts = o
        /\ Count(a, o, d).delta = d
    BY DEF RmAll, RmSf, RmTimeslot, Nbr, Count
  <1> QED BY <1>1, <1>2, <1>3, <1>4, <1>5, <1>6

\* The first job is taken from the stack and taken apart
LEMMA FirstJob ==
    ASSUME RunUnlocked, NEW S, NEW q \in Seq(S), NEW x, todo = Cons(x, q)
    PROVE  /\ ~NeedsLock(x) /\ todo' = Expand(x) \o q
           /\ x.op # "count" => schedule' = schedule
           /\ x.op = "count" => schedule' = UpdateCounts(schedule, x.addr, x.opts, x.delta)
  <1>1. Head(todo) = x /\ Tail(todo) = q
    BY Pushed
  <1> QED BY <1>1 DEF RunUnlocked

\* tsch_schedule_remove_all_slotframes looks at the list of slotframes
LEMMA RmAllStep ==
    ASSUME Sound(schedule), InStep(schedule), RunUnlocked, todo = <<RmAll>>
    PROVE  schedule' = schedule /\ Resting(schedule, todo')
  <1> DEFINE sfl == schedule.slotframe_list
             x == RmSf(sfl[1].handle)
  <1>1. PICK S : << >> \in Seq(S) /\ <<RmAll>> \in Seq(S)
    BY ShortStacks
  <1>2. todo = Cons(RmAll, << >>)
    BY ShortStacks
  <1>3. todo' = Expand(RmAll) \o << >> /\ schedule' = schedule
    <2>1. RmAll.op # "count"
      BY DEF RmAll
    <2> QED BY <1>1, <1>2, <2>1, FirstJob
  <1>4. CASE sfl = << >>
    <2>1. todo' = << >>
      <3>1. Expand(RmAll) = << >>
        BY <1>4, Expanded
      <3> QED BY <1>1, <1>3, <3>1, Pushed
    <2> QED BY <1>3, <2>1 DEF Resting, Rests
  <1>5. CASE sfl # << >>
    <2>1. 1 \in 1 .. Len(sfl)
      BY <1>5, ScheduleFields DEF Sound
    <2>2. todo' = <<x, RmAll>> \o << >>
      BY <1>3, <1>5, Expanded
    <2>3. todo' = Cons(x, Cons(RmAll, << >>))
      BY <1>1, <2>2, PushedTwo
    <2>4. todo' = <<x, RmAll>>
      BY <1>2, <2>3, ShortStacks
    <2> QED BY <1>3, <2>1, <2>4, IsRest DEF Resting
  <1> QED BY <1>4, <1>5

\* tsch_schedule_remove_slotframe looks at the list of links
LEMMA RmSfStep ==
    ASSUME Sound(schedule), RunUnlocked, NEW i \in 1 .. Len(schedule.slotframe_list),
           NEW r \in {<< >>, <<RmAll>>},
           todo = Cons(RmSf(schedule.slotframe_list[i].handle), r)
    PROVE  schedule' = schedule /\ Chosen(schedule, todo')
  <1> DEFINE sfl == schedule.slotframe_list
             h == sfl[i].handle
             links == sfl[i].links_list
  <1>1. PICK S : r \in Seq(S)
    BY ShortStacks
  <1>2. todo' = Expand(RmSf(h)) \o r /\ schedule' = schedule
    <2> DEFINE x == RmSf(h)
    <2>1. x.op # "count"
      BY DEF RmSf
    <2> HIDE DEF x
    <2> QED BY <1>1, <2>1, FirstJob DEF x
  <1>3. Slotframe(schedule, h) = sfl[i] /\ links \in Seq(Cells) /\ Len(links) \in Nat
    BY PositionOf, ScheduleFields DEF Sound
  <1>4. CASE links = << >>
    <2>1. todo' = Cons(FreeSf(h), r)
      <3>1. Expand(RmSf(h)) = <<FreeSf(h)>>
        BY <1>3, <1>4, Expanded
      <3> QED BY <1>1, <1>2, <3>1, Pushed
    <2>2. Len(links) = 0
      BY <1>4
    <2> QED BY <1>2, <2>1, <2>2 DEF Chosen
  <1>5. CASE links # << >>
    <2> DEFINE c == links[1]
    <2>1. At(schedule, c, i, 1)
      BY <1>3, <1>5 DEF At
    <2>2. c \in Scheduled(schedule)
      BY <2>1, HasPlace DEF Sound
    <2>3. todo' = Cons(RmLink(c), Cons(RmSf(h), r))
      <3>1. Expand(RmSf(h)) = <<RmLink(c), RmSf(h)>>
        BY <1>3, <1>5, Expanded
      <3> QED BY <1>1, <1>2, <3>1, PushedTwo
    <2>4. Cons(RmSf(h), r) \in {<<RmSf(h)>>, <<RmSf(h), RmAll>>}
      BY ShortStacks
    <2> HIDE DEF c, h
    <2>5. Cons(RmSf(h), r) \in Rests(schedule, {c})
      BY <2>4, IsRest DEF h
    <2> QED BY <1>2, <2>2, <2>3, <2>5 DEF Chosen
  <1> QED BY <1>4, <1>5

\* tsch_schedule_add_link looks for a link at the timeslot
LEMMA RmTimeslotStep ==
    ASSUME Sound(schedule), InStep(schedule), RunUnlocked,
           NEW i \in 1 .. Len(schedule.slotframe_list),
           NEW kind \in LinkKinds, NEW t \in 0 .. schedule.slotframe_list[i].size - 1,
           todo = <<RmTimeslot(schedule.slotframe_list[i].handle, t),
                    NewLink(schedule.slotframe_list[i].handle, kind, t)>>
    PROVE  schedule' = schedule /\ Unlocked(schedule, todo')
  <1> DEFINE sfl == schedule.slotframe_list
             h == sfl[i].handle
             links == sfl[i].links_list
             x == NewLink(h, kind, t)
             c == tsch_schedule_get_link_by_timeslot(schedule, h, t)
  <1>1. PICK S : <<x>> \in Seq(S)
    BY ShortStacks
  <1>2. todo = Cons(RmTimeslot(h, t), <<x>>)
    BY ShortStacks
  <1>3. todo' = Expand(RmTimeslot(h, t)) \o <<x>> /\ schedule' = schedule
    <2> DEFINE y == RmTimeslot(h, t)
    <2>1. y.op # "count"
      BY DEF RmTimeslot
    <2> HIDE DEF x, y
    <2> QED BY <1>1, <1>2, <2>1, FirstJob DEF y
  <1>4. /\ c = NoLink => \A m \in 1 .. Len(links) : schedule.link_memb[links[m]].timeslot # t
        /\ c # NoLink => \E k : At(schedule, c, i, k)
        /\ c # NoLink => schedule.link_memb[c].timeslot = t
    <2>1. HandleAt(schedule, h, i)
      BY DEF HandleAt
    <2> QED BY <2>1, LinkAtTimeslot
  <1>5. CASE c = NoLink
    <2>1. todo' = <<x>>
      <3>1. Expand(RmTimeslot(h, t)) = << >>
        BY <1>5, Expanded
      <3> HIDE DEF x
      <3> QED BY <1>1, <1>3, <3>1, Pushed
    <2>2. t \in Vacant(schedule, i, {})
      BY <1>4, <1>5 DEF Vacant
    <2>3. <<x>> \in Rests(schedule, {})
      BY <2>2, IsRest
    <2> QED BY <1>3, <2>1, <2>3 DEF Unlocked, Resting
  <1>6. CASE c # NoLink
    <2>1. todo' = Cons(RmLink(c), <<x>>)
      <3>1. Expand(RmTimeslot(h, t)) = <<RmLink(c)>>
        BY <1>6, Expanded
      <3> HIDE DEF x, c
      <3> QED BY <1>1, <1>3, <3>1, Pushed
    <2> HIDE DEF c
    <2>2. PICK k : At(schedule, c, i, k)
      BY <1>4, <1>6
    <2>3. c \in Scheduled(schedule)
      BY <2>2, HasPlace DEF Sound
    <2>4. \A m \in 1 .. Len(links) : schedule.link_memb[links[m]].timeslot = t => m = k
      <3>1. k \in 1 .. Len(links) /\ links[k] = c
        BY <2>2 DEF At
      <3>2. FrameWellFormed(sfl[i], schedule.link_memb)
        BY DEF Sound, WellFormed
      <3> QED BY <1>4, <1>6, <3>1, <3>2 DEF FrameWellFormed
    <2>5. t \in Vacant(schedule, i, {c})
      BY <2>2, <2>4 DEF Vacant, At
    <2>6. <<x>> \in Rests(schedule, {c})
      BY <2>5, IsRest
    <2> HIDE DEF x
    <2>7. Chosen(schedule, todo')
      BY <2>1, <2>3, <2>6 DEF Chosen
    <2> QED BY <1>3, <2>7 DEF Unlocked
  <1> QED BY <1>5, <1>6

\* tsch_queue_add_nbr finds the neighbor
LEMMA NbrFoundStep ==
    ASSUME RunUnlocked, NEW a, NEW S, NEW q \in Seq(S), todo = Cons(Nbr(a), q)
    PROVE  schedule' = schedule /\ todo' = q /\ schedule.nbr[a].present
  <1> DEFINE x == Nbr(a)
  <1>1. x.op # "count"
    BY DEF Nbr
  <1>2. Expand(x) = << >> /\ (~NeedsLock(x) => schedule.nbr[a].present)
    BY Expansions
  <1> HIDE DEF x
  <1>3. ~NeedsLock(x) /\ todo' = Expand(x) \o q /\ schedule' = schedule
    BY <1>1, FirstJob DEF x
  <1> QED BY <1>2, <1>3, Pushed

\* The counters of a neighbor are updated
LEMMA CountStep ==
    ASSUME Sound(schedule), RunUnlocked, NEW a \in Addrs, NEW o, "tx" \in o, NEW d \in {1, -1},
           NEW r \in Rests(schedule, {}), todo = Cons(Count(a, o, d), r),
           RoomForAll => CountsOwing(schedule, a, o, d) /\ schedule.nbr[a].present
    PROVE  /\ Sound(schedule') /\ Scheduled(schedule') = Scheduled(schedule)
           /\ Resting(schedule', todo')
  <1> DEFINE x == Count(a, o, d)
             n == UpdateCounts(schedule, a, o, d)
  <1>1. PICK S : r \in Seq(S)
    BY RestIsStack
  <1>2. x.op = "count" /\ x.addr = a /\ x.opts = o /\ x.delta = d
    BY DEF Count
  <1>3. Expand(x) = << >>
    BY Expansions
  <1> HIDE DEF x
  <1>4. todo' = Expand(x) \o r /\ schedule' = n
    BY <1>1, <1>2, FirstJob DEF x
  <1>5. todo' = r
    BY <1>1, <1>3, <1>4, Pushed
  <1>6. Sound(n) /\ SameLists(n, schedule) /\ Scheduled(n) = Scheduled(schedule)
    BY CountsUpdated
  <1>7. InStep(n)
    BY CountsSettled DEF InStep, RoomForAll
  <1> HIDE DEF n
  <1>8. r \in Rests(n, {})
    BY <1>6, SameRests
  <1> QED BY <1>4, <1>5, <1>6, <1>7, <1>8 DEF Resting

\* A step without the lock leaves the lists alone and the rest of the call
\* such that it can be done
LEMMA UnlockedStep ==
    ASSUME Sound(schedule), Unlocked(schedule, todo), RunUnlocked
    PROVE  /\ Sound(schedule') /\ Scheduled(schedule') = Scheduled(schedule)
           /\ Unlocked(schedule', todo')
  <1> DEFINE sfl == schedule.slotframe_list
             Good == /\ Sound(schedule') /\ Scheduled(schedule') = Scheduled(schedule)
                     /\ Unlocked(schedule', todo')
  <1>0. todo # << >>
    BY DEF RunUnlocked
  <1>1. ASSUME NEW x, NEW S, NEW q \in Seq(S), todo = Cons(x, q), NeedsLock(x) PROVE FALSE
    BY <1>1, FirstJob
  <1>2. ASSUME InStep(schedule), todo \in Rests(schedule, {}) PROVE Good
    <2>1. CASE todo \in {<< >>, <<RmAll>>}
      BY <1>0, <1>2, <2>1, RmAllStep DEF Unlocked
    <2>2. ASSUME NEW i \in 1 .. Len(sfl),
                 todo \in {<<RmSf(sfl[i].handle)>>, <<RmSf(sfl[i].handle), RmAll>>}
          PROVE  Good
      <3> DEFINE x == RmSf(sfl[i].handle)
      <3>1. <<x>> = Cons(x, << >>) /\ <<x, RmAll>> = Cons(x, <<RmAll>>)
        BY ShortStacks
      <3>2. schedule' = schedule /\ Chosen(schedule, todo')
        BY <2>2, <3>1, RmSfStep
      <3> QED BY <1>2, <3>2 DEF Unlocked
    <2>3. ASSUME NEW i \in 1 .. Len(sfl), NEW kind \in LinkKinds, NEW t \in Vacant(schedule, i, {}),
                 todo = <<NewLink(sfl[i].handle, kind, t)>>
          PROVE  Good
      <3> DEFINE x == NewLink(sfl[i].handle, kind, t)
      <3>1. todo = Cons(x, << >>) /\ \E S : << >> \in Seq(S)
        BY <2>3, ShortStacks
      <3>2. NeedsLock(x)
        BY Expansions
      <3> HIDE DEF x
      <3> QED BY <1>1, <3>1, <3>2
    <2> HIDE DEF Good
    <2> QED BY <1>2, <2>1, <2>2, <2>3, RestCases
  <1>3. ASSUME NEW a \in Addrs, NEW o \in Options, NEW d \in {1, -1}, NEW r \in Rests(schedule, {}),
               "tx" \in o, RoomForAll => CountsOwing(schedule, a, o, d),
               todo = Cons(Nbr(a), Cons(Count(a, o, d), r))
        PROVE  Good
    <2> DEFINE q == Cons(Count(a, o, d), r)
    <2>1. PICK S : q \in Seq(S)
      BY RestIsStack, Pushed
    <2>2. schedule' = schedule /\ todo' = q /\ schedule.nbr[a].present
      <3> HIDE DEF q
      <3> QED BY <1>3, <2>1, NbrFoundStep DEF q
    <2>3. Settling(schedule, q)
      BY <1>3, <2>2 DEF Settling
    <2> QED BY <2>2, <2>3 DEF Unlocked
  <1>4. ASSUME NEW a \in Addrs, NEW o \in Options, NEW d \in {1, -1}, NEW r \in Rests(schedule, {}),
               "tx" \in o, RoomForAll => CountsOwing(schedule, a, o, d),
               todo = Cons(Count(a, o, d), r), RoomForAll => schedule.nbr[a].present
        PROVE  Good
    BY <1>4, CountStep DEF Unlocked
  <1>5. ASSUME InStep(schedule), Chosen(schedule, todo) PROVE Good
    <2>1. ASSUME NEW i \in 1 .. Len(sfl), NEW r \in {<< >>, <<RmAll>>},
                 todo = Cons(FreeSf(sfl[i].handle), r)
          PROVE  FALSE
      <3> DEFINE x == FreeSf(sfl[i].handle)
      <3>1. NeedsLock(x)
        BY Expansions
      <3>2. \E S : r \in Seq(S)
        BY ShortStacks
      <3> HIDE DEF x
      <3> QED BY <1>1, <2>1, <3>1, <3>2 DEF x
    <2>2. ASSUME NEW x, todo = <<x>>, NeedsLock(x) PROVE FALSE
      <3>1. todo = Cons(x, << >>) /\ \E S : << >> \in Seq(S)
        BY <2>2, ShortStacks
      <3> QED BY <1>1, <2>2, <3>1
    <2>3. ASSUME NEW h, NEW n, todo = <<AddSf(h, n)>> PROVE FALSE
      <3>1. NeedsLock(AddSf(h, n))
        BY Expansions
      <3> QED BY <2>2, <2>3, <3>1
    <2>4. ASSUME NEW i \in 1 .. Len(sfl), NEW kind \in LinkKinds, NEW t \in 0 .. sfl[i].size - 1,
                 todo = <<RmTimeslot(sfl[i].handle, t), NewLink(sfl[i].handle, kind, t)>>
          PROVE  Good
      BY <1>5, <2>4, RmTimeslotStep
    <2>5. ASSUME NEW c, NEW r \in Rests(schedule, {c}), todo = Cons(RmLink(c), r) PROVE FALSE
      <3> DEFINE x == RmLink(c)
      <3>1. NeedsLock(x) /\ \E S : r \in Seq(S)
        BY Expansions, RestIsStack
      <3> HIDE DEF x
      <3> QED BY <1>1, <2>5, <3>1 DEF x
    <2>6. ASSUME NEW a \in Addrs, todo = <<Nbr(a)>> PROVE Good
      <3>1. todo = Cons(Nbr(a), << >>) /\ \E S : << >> \in Seq(S)
        BY <2>6, ShortStacks
      <3>2. schedule' = schedule /\ todo' = << >>
        BY <3>1, NbrFoundStep
      <3> QED BY <1>5, <3>2 DEF Unlocked, Resting, Rests
    <2>7. ASSUME NEW a, todo = <<FreeUnused(a)>> PROVE FALSE
      <3>1. NeedsLock(FreeUnused(a))
        BY Expansions
      <3> QED BY <2>2, <2>7, <3>1
    <2> HIDE DEF Good
    <2> QED BY <1>5, <2>1, <2>3, <2>4, <2>5, <2>6, <2>7 DEF Chosen
  <1> HIDE DEF Good
  <1>6. Good
    BY <1>2, <1>3, <1>4, <1>5 DEF Unlocked, Resting, Settling
  <1> QED BY <1>6 DEF Good

-----------------------------------------------------------------------------
(* The stretches with the lock *)

\* What the jobs do with the lock, and which need none
LEMMA LockedWork ==
    ASSUME NEW h, NEW n, NEW t, NEW k, NEW c, NEW a, NEW o, NEW d
    PROVE  /\ ScheduleAfter(FreeSf(h)) = FreeSlotframe(schedule, h)
           /\ ScheduleAfter(AddSf(h, n)) = AllocSlotframe(schedule, h, n)
           /\ ScheduleAfter(RmLink(c)) = FreeLink(schedule, c)
           /\ ScheduleAfter(NewLink(h, k, t)) = AllocLink(schedule, h, k, t)
           /\ ScheduleAfter(Nbr(a)) = tsch_queue_add_nbr(schedule, a)
           /\ ScheduleAfter(FreeUnused(a)) = FreeNbr(schedule, a)
           /\ JobsAfter(RmLink(c)) = <<Release>> \o CountJobs(schedule.link_memb[c], -1)
           /\ JobsAfter(NewLink(h, k, t)) = IF memb_alloc(schedule) # NoLink
                                            THEN <<Release>> \o CountJobs(k, 1) ELSE <<Release>>
           /\ CurrentAfter(RmLink(c)) = IF c = current_link THEN NoLink ELSE current_link
           /\ CurrentAfter(NewLink(h, k, t)) = current_link
           /\ \A x \in {RmAll, RmSf(h), RmTimeslot(h, t), Count(a, o, d), Release} : x.op \notin LockedOps
  <1> USE DEF FreeSf, AddSf, RmLink, NewLink, Nbr, FreeUnused
  <1>1. ScheduleAfter(FreeSf(h)) = FreeSlotframe(schedule, h)
    BY DEF ScheduleAfter
  <1>2. ScheduleAfter(AddSf(h, n)) = AllocSlotframe(schedule, h, n)
    BY DEF ScheduleAfter
  <1>3. ScheduleAfter(RmLink(c)) = FreeLink(schedule, c)
    BY DEF ScheduleAfter
  <1>4. ScheduleAfter(NewLink(h, k, t)) = AllocLink(schedule, h, k, t)
    BY DEF ScheduleAfter
  <1>5. ScheduleAfter(Nbr(a)) = tsch_queue_add_nbr(schedule, a)
    BY DEF ScheduleAfter
  <1>6. ScheduleAfter(FreeUnused(a)) = FreeNbr(schedule, a)
    BY DEF ScheduleAfter
  <1>7. JobsAfter(RmLink(c)) = <<Release>> \o CountJobs(schedule.link_memb[c], -1)
    BY DEF JobsAfter
  <1>8. JobsAfter(NewLink(h, k, t)) = IF memb_alloc(schedule) # NoLink
                                      THEN <<Release>> \o CountJobs(k, 1) ELSE <<Release>>
    <2>1. CASE memb_alloc(schedule) # NoLink
      BY <2>1 DEF JobsAfter
    <2>2. CASE memb_alloc(schedule) = NoLink
      BY <2>2 DEF JobsAfter
    <2> QED BY <2>1, <2>2
  <1>9. CurrentAfter(RmLink(c)) = IF c = current_link THEN NoLink ELSE current_link
    BY DEF CurrentAfter
  <1>10. CurrentAfter(NewLink(h, k, t)) = current_link
    BY DEF CurrentAfter
  <1>11. \A x \in {RmAll, RmSf(h), RmTimeslot(h, t), Count(a, o, d), Release} : x.op \notin LockedOps
    BY DEF LockedOps, RmAll, RmSf, RmTimeslot, Count, Release
  <1> QED BY <1>1, <1>2, <1>3, <1>4, <1>5, <1>6, <1>7, <1>8, <1>9, <1>10, <1>11

\* These jobs are followed by nothing but the release of the lock
PlainJobs(h, n, a) == {FreeSf(h), AddSf(h, n), Nbr(a), FreeUnused(a)}
LEMMA PlainJob ==
    ASSUME NEW h, NEW n, NEW a, NEW x \in PlainJobs(h, n, a)
    PROVE  JobsAfter(x) = <<Release>> /\ CurrentAfter(x) = current_link
  <1>1. x.op \in {"freesf", "addsf", "nbr", "freenbr"}
    BY DEF PlainJobs, FreeSf, AddSf, Nbr, FreeUnused
  <1> QED BY <1>1 DEF JobsAfter, CurrentAfter

\* The first job is done with the lock
LEMMA FirstLockedJob ==
    ASSUME RunLocked, NEW S, NEW q \in Seq(S), NEW x, todo = Cons(x, q)
    PROVE  /\ x.op \in LockedOps /\ todo' = JobsAfter(x) \o q
           /\ schedule' = ScheduleAfter(x) /\ current_link' = CurrentAfter(x)
  <1>1. Head(todo) = x /\ Tail(todo) = q
    BY Pushed
  <1> QED BY <1>1 DEF RunLocked

\* With the lock still to be released
LEMMA ReleaseFirst ==
    ASSUME NEW s, NEW S, NEW q \in Seq(S), Resting(s, q) \/ Settling(s, q)
    PROVE  Done(s, <<Release>> \o q)
  <1>1. <<Release>> \o q = Cons(Release, q)
    BY Pushed
  <1>2. Cons(Release, q) # << >> /\ Head(Cons(Release, q)) = Release /\ Tail(Cons(Release, q)) = q
    BY Pushed
  <1> QED BY <1>1, <1>2 DEF Done

\* A link with these options to this neighbor came or went
LEMMA ReleaseAndCount ==
    ASSUME NEW s, Sound(s), NEW r \in Rests(s, {}), NEW l, l.addr \in Addrs, l.link_options \in Options,
           NEW d \in {1, -1}, RoomForAll => CountsOwing(s, l.addr, l.link_options, d)
    PROVE  Done(s, (<<Release>> \o CountJobs(l, d)) \o r)
  <1> DEFINE x == Nbr(l.addr)
             y == Count(l.addr, l.link_options, d)
             q == Cons(x, Cons(y, r))
  <1>1. PICK S : r \in Seq(S)
    BY RestIsStack
  <1>2. CASE "tx" \in l.link_options
    <2>1. CountJobs(l, d) = <<x, y>>
      BY <1>2 DEF CountJobs
    <2>2. <<x, y>> \o r = q
      BY <1>1, PushedTwo
    <2>3. \E T : q \in Seq(T)
      <3> HIDE DEF x, y
      <3>1. \E T : Cons(y, r) \in Seq(T)
        BY <1>1, Pushed
      <3> QED BY <3>1, Pushed
    <2>4. (<<Release>> \o <<x, y>>) \o r = <<Release>> \o (<<x, y>> \o r)
      <3> DEFINE T == S \cup {Release, x, y}
      <3>1. <<Release>> \in Seq(T) /\ <<x, y>> \in Seq(T) /\ r \in Seq(T)
        BY <1>1
      <3> HIDE DEF T, x, y
      <3> QED BY <3>1, ConcatAssociative
    <2>5. Settling(s, q)
      BY <1>2 DEF Settling
    <2> HIDE DEF q, x, y
    <2> QED BY <2>1, <2>2, <2>3, <2>4, <2>5, ReleaseFirst
  <1>3. CASE "tx" \notin l.link_options
    <2>1. CountJobs(l, d) = << >> /\ <<Release>> \o << >> = <<Release>>
      BY <1>3, ShortStacks DEF CountJobs, Cons
    <2>2. InStep(s)
      BY <1>3, NothingOwed DEF InStep
    <2> QED BY <1>1, <2>1, <2>2, ReleaseFirst DEF Resting
  <1> QED BY <1>2, <1>3

\* What every stretch with the lock does: the schedule stays sound, the rest
\* of the call can be done, and the current link stays in it or is reset
Worked == /\ Sound(schedule') /\ Done(schedule', todo')
          /\ current_link' \in {current_link, NoLink}
          /\ current_link' # NoLink /\ current_link \in Scheduled(schedule)
                => current_link' \in Scheduled(schedule')

\* A job after which there is nothing to count
LEMMA PlainWork ==
    ASSUME RunLocked, NEW h, NEW n, NEW a, NEW x \in PlainJobs(h, n, a),
           NEW S, NEW q \in Seq(S), todo = Cons(x, q), Sound(ScheduleAfter(x)),
           Scheduled(schedule) \subseteq Scheduled(ScheduleAfter(x)),
           Resting(ScheduleAfter(x), q) \/ Settling(ScheduleAfter(x), q)
    PROVE  Worked
  <1>1. JobsAfter(x) = <<Release>> /\ CurrentAfter(x) = current_link
    BY PlainJob
  <1>2. todo' = <<Release>> \o q /\ schedule' = ScheduleAfter(x) /\ current_link' = current_link
    BY <1>1, FirstLockedJob
  <1>3. Done(ScheduleAfter(x), <<Release>> \o q)
    BY ReleaseFirst
  <1> QED BY <1>2, <1>3 DEF Worked

\* Slotframes without links do not matter for the counters
LEMMA SameLinksInStep ==
    ASSUME NEW r, NEW s, Scheduled(r) = Scheduled(s), r.link_memb = s.link_memb, r.nbr = s.nbr,
           InStep(s)
    PROVE  InStep(r)
  <1>1. \A a : TxLinks(r, a) = TxLinks(s, a) /\ DedicatedTxLinks(r, a) = DedicatedTxLinks(s, a)
    BY DEF TxLinks, DedicatedTxLinks, Opts
  <1> QED BY <1>1 DEF InStep, CountsAgree

\* memb_free of a slotframe
LEMMA FreeSfWork ==
    ASSUME Sound(schedule), InStep(schedule), RunLocked,
           NEW i \in 1 .. Len(schedule.slotframe_list), NEW r \in {<< >>, <<RmAll>>},
           Len(schedule.slotframe_list[i].links_list) = 0,
           todo = Cons(FreeSf(schedule.slotframe_list[i].handle), r)
    PROVE  Worked
  <1> DEFINE h == schedule.slotframe_list[i].handle
             x == FreeSf(h)
             f == FreeSlotframe(schedule, h)
  <1>1. Sound(f) /\ Scheduled(f) = Scheduled(schedule) /\ f.link_memb = schedule.link_memb
        /\ f.nbr = schedule.nbr
    BY SlotframeFreed
  <1>2. ScheduleAfter(x) = f
    BY LockedWork
  <1>3. PICK S : r \in Seq(S)
    BY ShortStacks
  <1> HIDE DEF f
  <1>4. Resting(f, r)
    <2>1. InStep(f)
      BY <1>1, SameLinksInStep
    <2> QED BY <2>1 DEF Resting, Rests
  <1>5. x \in PlainJobs(h, 0, 0)
    BY DEF PlainJobs
  <1> HIDE DEF x
  <1> QED BY <1>1, <1>2, <1>3, <1>4, <1>5, PlainWork DEF x

\* memb_alloc and list_add of a slotframe
LEMMA AddSfWork ==
    ASSUME Sound(schedule), InStep(schedule), RunLocked,
           NEW h \in Handles, NEW n \in Sizes \ {0}, ~HasSlotframe(schedule, h),
           todo = <<AddSf(h, n)>>
    PROVE  Worked
  <1> DEFINE x == AddSf(h, n)
             f == AllocSlotframe(schedule, h, n)
  <1>1. Sound(f) /\ Scheduled(f) = Scheduled(schedule) /\ f.link_memb = schedule.link_memb
        /\ f.nbr = schedule.nbr
    BY SlotframeAdded
  <1>2. ScheduleAfter(x) = f
    BY LockedWork
  <1>3. todo = Cons(x, << >>) /\ \E S : << >> \in Seq(S)
    BY ShortStacks
  <1> HIDE DEF f
  <1>4. Resting(f, << >>)
    <2>1. InStep(f)
      BY <1>1, SameLinksInStep
    <2> QED BY <2>1 DEF Resting, Rests
  <1>5. x \in PlainJobs(h, n, 0)
    BY DEF PlainJobs
  <1> HIDE DEF x
  <1> QED BY <1>1, <1>2, <1>3, <1>4, <1>5, PlainWork

\* A neighbor is allocated for a packet
LEMMA NbrWork ==
    ASSUME Sound(schedule), InStep(schedule), RunLocked, NEW a \in Addrs, todo = <<Nbr(a)>>
    PROVE  Worked
  <1> DEFINE x == Nbr(a)
             f == tsch_queue_add_nbr(schedule, a)
  <1>1. Sound(f) /\ Scheduled(f) = Scheduled(schedule)
    BY NbrAdded
  <1>2. ScheduleAfter(x) = f
    BY LockedWork
  <1>3. todo = Cons(x, << >>) /\ \E S : << >> \in Seq(S)
    BY ShortStacks
  <1>4. CountsOwing(schedule, a, {}, 0) => CountsOwing(f, a, {}, 0)
    BY NbrAddedOwing
  <1> HIDE DEF f
  <1>5. Resting(f, << >>)
    <2>1. CountsAgree(schedule) <=> CountsOwing(schedule, a, {}, 0)
      BY NothingOwed
    <2>2. CountsAgree(f) <=> CountsOwing(f, a, {}, 0)
      BY <1>1, NothingOwed
    <2> QED BY <1>4, <2>1, <2>2 DEF InStep, Resting, Rests
  <1>6. x \in PlainJobs(0, 0, a)
    BY DEF PlainJobs
  <1> HIDE DEF x
  <1> QED BY <1>1, <1>2, <1>3, <1>5, <1>6, PlainWork

\* The neighbor of a link is allocated before it is counted
LEMMA NbrOfLinkWork ==
    ASSUME Sound(schedule), RunLocked, NEW a \in Addrs, NEW o \in Options, NEW d \in {1, -1},
           NEW r \in Rests(schedule, {}), "tx" \in o, RoomForAll => CountsOwing(schedule, a, o, d),
           todo = Cons(Nbr(a), Cons(Count(a, o, d), r))
    PROVE  Worked
  <1> DEFINE x == Nbr(a)
             q == Cons(Count(a, o, d), r)
             f == tsch_queue_add_nbr(schedule, a)
  <1>1. Sound(f) /\ Scheduled(f) = Scheduled(schedule) /\ SameLists(f, schedule)
    BY NbrAdded
  <1>2. ScheduleAfter(x) = f
    BY LockedWork
  <1>3. \E S : q \in Seq(S)
    BY RestIsStack, Pushed
  <1>4. /\ CountsOwing(schedule, a, o, d) => CountsOwing(f, a, o, d)
        /\ RoomForAll => f.nbr[a].present
    BY NbrAddedOwing
  <1> HIDE DEF f
  <1>5. r \in Rests(f, {})
    BY <1>1, SameRests
  <1>6. Settling(f, q)
    BY <1>4, <1>5 DEF Settling
  <1>7. x \in PlainJobs(0, 0, a)
    BY DEF PlainJobs
  <1> HIDE DEF x, q
  <1> QED BY <1>1, <1>2, <1>3, <1>6, <1>7, PlainWork DEF x, q

\* An unused neighbor is freed
LEMMA FreeUnusedWork ==
    ASSUME Sound(schedule), InStep(schedule), RunLocked, NEW a \in Addrs,
           todo = <<FreeUnused(a)>>, schedule.nbr[a].tx_links_count = 0
    PROVE  Worked
  <1> DEFINE x == FreeUnused(a)
             f == FreeNbr(schedule, a)
  <1>1. Sound(f) /\ Scheduled(f) = Scheduled(schedule)
    BY NbrFreed
  <1>2. ScheduleAfter(x) = f
    BY LockedWork
  <1>3. todo = Cons(x, << >>) /\ \E S : << >> \in Seq(S)
    BY ShortStacks
  <1>4. CountsAgree(schedule) => CountsAgree(f)
    BY FreedNbrAgrees
  <1> HIDE DEF f
  <1>5. Resting(f, << >>)
    BY <1>4 DEF InStep, Resting, Rests
  <1>6. x \in PlainJobs(0, 0, a)
    BY DEF PlainJobs
  <1> HIDE DEF x
  <1> QED BY <1>1, <1>2, <1>3, <1>5, <1>6, PlainWork

\* list_remove and memb_free of a link, which the slot operation may be about
\* to use
LEMMA RmLinkWork ==
    ASSUME Sound(schedule), InStep(schedule), RunLocked, NEW c \in Scheduled(schedule),
           NEW r \in Rests(schedule, {c}), todo = Cons(RmLink(c), r)
    PROVE  Worked
  <1> DEFINE x == RmLink(c)
             l == schedule.link_memb[c]
             f == FreeLink(schedule, c)
             after == (<<Release>> \o CountJobs(l, -1)) \o r
  <1>1. PICK i, k : At(schedule, c, i, k)
    BY HasPlace DEF Sound
  <1>2. Sound(f) /\ Scheduled(f) = Scheduled(schedule) \ {c}
    BY <1>1, FreeLinkSound
  <1>3. r \in Rests(f, {})
    BY <1>1, RestsAfterFree
  <1>4. CountsAgree(schedule) => CountsOwing(f, l.addr, l.link_options, -1)
    BY <1>1, FreedIsOwed
  <1>5. l.addr \in Addrs /\ l.link_options \in Options
    <2>1. c \in Cells /\ schedule.link_memb \in [Cells -> LinkCells]
      BY <1>1, LinkPlace, ScheduleFields DEF Sound
    <2> QED BY <2>1 DEF LinkCells
  <1>6. PICK S : r \in Seq(S)
    BY RestIsStack
  <1>7. /\ ScheduleAfter(x) = f /\ JobsAfter(x) = <<Release>> \o CountJobs(l, -1)
        /\ CurrentAfter(x) = IF c = current_link THEN NoLink ELSE current_link
    BY LockedWork
  <1> HIDE DEF x, f, l
  <1>8. Done(f, after)
    BY <1>2, <1>3, <1>4, <1>5, ReleaseAndCount DEF InStep
  <1>9. schedule' = f /\ todo' = after
        /\ current_link' = IF c = current_link THEN NoLink ELSE current_link
    BY <1>6, <1>7, FirstLockedJob DEF x
  <1> HIDE DEF after
  <1> QED BY <1>2, <1>8, <1>9 DEF Worked

\* memb_alloc and list_add of a link, if there is a free cell
LEMMA NewLinkWork ==
    ASSUME Sound(schedule), InStep(schedule), RunLocked, NEW i \in 1 .. Len(schedule.slotframe_list),
           NEW kind \in LinkKinds, NEW t \in Vacant(schedule, i, {}),
           todo = <<NewLink(schedule.slotframe_list[i].handle, kind, t)>>
    PROVE  Worked
  <1> DEFINE sf == schedule.slotframe_list[i]
             h == sf.handle
             x == NewLink(h, kind, t)
             c == memb_alloc(schedule)
             f == AllocLink(schedule, h, kind, t)
             after == (<<Release>> \o CountJobs(kind, 1)) \o << >>
  <1>1. t \in Nat /\ t < sf.size /\ \A m \in 1 .. Len(sf.links_list) :
                                        schedule.link_memb[sf.links_list[m]].timeslot # t
    <2>1. sf.size \in Nat
      BY ScheduleFields DEF Sound
    <2> QED BY <2>1 DEF Vacant
  <1>2. kind.addr \in Addrs /\ kind.link_options \in Options
    BY Constants DEF Options
  <1>3. Sound(f) /\ IF c = NoLink THEN f = schedule ELSE LinkAdded(f, schedule, c, i, kind, t)
    BY <1>1, <1>2, LinkAllocated
  <1>4. /\ ScheduleAfter(x) = f /\ CurrentAfter(x) = current_link
        /\ JobsAfter(x) = IF c # NoLink THEN <<Release>> \o CountJobs(kind, 1) ELSE <<Release>>
    BY LockedWork
  <1>5. todo = Cons(x, << >>)
    BY ShortStacks
  <1>6. PICK S : << >> \in Seq(S)
    BY ShortStacks
  <1> HIDE DEF x, f, c
  <1>7. schedule' = f /\ todo' = JobsAfter(x) \o << >> /\ current_link' = current_link
    BY <1>4, <1>5, <1>6, FirstLockedJob
  <1>8. << >> \in Rests(f, {})
    BY DEF Rests
  <1>9. CASE c = NoLink
    <2>1. Resting(schedule, << >>)
      BY DEF Resting, Rests
    <2>2. Done(schedule, <<Release>> \o << >>)
      BY <1>6, <2>1, ReleaseFirst
    <2> QED BY <1>3, <1>4, <1>7, <1>9, <2>2 DEF Worked
  <1>10. CASE c # NoLink
    <2>1. LinkAdded(f, schedule, c, i, kind, t)
      BY <1>3, <1>10
    <2>2. CountsAgree(schedule) => CountsOwing(f, kind.addr, kind.link_options, 1)
      BY <1>3, <2>1, AddedIsOwed DEF Sound
    <2>3. Done(f, after)
      BY <1>2, <1>3, <1>8, <2>2, ReleaseAndCount DEF InStep
    <2>4. todo' = after
      BY <1>4, <1>7, <1>10
    <2>5. Scheduled(schedule) \subseteq Scheduled(f)
      BY <2>1 DEF LinkAdded
    <2> HIDE DEF after
    <2> QED BY <1>3, <1>7, <2>3, <2>4, <2>5 DEF Worked
  <1> QED BY <1>9, <1>10

\* A stretch with the lock, whatever it is for
LEMMA LockedStep ==
    ASSUME Sound(schedule), todo # << >>, Unlocked(schedule, todo), RunLocked
    PROVE  Worked
  <1> DEFINE sfl == schedule.slotframe_list
  <1>1. ASSUME NEW x, NEW S, NEW q \in Seq(S), todo = Cons(x, q), x.op \notin LockedOps PROVE FALSE
    BY <1>1, FirstLockedJob
  <1>2. ASSUME InStep(schedule), todo \in Rests(schedule, {}) PROVE Worked
    <2>1. CASE todo \in {<< >>, <<RmAll>>}
      <3>1. todo = Cons(RmAll, << >>) /\ \E S : << >> \in Seq(S)
        BY <2>1, ShortStacks
      <3>2. RmAll.op \notin LockedOps
        BY DEF RmAll, LockedOps
      <3> QED BY <1>1, <3>1, <3>2
    <2>2. ASSUME NEW i \in 1 .. Len(sfl),
                 todo \in {<<RmSf(sfl[i].handle)>>, <<RmSf(sfl[i].handle), RmAll>>}
          PROVE  Worked
      <3> DEFINE x == RmSf(sfl[i].handle)
      <3>1. <<x>> = Cons(x, << >>) /\ <<x, RmAll>> = Cons(x, <<RmAll>>)
        BY ShortStacks
      <3>2. \E S : << >> \in Seq(S) /\ <<RmAll>> \in Seq(S)
        BY ShortStacks
      <3>3. x.op \notin LockedOps
        BY DEF RmSf, LockedOps
      <3> HIDE DEF x
      <3> QED BY <1>1, <2>2, <3>1, <3>2, <3>3 DEF x
    <2>3. ASSUME NEW i \in 1 .. Len(sfl), NEW kind \in LinkKinds, NEW t \in Vacant(schedule, i, {}),
                 todo = <<NewLink(sfl[i].handle, kind, t)>>
          PROVE  Worked
      BY <1>2, <2>3, NewLinkWork
    <2> QED BY <1>2, <2>1, <2>2, <2>3, RestCases
  <1>3. ASSUME NEW a \in Addrs, NEW o \in Options, NEW d \in {1, -1}, NEW r \in Rests(schedule, {}),
               "tx" \in o, RoomForAll => CountsOwing(schedule, a, o, d),
               todo = Cons(Nbr(a), Cons(Count(a, o, d), r))
        PROVE  Worked
    BY <1>3, NbrOfLinkWork
  <1>4. ASSUME NEW a \in Addrs, NEW o \in Options, NEW d \in {1, -1}, NEW r \in Rests(schedule, {}),
               todo = Cons(Count(a, o, d), r)
        PROVE  FALSE
    <2> DEFINE x == Count(a, o, d)
    <2>1. x.op \notin LockedOps
      BY DEF Count, LockedOps
    <2>2. \E S : r \in Seq(S)
      BY RestIsStack
    <2> HIDE DEF x
    <2> QED BY <1>1, <1>4, <2>1, <2>2 DEF x
  <1>5. ASSUME InStep(schedule), Chosen(schedule, todo) PROVE Worked
    <2>1. ASSUME NEW i \in 1 .. Len(sfl), NEW r \in {<< >>, <<RmAll>>},
                 Len(sfl[i].links_list) = 0, todo = Cons(FreeSf(sfl[i].handle), r)
          PROVE  Worked
      BY <1>5, <2>1, FreeSfWork
    <2>2. ASSUME NEW h \in Handles, NEW n \in Sizes \ {0}, ~HasSlotframe(schedule, h),
                 todo = <<AddSf(h, n)>>
          PROVE  Worked
      BY <1>5, <2>2, AddSfWork
    <2>3. ASSUME NEW h, NEW kind, NEW t, todo = <<RmTimeslot(h, t), NewLink(h, kind, t)>>
          PROVE  FALSE
      <3> DEFINE x == RmTimeslot(h, t)
                 y == NewLink(h, kind, t)
      <3>1. todo = Cons(x, <<y>>) /\ \E S : <<y>> \in Seq(S)
        BY <2>3, ShortStacks
      <3>2. x.op \notin LockedOps
        BY DEF RmTimeslot, LockedOps
      <3> HIDE DEF x, y
      <3> QED BY <1>1, <3>1, <3>2
    <2>4. ASSUME NEW c \in Scheduled(schedule), NEW r \in Rests(schedule, {c}), todo = Cons(RmLink(c), r)
          PROVE  Worked
      BY <1>5, <2>4, RmLinkWork
    <2>5. ASSUME NEW a \in Addrs, todo = <<Nbr(a)>> PROVE Worked
      BY <1>5, <2>5, NbrWork
    <2>6. ASSUME NEW a \in Addrs, todo = <<FreeUnused(a)>>, schedule.nbr[a].tx_links_count = 0
          PROVE  Worked
      BY <1>5, <2>6, FreeUnusedWork
    <2> QED BY <1>5, <2>1, <2>2, <2>3, <2>4, <2>5, <2>6 DEF Chosen
  <1> QED BY <1>2, <1>3, <1>4, <1>5 DEF Unlocked, Resting, Settling

-----------------------------------------------------------------------------
(* The main program's steps keep the invariant *)

\* When no call is in progress the counters agree
LEMMA AtRest ==
    ASSUME NEW s, Unlocked(s, << >>)
    PROVE  InStep(s)
  <1>1. CASE Settling(s, << >>)
    <2>1. PICK a \in Addrs, o \in Options, d \in {1, -1} :
              \E r \in Rests(s, {}) : \/ << >> = Cons(Nbr(a), Cons(Count(a, o, d), r))
                                      \/ << >> = Cons(Count(a, o, d), r)
      BY <1>1 DEF Settling
    <2>2. PICK r \in Rests(s, {}) : \/ << >> = Cons(Nbr(a), Cons(Count(a, o, d), r))
                                    \/ << >> = Cons(Count(a, o, d), r)
      BY <2>1
    <2> DEFINE x == Nbr(a)
               y == Count(a, o, d)
    <2> HIDE DEF x, y
    <2>3. PICK S : r \in Seq(S)
      BY RestIsStack
    <2>4. Cons(y, r) # << >> /\ \E T : Cons(y, r) \in Seq(T)
      BY <2>3, Pushed
    <2>5. Cons(x, Cons(y, r)) # << >>
      BY <2>4, Pushed
    <2> QED BY <2>2, <2>4, <2>5 DEF x, y
  <1> QED BY <1>1 DEF Unlocked, Resting

\* A call can be done
LEMMA CallsCanBeDone ==
    ASSUME Sound(schedule), InStep(schedule), NEW q \in Calls
    PROVE  Unlocked(schedule, q)
  <1> DEFINE sfl == schedule.slotframe_list
  <1>1. CASE q = <<RmAll>>
    BY <1>1 DEF Unlocked, Resting, Rests
  <1>2. ASSUME NEW h \in Handles, ~HasSlotframe(schedule, h), NEW n \in Sizes \ {0}, q = <<AddSf(h, n)>>
        PROVE  Unlocked(schedule, q)
    BY <1>2 DEF Unlocked, Chosen
  <1>3. ASSUME NEW h \in Handles, HasSlotframe(schedule, h), q = <<RmSf(h)>>
        PROVE  Unlocked(schedule, q)
    <2>1. PICK i \in 1 .. Len(sfl) : sfl[i].handle = h
      BY <1>3, Position DEF Sound
    <2>2. q \in Rests(schedule, {})
      BY <1>3, <2>1, IsRest
    <2> QED BY <2>2 DEF Unlocked, Resting
  <1>4. ASSUME NEW h \in Handles, NEW t \in Timeslots, Fits(h, t), NEW kind \in LinkKinds,
               q = <<RmTimeslot(h, t), NewLink(h, kind, t)>>
        PROVE  Unlocked(schedule, q)
    <2>1. PICK i \in 1 .. Len(sfl) : sfl[i].handle = h /\ Slotframe(schedule, h) = sfl[i]
      BY <1>4, Position DEF Sound, Fits
    <2>2. t \in 0 .. sfl[i].size - 1
      <3>1. t \in Nat
        BY SizesBounded DEF Timeslots
      <3>2. sfl[i].size \in Nat /\ t < sfl[i].size
        BY <1>4, <2>1, ScheduleFields DEF Sound, Fits
      <3> QED BY <3>1, <3>2
    <2>3. q = <<RmTimeslot(sfl[i].handle, t), NewLink(sfl[i].handle, kind, t)>>
      BY <1>4, <2>1
    <2> QED BY <2>2, <2>3 DEF Unlocked, Chosen
  <1>5. ASSUME NEW c \in Scheduled(schedule), q = <<RmLink(c)>> PROVE Unlocked(schedule, q)
    <2>1. q = Cons(RmLink(c), << >>)
      BY <1>5, ShortStacks
    <2>2. << >> \in Rests(schedule, {c})
      BY DEF Rests
    <2>3. Chosen(schedule, q)
      BY <2>1, <2>2 DEF Chosen
    <2> QED BY <2>3 DEF Unlocked
  <1>6. ASSUME NEW a \in Addrs, q = <<Nbr(a)>> PROVE Unlocked(schedule, q)
    BY <1>6 DEF Unlocked, Chosen
  <1>7. ASSUME NEW a \in Addrs, schedule.nbr[a].tx_links_count = 0, q = <<FreeUnused(a)>>
        PROVE  Unlocked(schedule, q)
    BY <1>7 DEF Unlocked, Chosen
  <1> QED BY <1>1, <1>2, <1>3, <1>4, <1>5, <1>6, <1>7 DEF Calls

\* A step that leaves the slot operation alone
LEMMA SlotUntouched ==
    ASSUME SlotInv, UNCHANGED slotVars, Scheduled(schedule') = Scheduled(schedule)
    PROVE  /\ PointersOK' /\ isr' \in {"yielded", "end"}
           /\ burst_link_scheduled' \in BOOLEAN
  BY DEF SlotInv, slotVars, PointersOK, CurrentLinkScheduled

LEMMA CallKeeps == SlotInv /\ Call => SlotInv'
  <1> SUFFICES ASSUME SlotInv, Call PROVE SlotInv'
    OBVIOUS
  <1>1. /\ main = "out" /\ todo = << >> /\ todo' \in Calls /\ schedule' = schedule
        /\ UNCHANGED lockVars /\ UNCHANGED slotVars
    BY DEF Call
  <1>2. LockInv'
    BY <1>1, LockInvNext DEF SlotInv
  <1>3. Unlocked(schedule, << >>)
    <2>1. ~Done(schedule, << >>)
      BY DEF Done
    <2> QED BY <1>1, <2>1 DEF SlotInv, JobsOK
  <1>4. Unlocked(schedule, todo')
    BY <1>1, <1>3, AtRest, CallsCanBeDone DEF SlotInv
  <1>5. JobsOK'
    BY <1>1, <1>4 DEF JobsOK, lockVars
  <1>6. slot' = slot
    BY <1>1 DEF lockVars
  <1> QED BY <1>1, <1>2, <1>5, <1>6, SlotUntouched DEF SlotInv

LEMMA RunUnlockedKeeps == SlotInv /\ RunUnlocked => SlotInv'
  <1> SUFFICES ASSUME SlotInv, RunUnlocked PROVE SlotInv'
    OBVIOUS
  <1>1. main = "out" /\ UNCHANGED lockVars /\ UNCHANGED slotVars
    BY DEF RunUnlocked
  <1>2. LockInv'
    BY <1>1, LockInvNext DEF SlotInv
  <1>3. Unlocked(schedule, todo)
    BY <1>1 DEF SlotInv, JobsOK
  <1>4. Sound(schedule') /\ Scheduled(schedule') = Scheduled(schedule) /\ Unlocked(schedule', todo')
    BY <1>3, UnlockedStep DEF SlotInv
  <1>5. JobsOK'
    BY <1>1, <1>4 DEF JobsOK, lockVars
  <1>6. slot' = slot
    BY <1>1 DEF lockVars
  <1> QED BY <1>1, <1>2, <1>4, <1>5, <1>6, SlotUntouched DEF SlotInv

LEMMA GetLockKeeps == SlotInv /\ (RequestLock \/ TakeLock \/ GotLock) => SlotInv'
  <1> SUFFICES ASSUME SlotInv, RequestLock \/ TakeLock \/ GotLock PROVE SlotInv'
    OBVIOUS
  <1>1. UNCHANGED <<schedule, todo>> /\ UNCHANGED slotVars /\ slot' = slot
    BY DEF RequestLock, TakeLock, GotLock, Request, Take, ClearRequest
  <1>2. LockInv'
    <2>1. LockNext
      BY DEF LockNext, RequestLock, TakeLock, GotLock
    <2> QED BY <2>1, LockInvNext DEF SlotInv
  <1>3. JobsOK'
    <2>1. CASE RequestLock
      <3>1. main = "out" /\ main' = "requested" /\ todo # << >> /\ Head(todo).op \in LockedOps
        BY <2>1 DEF RequestLock, Request, NeedsLock
      <3> QED BY <1>1, <3>1 DEF SlotInv, JobsOK
    <2>2. CASE TakeLock \/ GotLock
      <3>1. main \in {"requested", "taken"} /\ main' # "out"
        BY <2>2 DEF TakeLock, GotLock, Take, ClearRequest
      <3> QED BY <1>1, <3>1 DEF SlotInv, JobsOK
    <2> QED BY <2>1, <2>2
  <1> QED BY <1>1, <1>2, <1>3, SlotUntouched DEF SlotInv

LEMMA RunLockedKeeps == SlotInv /\ RunLocked => SlotInv'
  <1> SUFFICES ASSUME SlotInv, RunLocked PROVE SlotInv'
    OBVIOUS
  <1>1. /\ main = "in" /\ Head(todo).op \in LockedOps /\ UNCHANGED lockVars
        /\ UNCHANGED <<backup_link, burst_link_scheduled, tsch_current_burst_count, asn, isr,
                       viaBackup>>
    BY DEF RunLocked
  <1>2. LockInv'
    BY <1>1, LockInvNext DEF SlotInv
  <1>3. ~Done(schedule, todo)
    <2>1. Release.op \notin LockedOps
      BY DEF Release, LockedOps
    <2> QED BY <1>1, <2>1 DEF Done
  <1>4. todo # << >> /\ Unlocked(schedule, todo)
    BY <1>1, <1>3 DEF SlotInv, JobsOK
  <1>5. Worked
    BY <1>4, LockedStep DEF SlotInv
  <1>6. JobsOK'
    BY <1>1, <1>5 DEF Worked, JobsOK, lockVars
  <1>7. PointersOK'
    BY <1>1, <1>5 DEF Worked, SlotInv, PointersOK, CurrentLinkScheduled
  <1> QED BY <1>1, <1>2, <1>5, <1>6, <1>7 DEF SlotInv, Worked

LEMMA ReleaseLockKeeps == SlotInv /\ ReleaseLock => SlotInv'
  <1> SUFFICES ASSUME SlotInv, ReleaseLock PROVE SlotInv'
    OBVIOUS
  <1>1. /\ main = "in" /\ Head(todo).op = "release" /\ todo' = Tail(todo) /\ schedule' = schedule
        /\ UNCHANGED slotVars /\ main' = "out" /\ slot' = slot
    BY DEF ReleaseLock, tsch_release_lock
  <1>2. LockInv'
    <2>1. LockNext
      BY DEF LockNext, ReleaseLock
    <2> QED BY <2>1, LockInvNext DEF SlotInv
  <1>3. Done(schedule, todo)
    BY <1>1 DEF SlotInv, JobsOK, LockedOps
  <1>4. JobsOK'
    BY <1>1, <1>3 DEF Done, JobsOK, Unlocked
  <1> QED BY <1>1, <1>2, <1>4, SlotUntouched DEF SlotInv

-----------------------------------------------------------------------------
(* The slot operation's steps keep the invariant *)

\* A step of the interrupt does not touch the schedule or the call
LEMMA MainUntouched ==
    ASSUME SlotInv, UNCHANGED <<schedule, todo, main>>
    PROVE  Sound(schedule') /\ JobsOK'
  BY DEF SlotInv, JobsOK

LEMMA SkipSlotKeeps == SlotInv /\ SkipSlot => SlotInv'
  <1> SUFFICES ASSUME SlotInv, SkipSlot PROVE SlotInv'
    OBVIOUS
  <1>1. /\ isr' = "end" /\ UNCHANGED lockVars
        /\ UNCHANGED <<schedule, todo, current_link, backup_link, burst_link_scheduled,
                       tsch_current_burst_count, asn, viaBackup>>
    BY DEF SkipSlot
  <1>2. LockInv'
    BY <1>1, LockInvNext DEF SlotInv
  <1>3. Sound(schedule') /\ JobsOK'
    BY <1>1, MainUntouched DEF lockVars
  <1>4. PointersOK'
    BY <1>1 DEF SlotInv, PointersOK, CurrentLinkScheduled
  <1> QED BY <1>1, <1>2, <1>3, <1>4 DEF SlotInv

\* The slot runs over the current link or over the backup link
LEMMA RunSlotKeeps ==
    ASSUME SlotInv, NEW c \in {current_link, backup_link}, c # NoLink, NEW packet \in BOOLEAN,
           RunSlot(c, packet)
    PROVE  SlotInv'
  <1> DEFINE active == packet \/ "rx" \in Opts(schedule, c)
             kind == IF packet THEN "tx" ELSE IF active THEN "rx" ELSE "off"
  <1>1. /\ StartSlot(kind) /\ isr' = IF active THEN "yielded" ELSE "end"
        /\ burst_link_scheduled' = FALSE
        /\ current_link' = c /\ viaBackup' = (viaBackup \/ c # current_link)
        /\ UNCHANGED <<schedule, todo, backup_link, tsch_current_burst_count, asn>>
    BY DEF RunSlot
  <1>2. kind \in SlotStates \ {"none"}
    BY DEF SlotStates
  <1> HIDE DEF kind, active
  <1>3. LockInv'
    <2>1. LockNext
      BY <1>1, <1>2 DEF LockNext
    <2> QED BY <2>1, LockInvNext DEF SlotInv
  <1>4. Sound(schedule') /\ JobsOK'
    BY <1>1, MainUntouched DEF StartSlot
  <1>5. PointersOK'
    BY <1>1 DEF SlotInv, PointersOK, CurrentLinkScheduled
  <1>6. isr' \in {"yielded", "end"} /\ burst_link_scheduled' \in BOOLEAN
    BY <1>1
  <1> QED BY <1>3, <1>4, <1>5, <1>6 DEF SlotInv

LEMMA StartSlotOperationKeeps == SlotInv /\ StartSlotOperation => SlotInv'
  BY RunSlotKeeps DEF StartSlotOperation

\* The end of a slot: the schedule may have changed since its start
LEMMA FinishKeeps == SlotInv /\ (FinishTx \/ FinishRx) => SlotInv'
  <1> SUFFICES ASSUME SlotInv, FinishTx \/ FinishRx PROVE SlotInv'
    OBVIOUS
  <1>1. /\ isr' = "end" /\ UNCHANGED lockVars /\ burst_link_scheduled' \in BOOLEAN
        /\ UNCHANGED <<schedule, todo, current_link, backup_link, tsch_current_burst_count, asn,
                       viaBackup>>
    BY DEF FinishTx, FinishRx
  <1>2. LockInv'
    BY <1>1, LockInvNext DEF SlotInv
  <1>3. Sound(schedule') /\ JobsOK'
    BY <1>1, MainUntouched DEF lockVars
  <1>4. PointersOK'
    BY <1>1 DEF SlotInv, PointersOK, CurrentLinkScheduled
  <1> QED BY <1>1, <1>2, <1>3, <1>4 DEF SlotInv

\* The loop at the end of a slot
LEMMA EndOfSlotKeeps == SlotInv /\ (MissDeadline \/ ArmNextSlot) => SlotInv'
  <1> SUFFICES ASSUME SlotInv, MissDeadline \/ ArmNextSlot PROVE SlotInv'
    OBVIOUS
  <1>1. /\ isr = "end" /\ NextLink /\ UNCHANGED <<schedule, todo, burst_link_scheduled>>
    BY DEF MissDeadline, ArmNextSlot
  <1>2. UNCHANGED lockVars \/ EndSlot
    BY DEF MissDeadline, ArmNextSlot
  <1>3. isr' \in {"yielded", "end"} /\ (isr' = "yielded" => slot' = "none")
    <2>1. CASE MissDeadline
      BY <1>1, <2>1 DEF MissDeadline
    <2>2. CASE ArmNextSlot
      BY <2>2 DEF ArmNextSlot, EndSlot, lockVars
    <2> QED BY <2>1, <2>2
  <1>4. LockInv'
    BY <1>2, LockInvNext DEF SlotInv, LockNext
  <1>5. Sound(schedule') /\ JobsOK'
    <2>1. main' = main
      BY <1>2 DEF lockVars, EndSlot
    <2> QED BY <1>1, <2>1, MainUntouched
  <1>6. PointersOK'
    BY <1>1, NextLinkChosen DEF SlotInv, LockInv, LockTypeOK
  <1> QED BY <1>1, <1>3, <1>4, <1>5, <1>6 DEF SlotInv

-----------------------------------------------------------------------------
(* The specification *)

LEMMA SlotInvInit == SlotInit => SlotInv
  <1> SUFFICES ASSUME SlotInit PROVE SlotInv
    OBVIOUS
  <1> DEFINE next == tsch_schedule_get_next_active_link(schedule, 0)
             first == IF next.best = NoLink THEN 1 ELSE next.time
  <1>1. /\ LockInit /\ schedule \in InitialSchedules /\ todo = << >>
        /\ current_link = next.best /\ backup_link = next.backup /\ asn = first % AsnPeriod
        /\ burst_link_scheduled = FALSE /\ tsch_current_burst_count = 0
        /\ isr = "yielded" /\ viaBackup = FALSE
    BY DEF SlotInit
  <1>2. Sound(schedule) /\ (RoomForAll => CountsAgree(schedule))
    BY <1>1, InitialAssumption DEF Sound
  <1>3. /\ next.best \in Scheduled(schedule) \cup {NoLink}
        /\ next.backup \in Scheduled(schedule) \cup {NoLink}
        /\ next.best # NoLink => next.time \in Nat
    BY <1>2, NextActiveTyped
  <1> HIDE DEF next
  <1>4. first \in Nat
    BY <1>3
  <1> HIDE DEF first
  <1>5. AsnPeriod \in Nat \ {0} /\ TSCH_BURST_MAX_LEN \in Nat
    BY SlotAssumption
  <1>6. asn \in 0 .. AsnPeriod - 1 /\ tsch_current_burst_count \in 0 .. TSCH_BURST_MAX_LEN
    BY <1>1, <1>4, <1>5
  <1>7. Scheduled(schedule) \subseteq Cells
    BY <1>2, ScheduledIn DEF Sound
  <1>8. PointersOK
    BY <1>1, <1>3, <1>6, <1>7 DEF PointersOK, CurrentLinkScheduled
  <1>9. Unlocked(schedule, << >>)
    BY <1>2 DEF Unlocked, Resting, InStep, Rests
  <1>10. JobsOK /\ slot = "none"
    BY <1>1, <1>9 DEF JobsOK, LockInit
  <1> QED BY <1>1, <1>2, <1>8, <1>10, LockInvInit DEF SlotInv

LEMMA SlotInvNext == SlotInv /\ [SlotNext]_allVars => SlotInv'
  <1> SUFFICES ASSUME SlotInv, [SlotNext]_allVars PROVE SlotInv'
    OBVIOUS
  <1>1. CASE Main
    BY <1>1, CallKeeps, RunUnlockedKeeps, GetLockKeeps, RunLockedKeeps, ReleaseLockKeeps DEF Main
  <1>2. CASE Interrupt
    BY <1>2, SkipSlotKeeps, StartSlotOperationKeeps, FinishKeeps, EndOfSlotKeeps DEF Interrupt
  <1>3. CASE UNCHANGED allVars
    <2>1. UNCHANGED lockVars /\ UNCHANGED slotVars /\ UNCHANGED <<schedule, todo>>
      BY <1>3 DEF allVars
    <2>2. LockInv'
      BY <2>1, LockInvNext DEF SlotInv
    <2>3. Sound(schedule') /\ JobsOK' /\ slot' = slot
      BY <2>1, MainUntouched DEF lockVars
    <2> QED BY <2>1, <2>2, <2>3, SlotUntouched DEF SlotInv
  <1> QED BY <1>1, <1>2, <1>3 DEF SlotNext

LEMMA SlotInvHolds == SlotSpec => []SlotInv
  BY SlotInvInit, SlotInvNext, PTL DEF SlotSpec

\* The pointers of the slot operation, its counters and the lock keep their
\* types, and who has the lock still has something to do: at least to release
\* it.
THEOREM SlotTypeCorrect == SlotSpec => []SlotTypeOK
  <1>1. SlotInv => SlotTypeOK
    BY DEF SlotInv, LockInv, JobsOK, Done, PointersOK, SlotTypeOK
  <1> QED BY <1>1, SlotInvHolds, PTL

\* Whatever the main program does to the schedule between two segments of the
\* slot operation, the link of the current or next slot is in the schedule,
\* unless it was reached through backup_link.
THEOREM SlotCurrentLinkScheduled == SlotSpec => []CurrentLinkScheduled
  <1>1. SlotInv => CurrentLinkScheduled
    BY DEF SlotInv, PointersOK
  <1> QED BY <1>1, SlotInvHolds, PTL

\* No transmission slot is in progress while the main program holds the lock.
THEOREM SlotTxExcludesLock == SlotSpec => []TxExcludesLock
  <1>1. SlotInv => TxExcludesLock
    BY DEF SlotInv, LockInv
  <1> QED BY <1>1, SlotInvHolds, PTL

\* The lists of links and the pool of cells agree whenever the interrupt may
\* come, also between the stretches of a call.
THEOREM SlotSeesWellFormed == SlotSpec => []ScheduleWellFormed
  <1>1. SlotInv => ScheduleWellFormed
    BY DEF SlotInv, Sound, ScheduleWellFormed
  <1> QED BY <1>1, SlotInvHolds, PTL

\* With room for every neighbor and less than 256 links, the counters agree
\* with the schedule when no call is in progress.
THEOREM SlotCountsAtRest ==
    ASSUME RoomForAll
    PROVE  SlotSpec => []CountsInSyncAtRest
  <1>1. ASSUME SlotInv, todo = << >> PROVE CountsInSync
    <2>1. ~Done(schedule, << >>)
      BY DEF Done
    <2>2. Unlocked(schedule, << >>)
      BY <1>1, <2>1 DEF SlotInv, JobsOK
    <2> QED BY <2>2, AtRest DEF InStep, CountsInSync
  <1>2. SlotInv => CountsInSyncAtRest
    BY <1>1 DEF CountsInSyncAtRest
  <1> QED BY <1>2, SlotInvHolds, PTL
=============================================================================
