-------------------------- MODULE TschScheduleProofs --------------------------
(***************************************************************************)
(* Proofs about TschSchedule for every size of the pools and every set of  *)
(* slotframes, links and neighbors: lists, pool and counters agree, and    *)
(* the pass over the lists finds the next active link.                     *)
(***************************************************************************)
EXTENDS TschSchedule, SequenceTheorems, FiniteSetTheorems, TLAPS

-----------------------------------------------------------------------------
(* Numbers and sequences *)

\* A set of numbers has a least one
LEMMA LeastNumber ==
    ASSUME NEW I \in SUBSET Nat, I # {}
    PROVE  Min(I) \in I /\ \A i \in I : Min(I) <= i
  <1> DEFINE R == {ss \in Nat \X Nat : ss[1] < ss[2]}
  <1>1. IsWellFoundedOn(R, Nat)
    BY NatLessThanWellFounded DEF OpToRel
  <1>2. PICK x \in I : \A y \in I : ~(<<y, x>> \in R)
    <2> HIDE DEF R
    <2> QED BY <1>1, WFMin
  <1>3. \A y \in I : y < x => <<y, x>> \in R
    OBVIOUS
  <1> HIDE DEF R
  <1>4. \A y \in I : ~(y < x)
    BY <1>2, <1>3, Zenon
  <1>5. \A y \in I : x <= y
    BY <1>4
  <1> QED BY <1>5 DEF Min

\* The elements of a list
LEMMA ElementsOf ==
    ASSUME NEW S, NEW q \in Seq(S)
    PROVE  ToSet(q) = {q[i] : i \in 1 .. Len(q)} /\ Len(q) \in Nat /\ DOMAIN q = 1 .. Len(q)
  BY DEF ToSet

\* What is left of a list without the element at one place
LEMMA Removed ==
    ASSUME NEW S, NEW q \in Seq(S), NEW old \in 1 .. Len(q)
    PROVE  /\ RemoveAt(q, old) \in Seq(S) /\ Len(RemoveAt(q, old)) = Len(q) - 1
           /\ \A k \in 1 .. Len(q) - 1 : RemoveAt(q, old)[k] = IF k < old THEN q[k] ELSE q[k + 1]
  <1> DEFINE front == SubSeq(q, 1, old - 1)
             rest == SubSeq(q, old + 1, Len(q))
             r == front \o rest
  <1>1. front \in Seq(S) /\ Len(front) = old - 1 /\ \A k \in 1 .. old - 1 : front[k] = q[k]
    BY SubSeqProperties
  <1>2. rest \in Seq(S) /\ Len(rest) = Len(q) - old /\ \A k \in 1 .. Len(q) - old : rest[k] = q[k + old]
    BY SubSeqProperties
  <1> HIDE DEF front, rest
  <1>3. /\ r \in Seq(S) /\ Len(r) = Len(front) + Len(rest)
        /\ \A k \in 1 .. Len(front) + Len(rest) :
              r[k] = IF k <= Len(front) THEN front[k] ELSE rest[k - Len(front)]
    BY <1>1, <1>2, ConcatProperties
  <1> HIDE DEF r
  <1>4. Len(q) \in Nat /\ Len(front) + Len(rest) = Len(q) - 1
    BY <1>1, <1>2
  <1>5. ASSUME NEW k \in 1 .. Len(q) - 1 PROVE r[k] = IF k < old THEN q[k] ELSE q[k + 1]
    <2>1. CASE k < old
      BY <1>1, <1>3, <1>4, <2>1
    <2>2. CASE ~(k < old)
      <3>1. k \in 1 .. Len(front) + Len(rest) /\ ~(k <= Len(front)) /\ Len(front) = old - 1
        BY <1>1, <1>4, <2>2
      <3>2. r[k] = rest[k - (old - 1)] /\ k - (old - 1) \in 1 .. Len(q) - old
        BY <1>3, <1>4, <3>1
      <3>3. rest[k - (old - 1)] = q[(k - (old - 1)) + old] /\ (k - (old - 1)) + old = k + 1
        BY <1>2, <3>2
      <3>4. r[k] = q[k + 1]
        BY <3>2, <3>3
      <3> QED BY <2>2, <3>4
    <2> QED BY <2>1, <2>2
  <1> QED BY <1>3, <1>4, <1>5 DEF RemoveAt, r, front, rest

\* list_remove of an element that is in the list once
LEMMA RemovedOnce ==
    ASSUME NEW S, NEW q \in Seq(S), NEW p \in 1 .. Len(q),
           \A i, j \in 1 .. Len(q) : q[i] = q[j] => i = j
    PROVE  RemoveFirst(q, q[p]) = RemoveAt(q, p)
  <1> DEFINE I == {i \in 1 .. Len(q) : q[i] = q[p]}
  <1>1. I = {p}
    OBVIOUS
  <1>2. Min(I) = p
    <2>1. I \in SUBSET Nat /\ I # {}
      BY <1>1
    <2> HIDE DEF I
    <2> QED BY <1>1, <2>1, LeastNumber
  <1>3. SelectInSeq(q, LAMBDA v : v = q[p]) = p
    BY <1>1, <1>2 DEF SelectInSeq
  <1> QED BY <1>3 DEF RemoveFirst

-----------------------------------------------------------------------------
(* Looking up *)

Sound(s) == s \in Schedules /\ WellFormed(s)

\* What is assumed of the pools
LEMMA Constants ==
    /\ Handles \subseteq Nat /\ 0 \in Handles /\ Sizes \subseteq Nat
    /\ Broadcast \in Addrs /\ IsFiniteSet(Addrs) /\ \A k \in LinkKinds : k.addr \in Addrs
    /\ MaxSlotframes \in Nat /\ MaxLinks \in Nat /\ MaxNbrs \in Nat
    /\ IsFiniteSet(Cells) /\ Cardinality(Cells) = MaxLinks
    /\ Cells \subseteq Nat /\ NoLink \notin Cells
  <1>1. MaxLinks \in Nat /\ 1 \in Nat
    BY ScheduleAssumption
  <1>2. IsFiniteSet(1 .. MaxLinks) /\ Cardinality(1 .. MaxLinks) = MaxLinks
    BY <1>1, FS_Interval
  <1> QED BY <1>2, ScheduleAssumption DEF Cells, NoLink

\* The fields of a schedule have their types
LEMMA ScheduleFields ==
    ASSUME NEW s \in Schedules
    PROVE  /\ s.slotframe_list \in Seq(Slotframes) /\ Len(s.slotframe_list) \in Nat
           /\ Len(s.slotframe_list) <= MaxSlotframes
           /\ s.link_memb \in [Cells -> LinkCells] /\ s.nbr \in [Addrs -> Neighbors]
           /\ \A i \in 1 .. Len(s.slotframe_list) :
                 /\ s.slotframe_list[i] \in Slotframes
                 /\ s.slotframe_list[i].handle \in Nat /\ s.slotframe_list[i].handle \in Handles
                 /\ s.slotframe_list[i].size \in Nat /\ s.slotframe_list[i].size > 0
                 /\ s.slotframe_list[i].links_list \in Seq(Cells)
                 /\ Len(s.slotframe_list[i].links_list) \in Nat
           /\ \A c \in Cells : /\ s.link_memb[c].used \in BOOLEAN /\ s.link_memb[c].addr \in Addrs
                               /\ s.link_memb[c].timeslot \in Nat
                               /\ s.link_memb[c].slotframe_handle \in Nat
  <1>1. /\ s.slotframe_list \in Seq(Slotframes) /\ Len(s.slotframe_list) <= MaxSlotframes
        /\ s.link_memb \in [Cells -> LinkCells] /\ s.nbr \in [Addrs -> Neighbors]
    BY DEF Schedules
  <1>2. \A i \in 1 .. Len(s.slotframe_list) : s.slotframe_list[i] \in Slotframes
    BY <1>1
  <1>3. \A f \in Slotframes : /\ f.handle \in Nat /\ f.handle \in Handles
                              /\ f.size \in Nat /\ f.size > 0
                              /\ f.links_list \in Seq(Cells) /\ Len(f.links_list) \in Nat
    <2>1. \A f \in Slotframes : /\ f.handle \in Handles /\ f.size \in Sizes \ {0}
                                /\ f.links_list \in Seq(Cells)
      BY DEF Slotframes
    <2>2. \A q \in Seq(Cells) : Len(q) \in Nat
      OBVIOUS
    <2>3. \A z \in Sizes \ {0} : z \in Nat /\ z > 0
      BY Constants
    <2> QED BY <2>1, <2>2, <2>3, Constants
  <1>4. \A c \in Cells : s.link_memb[c] \in LinkCells
    BY <1>1
  <1>5. \A l \in LinkCells : /\ l.used \in BOOLEAN /\ l.addr \in Addrs
                             /\ l.timeslot \in Nat /\ l.slotframe_handle \in Nat
    BY DEF LinkCells
  <1>6. Len(s.slotframe_list) \in Nat
    BY <1>1
  <1> QED BY <1>1, <1>2, <1>3, <1>4, <1>5, <1>6

\* The scheduled links are the ones at some place of some list
LEMMA ScheduledIn ==
    ASSUME NEW s \in Schedules
    PROVE  /\ Scheduled(s) \subseteq Cells
           /\ \A c : c \in Scheduled(s) <=>
                 \E i \in 1 .. Len(s.slotframe_list) :
                     \E k \in 1 .. Len(s.slotframe_list[i].links_list) :
                         s.slotframe_list[i].links_list[k] = c
  <1> DEFINE sfl == s.slotframe_list
  <1>1. sfl \in Seq(Slotframes) /\ DOMAIN sfl = 1 .. Len(sfl)
    BY ScheduleFields, ElementsOf
  <1>2. \A i \in 1 .. Len(sfl) : /\ sfl[i].links_list \in Seq(Cells)
                                /\ ToSet(sfl[i].links_list) =
                                     {sfl[i].links_list[k] : k \in 1 .. Len(sfl[i].links_list)}
    BY ScheduleFields, ElementsOf
  <1>3. \A c : c \in Scheduled(s) <=> \E i \in 1 .. Len(sfl) : c \in ToSet(sfl[i].links_list)
    BY <1>1 DEF Scheduled
  <1>4. \A i \in 1 .. Len(sfl) : \A k \in 1 .. Len(sfl[i].links_list) : sfl[i].links_list[k] \in Cells
    BY <1>2
  <1> HIDE DEF sfl
  <1>5. \A c : c \in Scheduled(s) <=> \E i \in 1 .. Len(sfl) :
                     \E k \in 1 .. Len(sfl[i].links_list) : sfl[i].links_list[k] = c
    <2>1. \A i \in 1 .. Len(sfl) : \A c : c \in ToSet(sfl[i].links_list) <=>
                     \E k \in 1 .. Len(sfl[i].links_list) : sfl[i].links_list[k] = c
      <3>1. ASSUME NEW i \in 1 .. Len(sfl), NEW c
            PROVE  c \in ToSet(sfl[i].links_list) <=>
                     \E k \in 1 .. Len(sfl[i].links_list) : sfl[i].links_list[k] = c
        <4>1. ToSet(sfl[i].links_list) = {sfl[i].links_list[k] : k \in 1 .. Len(sfl[i].links_list)}
          BY <1>2
        <4> QED BY <4>1
      <3> QED BY <3>1
    <2> QED BY <1>3, <2>1
  <1>6. Scheduled(s) \subseteq Cells
    BY <1>4, <1>5
  <1> QED BY <1>5, <1>6 DEF sfl

\* The slotframe found for a handle has it, and if none is found none has it
LEMMA Position ==
    ASSUME NEW s \in Schedules, NEW h
    PROVE  LET i == tsch_schedule_get_slotframe_by_handle(s, h)
           IN  /\ HasSlotframe(s, h) <=> i # 0
               /\ i # 0 => i \in 1 .. Len(s.slotframe_list) /\ s.slotframe_list[i].handle = h
               /\ i = 0 => \A j \in 1 .. Len(s.slotframe_list) : s.slotframe_list[j].handle # h
               /\ i # 0 => Slotframe(s, h) = s.slotframe_list[i]
  <1> DEFINE I == {j \in 1 .. Len(s.slotframe_list) : s.slotframe_list[j].handle = h}
             i == tsch_schedule_get_slotframe_by_handle(s, h)
  <1>1. i = IF I # {} THEN Min(I) ELSE 0
    BY DEF tsch_schedule_get_slotframe_by_handle, SelectInSeq
  <1>2. I \in SUBSET Nat
    OBVIOUS
  <1>3. I # {} => Min(I) \in I
    <2> HIDE DEF I
    <2> QED BY <1>2, LeastNumber
  <1>4. 0 \notin I
    OBVIOUS
  <1> HIDE DEF i
  <1>5. /\ i # 0 => i \in 1 .. Len(s.slotframe_list) /\ s.slotframe_list[i].handle = h
        /\ i = 0 => \A j \in 1 .. Len(s.slotframe_list) : s.slotframe_list[j].handle # h
    BY <1>1, <1>3, <1>4
  <1> QED BY <1>5 DEF i, HasSlotframe, Slotframe

\* Handles are unique, so the slotframe found is the one meant
LEMMA PositionOf ==
    ASSUME NEW s, Sound(s), NEW j \in 1 .. Len(s.slotframe_list)
    PROVE  LET h == s.slotframe_list[j].handle
           IN  /\ tsch_schedule_get_slotframe_by_handle(s, h) = j /\ HasSlotframe(s, h)
               /\ Slotframe(s, h) = s.slotframe_list[j]
  <1> DEFINE h == s.slotframe_list[j].handle
             i == tsch_schedule_get_slotframe_by_handle(s, h)
  <1>1. s \in Schedules /\ \A m, n \in 1 .. Len(s.slotframe_list) :
            s.slotframe_list[m].handle = s.slotframe_list[n].handle => m = n
    BY DEF Sound, WellFormed
  <1>2. /\ HasSlotframe(s, h) <=> i # 0
        /\ i # 0 => i \in 1 .. Len(s.slotframe_list) /\ s.slotframe_list[i].handle = h
        /\ i = 0 => \A n \in 1 .. Len(s.slotframe_list) : s.slotframe_list[n].handle # h
        /\ i # 0 => Slotframe(s, h) = s.slotframe_list[i]
    BY <1>1, Position
  <1> HIDE DEF i
  <1>3. i = j
    BY <1>1, <1>2
  <1> QED BY <1>2, <1>3 DEF i

\* The link c is the k-th of the i-th slotframe
At(s, c, i, k) == /\ i \in 1 .. Len(s.slotframe_list)
                  /\ k \in 1 .. Len(s.slotframe_list[i].links_list)
                  /\ s.slotframe_list[i].links_list[k] = c

\* A scheduled link has a place
LEMMA HasPlace ==
    ASSUME NEW s \in Schedules, NEW c
    PROVE  c \in Scheduled(s) <=> \E i, k : At(s, c, i, k)
  <1>1. c \in Scheduled(s) <=> \E i \in 1 .. Len(s.slotframe_list) :
            \E k \in 1 .. Len(s.slotframe_list[i].links_list) : s.slotframe_list[i].links_list[k] = c
    BY ScheduledIn
  <1>2. (\E i, k : At(s, c, i, k)) <=> \E i \in 1 .. Len(s.slotframe_list) :
            \E k \in 1 .. Len(s.slotframe_list[i].links_list) : s.slotframe_list[i].links_list[k] = c
    BY Zenon DEF At
  <1> QED BY <1>1, <1>2

\* A link that is in a list is in one, at one place, and used
LEMMA LinkPlace ==
    ASSUME NEW s, Sound(s), NEW c, NEW i, NEW k, At(s, c, i, k)
    PROVE  /\ c \in Cells /\ s.link_memb[c].used /\ c \in Scheduled(s)
           /\ i \in 1 .. Len(s.slotframe_list)
           /\ s.link_memb[c].slotframe_handle = s.slotframe_list[i].handle
           /\ s.link_memb[c].timeslot < s.slotframe_list[i].size
           /\ tsch_schedule_get_slotframe_by_handle(s, s.link_memb[c].slotframe_handle) = i
           /\ \A j, m : At(s, c, j, m) => j = i /\ m = k
  <1>1. s \in Schedules /\ WellFormed(s)
    BY DEF Sound
  <1>2. /\ c \in Scheduled(s) /\ Scheduled(s) \subseteq Cells
        /\ Scheduled(s) = {d \in Cells : s.link_memb[d].used}
    BY <1>1, HasPlace, ScheduledIn DEF WellFormed, FrameWellFormed
  <1>3. /\ s.link_memb[c].slotframe_handle = s.slotframe_list[i].handle
        /\ s.link_memb[c].timeslot < s.slotframe_list[i].size
    BY <1>1 DEF WellFormed, FrameWellFormed, At
  <1>4. tsch_schedule_get_slotframe_by_handle(s, s.link_memb[c].slotframe_handle) = i
    BY <1>3, PositionOf DEF At
  <1>5. ASSUME NEW j, NEW m, At(s, c, j, m)
        PROVE  j = i /\ m = k
    <2>1. s.link_memb[c].slotframe_handle = s.slotframe_list[j].handle
      BY <1>1, <1>5 DEF WellFormed, FrameWellFormed, At
    <2>2. j = i
      BY <1>1, <1>3, <1>5, <2>1 DEF WellFormed, FrameWellFormed, At
    <2>3. \A x, y \in 1 .. Len(s.slotframe_list[i].links_list) :
             s.link_memb[s.slotframe_list[i].links_list[x]].timeslot
                = s.link_memb[s.slotframe_list[i].links_list[y]].timeslot => x = y
      BY <1>1 DEF WellFormed, FrameWellFormed, At
    <2> QED BY <1>5, <2>2, <2>3 DEF At
  <1>6. i \in 1 .. Len(s.slotframe_list)
    BY DEF At
  <1> QED BY <1>2, <1>3, <1>4, <1>5, <1>6

-----------------------------------------------------------------------------
(* Removing a link *)

\* What list_remove and memb_free leave: every other slotframe as it was, this
\* one without the link, the cell free with its contents
LinkFreed(r, s, c, i, k) ==
    /\ r.nbr = s.nbr /\ Len(r.slotframe_list) = Len(s.slotframe_list)
    /\ \A j \in 1 .. Len(s.slotframe_list) :
          /\ r.slotframe_list[j].handle = s.slotframe_list[j].handle
          /\ r.slotframe_list[j].size = s.slotframe_list[j].size
          /\ j # i => r.slotframe_list[j] = s.slotframe_list[j]
    /\ r.slotframe_list[i].links_list = RemoveAt(s.slotframe_list[i].links_list, k)
    /\ \A d \in Cells : /\ d # c => r.link_memb[d] = s.link_memb[d]
                        /\ r.link_memb[d].link_options = s.link_memb[d].link_options
                        /\ r.link_memb[d].addr = s.link_memb[d].addr
                        /\ r.link_memb[d].slotframe_handle = s.link_memb[d].slotframe_handle
                        /\ r.link_memb[d].timeslot = s.link_memb[d].timeslot
    /\ ~r.link_memb[c].used

\* FreeLink does that
LEMMA FreeLinkFields ==
    ASSUME NEW s, Sound(s), NEW c, NEW i, NEW k, At(s, c, i, k)
    PROVE  FreeLink(s, c) \in Schedules /\ LinkFreed(FreeLink(s, c), s, c, i, k)
  <1> DEFINE q == s.slotframe_list[i].links_list
             sfl == [s.slotframe_list EXCEPT ![i].links_list = RemoveAt(q, k)]
             mb == [s.link_memb EXCEPT ![c].used = FALSE]
             r == FreeLink(s, c)
  <1>1. s \in Schedules /\ WellFormed(s)
    BY DEF Sound
  <1>2. /\ c \in Cells /\ tsch_schedule_get_slotframe_by_handle(s, s.link_memb[c].slotframe_handle) = i
        /\ i \in 1 .. Len(s.slotframe_list)
    BY LinkPlace
  <1>3. q \in Seq(Cells) /\ \A m, n \in 1 .. Len(q) : q[m] = q[n] => m = n
    BY <1>1, <1>2, ScheduleFields DEF WellFormed, FrameWellFormed
  <1>4. RemoveFirst(q, c) = RemoveAt(q, k) /\ RemoveAt(q, k) \in Seq(Cells)
    BY <1>3, RemovedOnce, Removed DEF At
  <1>5. r = [s EXCEPT !.slotframe_list = sfl, !.link_memb = mb]
    BY <1>2, <1>4 DEF FreeLink
  <1>6. s.slotframe_list \in Seq(Slotframes) /\ s.link_memb \in [Cells -> LinkCells]
        /\ s.nbr \in [Addrs -> Neighbors] /\ Len(s.slotframe_list) <= MaxSlotframes
    BY <1>1, ScheduleFields
  <1>7. /\ sfl \in Seq(Slotframes) /\ Len(sfl) = Len(s.slotframe_list)
        /\ sfl[i] = [s.slotframe_list[i] EXCEPT !.links_list = RemoveAt(q, k)]
        /\ \A j \in 1 .. Len(s.slotframe_list) : j # i => sfl[j] = s.slotframe_list[j]
    <2>1. s.slotframe_list[i] \in Slotframes
      BY <1>2, <1>6
    <2>2. [s.slotframe_list[i] EXCEPT !.links_list = RemoveAt(q, k)] \in Slotframes
      BY <1>4, <2>1 DEF Slotframes
    <2> HIDE DEF q
    <2> QED BY <1>2, <1>6, <2>2
  <1>8. sfl[i].handle = s.slotframe_list[i].handle /\ sfl[i].size = s.slotframe_list[i].size
        /\ sfl[i].links_list = RemoveAt(q, k)
    <2>1. s.slotframe_list[i] \in Slotframes
      BY <1>2, <1>6
    <2> HIDE DEF q, sfl
    <2> QED BY <1>7, <2>1 DEF Slotframes
  <1>9. s.link_memb[c] \in LinkCells /\ [s.link_memb[c] EXCEPT !.used = FALSE] \in LinkCells
    BY <1>2, <1>6 DEF LinkCells
  <1>10. /\ mb \in [Cells -> LinkCells] /\ mb[c] = [s.link_memb[c] EXCEPT !.used = FALSE]
         /\ \A d \in Cells : d # c => mb[d] = s.link_memb[d]
    BY <1>2, <1>6, <1>9
  <1>11. /\ ~mb[c].used /\ mb[c].link_options = s.link_memb[c].link_options
         /\ mb[c].addr = s.link_memb[c].addr
         /\ mb[c].slotframe_handle = s.link_memb[c].slotframe_handle
         /\ mb[c].timeslot = s.link_memb[c].timeslot
    <2> HIDE DEF mb
    <2> QED BY <1>9, <1>10 DEF LinkCells
  <1> HIDE DEF sfl, mb, q
  <1>12. r.slotframe_list = sfl /\ r.link_memb = mb /\ r.nbr = s.nbr /\ r \in Schedules
    BY <1>1, <1>5, <1>6, <1>7, <1>10 DEF Schedules
  <1> HIDE DEF r
  <1>13. \A d \in Cells : /\ d # c => r.link_memb[d] = s.link_memb[d]
                          /\ r.link_memb[d].link_options = s.link_memb[d].link_options
                          /\ r.link_memb[d].addr = s.link_memb[d].addr
                          /\ r.link_memb[d].slotframe_handle = s.link_memb[d].slotframe_handle
                          /\ r.link_memb[d].timeslot = s.link_memb[d].timeslot
    BY <1>10, <1>11, <1>12
  <1>14. \A j \in 1 .. Len(s.slotframe_list) :
                     /\ r.slotframe_list[j].handle = s.slotframe_list[j].handle
                     /\ r.slotframe_list[j].size = s.slotframe_list[j].size
                     /\ j # i => r.slotframe_list[j] = s.slotframe_list[j]
    BY <1>7, <1>8, <1>12
  <1>15. Len(r.slotframe_list) = Len(s.slotframe_list) /\ r.slotframe_list[i].links_list = RemoveAt(q, k)
         /\ ~r.link_memb[c].used
    BY <1>7, <1>8, <1>11, <1>12
  <1> QED BY <1>12, <1>13, <1>14, <1>15 DEF LinkFreed, q, r

\* The schedule stays sound and loses this link only
LEMMA FreeLinkSound ==
    ASSUME NEW s, Sound(s), NEW c, NEW i, NEW k, At(s, c, i, k)
    PROVE  Sound(FreeLink(s, c)) /\ Scheduled(FreeLink(s, c)) = Scheduled(s) \ {c}
  <1> DEFINE r == FreeLink(s, c)
             q == s.slotframe_list[i].links_list
             L(f, j) == f.slotframe_list[j].links_list
  <1>1. /\ c \in Cells /\ c \in Scheduled(s) /\ i \in 1 .. Len(s.slotframe_list)
        /\ \A j, m : At(s, c, j, m) => j = i /\ m = k
    BY LinkPlace
  <1>2. /\ s \in Schedules /\ WellFormed(s) /\ q \in Seq(Cells) /\ Len(q) \in Nat
        /\ k \in 1 .. Len(q) /\ \A j \in 1 .. Len(s.slotframe_list) : L(s, j) \in Seq(Cells)
    BY <1>1, ScheduleFields DEF Sound, At
  <1>3. r \in Schedules /\ LinkFreed(r, s, c, i, k)
    BY FreeLinkFields
  <1> HIDE DEF r
  <1>4. /\ r \in Schedules
        /\ Len(r.slotframe_list) = Len(s.slotframe_list)
        /\ \A j \in 1 .. Len(s.slotframe_list) :
              /\ r.slotframe_list[j].handle = s.slotframe_list[j].handle
              /\ r.slotframe_list[j].size = s.slotframe_list[j].size
              /\ j # i => r.slotframe_list[j] = s.slotframe_list[j]
        /\ L(r, i) = RemoveAt(q, k)
        /\ \A d \in Cells : /\ d # c => r.link_memb[d] = s.link_memb[d]
                            /\ r.link_memb[d].slotframe_handle = s.link_memb[d].slotframe_handle
                            /\ r.link_memb[d].timeslot = s.link_memb[d].timeslot
        /\ ~r.link_memb[c].used
    BY <1>3 DEF LinkFreed
  <1>5. /\ Len(L(r, i)) = Len(q) - 1
        /\ \A m \in 1 .. Len(q) - 1 : L(r, i)[m] = IF m < k THEN q[m] ELSE q[m + 1]
    <2>1. /\ Len(RemoveAt(q, k)) = Len(q) - 1
          /\ \A m \in 1 .. Len(q) - 1 : RemoveAt(q, k)[m] = IF m < k THEN q[m] ELSE q[m + 1]
      <3> HIDE DEF q
      <3> QED BY <1>2, Removed
    <2> HIDE DEF q, L
    <2> QED BY <1>4, <2>1
  <1>6. \A j \in 1 .. Len(s.slotframe_list) : \A m \in 1 .. Len(L(s, j)) :
            L(s, j)[m] = c => j = i /\ m = k
    BY <1>1 DEF At
  \* Every place in the new lists is a place in the old ones, and the order is kept
  <1> DEFINE old(j, m) == IF j # i \/ m < k THEN m ELSE m + 1
  <1>7. ASSUME NEW j \in 1 .. Len(s.slotframe_list), NEW m \in 1 .. Len(L(r, j))
        PROVE  old(j, m) \in 1 .. Len(L(s, j)) /\ L(r, j)[m] = L(s, j)[old(j, m)]
               /\ L(r, j)[m] # c /\ L(r, j)[m] \in Cells
    <2>1. CASE j = i
      <3>0. m \in 1 .. Len(q) - 1
        BY <1>5, <2>1
      <3>1. m \in 1 .. Len(q) - 1 /\ old(j, m) \in 1 .. Len(q) /\ old(j, m) # k
        <4> HIDE DEF q
        <4> QED BY <1>2, <2>1, <3>0
      <3>2. L(r, j)[m] = q[old(j, m)]
        BY <1>5, <2>1, <3>1
      <3>3. q[old(j, m)] \in Cells /\ q[old(j, m)] # c
        BY <1>2, <1>1, <1>6, <3>1
      <3> QED BY <2>1, <3>1, <3>2, <3>3
    <2>2. CASE j # i
      <3>1. L(r, j) = L(s, j) /\ L(s, j) \in Seq(Cells)
        BY <1>2, <1>4, <2>2
      <3> QED BY <1>6, <2>2, <3>1
    <2> QED BY <2>1, <2>2
  <1>8. ASSUME NEW j \in 1 .. Len(s.slotframe_list), NEW m \in 1 .. Len(L(s, j)), L(s, j)[m] # c
        PROVE  \E n \in 1 .. Len(L(r, j)) : L(r, j)[n] = L(s, j)[m]
    <2>1. CASE j = i /\ m < k
      <3>1. m \in 1 .. Len(q) /\ L(s, j) = q
        BY <2>1
      <3>2. m \in 1 .. Len(q) - 1
        <4> HIDE DEF q
        <4> QED BY <1>2, <2>1, <3>1
      <3>3. L(r, j)[m] = q[m] /\ Len(L(r, j)) = Len(q) - 1
        BY <1>5, <2>1, <3>2
      <3> QED BY <3>1, <3>2, <3>3
    <2>2. CASE j = i /\ ~(m < k)
      <3>1. m # k /\ m - 1 \in 1 .. Len(q) - 1 /\ ~(m - 1 < k) /\ (m - 1) + 1 = m
        <4>1. m \in 1 .. Len(q) /\ m # k
          BY <1>8, <2>2 DEF At
        <4> HIDE DEF q
        <4> QED BY <1>2, <2>2, <4>1
      <3>2. L(r, j)[m - 1] = q[m]
        BY <1>5, <2>2, <3>1
      <3> QED BY <1>5, <2>2, <3>1, <3>2
    <2>3. CASE j # i
      BY <1>4, <2>3
    <2> QED BY <2>1, <2>2, <2>3
  <1>9. Scheduled(r) = Scheduled(s) \ {c}
    <2>1. \A d : d \in Scheduled(s) <=> \E j \in 1 .. Len(s.slotframe_list) :
                     \E m \in 1 .. Len(L(s, j)) : L(s, j)[m] = d
      BY <1>2, ScheduledIn
    <2>2. \A d : d \in Scheduled(r) <=> \E j \in 1 .. Len(s.slotframe_list) :
                     \E m \in 1 .. Len(L(r, j)) : L(r, j)[m] = d
      <3> HIDE DEF L
      <3>1. \A d : d \in Scheduled(r) <=> \E j \in 1 .. Len(r.slotframe_list) :
                       \E m \in 1 .. Len(L(r, j)) : L(r, j)[m] = d
        BY <1>4, ScheduledIn DEF L
      <3> QED BY <1>4, <3>1
    <2> HIDE DEF L, old
    <2>3. ASSUME NEW d \in Scheduled(r) PROVE d \in Scheduled(s) /\ d # c
      BY <1>7, <2>1, <2>2
    <2>4. ASSUME NEW d \in Scheduled(s), d # c PROVE d \in Scheduled(r)
      BY <1>8, <2>1, <2>2, <2>4
    <2> QED BY <2>3, <2>4
  <1>10. WellFormed(r)
    <2> DEFINE mb == r.link_memb
    <2>1. \A j, n \in 1 .. Len(r.slotframe_list) :
             r.slotframe_list[j].handle = r.slotframe_list[n].handle => j = n
      BY <1>2, <1>4 DEF WellFormed, FrameWellFormed
    <2>2. ASSUME NEW j \in 1 .. Len(s.slotframe_list), NEW m \in 1 .. Len(L(r, j))
          PROVE  /\ mb[L(r, j)[m]].slotframe_handle = r.slotframe_list[j].handle
                 /\ mb[L(r, j)[m]].timeslot < r.slotframe_list[j].size
                 /\ mb[L(r, j)[m]].timeslot = s.link_memb[L(s, j)[old(j, m)]].timeslot
      <3>1. old(j, m) \in 1 .. Len(L(s, j)) /\ L(r, j)[m] = L(s, j)[old(j, m)] /\ L(r, j)[m] \in Cells
        BY <1>7
      <3> HIDE DEF old
      <3>2. /\ s.link_memb[L(s, j)[old(j, m)]].slotframe_handle = s.slotframe_list[j].handle
            /\ s.link_memb[L(s, j)[old(j, m)]].timeslot < s.slotframe_list[j].size
        BY <1>2, <3>1 DEF WellFormed, FrameWellFormed
      <3> QED BY <1>4, <3>1, <3>2
    <2>3. ASSUME NEW j \in 1 .. Len(s.slotframe_list), NEW m \in 1 .. Len(L(r, j)),
                 NEW n \in 1 .. Len(L(r, j)),
                 mb[L(r, j)[m]].timeslot = mb[L(r, j)[n]].timeslot
          PROVE  m = n
      <3>1. s.link_memb[L(s, j)[old(j, m)]].timeslot = s.link_memb[L(s, j)[old(j, n)]].timeslot
        BY <2>2, <2>3
      <3>2. old(j, m) \in 1 .. Len(L(s, j)) /\ old(j, n) \in 1 .. Len(L(s, j))
        BY <1>7
      <3>3. \A x, y \in 1 .. Len(L(s, j)) :
                 s.link_memb[L(s, j)[x]].timeslot = s.link_memb[L(s, j)[y]].timeslot => x = y
        BY <1>2 DEF WellFormed, FrameWellFormed
      <3>4. old(j, m) = old(j, n)
        <4> HIDE DEF old
        <4> QED BY <3>1, <3>2, <3>3
      <3> QED BY <1>2, <1>1, <3>4
    <2>4. Scheduled(r) = {d \in Cells : mb[d].used}
      <3>1. Scheduled(s) = {d \in Cells : s.link_memb[d].used}
        BY <1>2 DEF WellFormed, FrameWellFormed
      <3> QED BY <1>4, <1>1, <1>9, <3>1
    <2> QED BY <1>4, <2>1, <2>2, <2>3, <2>4 DEF WellFormed, FrameWellFormed
  <1> QED BY <1>3, <1>9, <1>10 DEF Sound, r

-----------------------------------------------------------------------------
(* The operations on neighbors leave lists and pool alone *)

SameLists(r, s) == r.slotframe_list = s.slotframe_list /\ r.link_memb = s.link_memb

\* Soundness is about the lists and the pool only
LEMMA SoundLists ==
    ASSUME NEW s, Sound(s), NEW r \in Schedules, SameLists(r, s)
    PROVE  Sound(r) /\ Scheduled(r) = Scheduled(s)
  <1>1. Scheduled(r) = Scheduled(s)
    BY DEF Scheduled, SameLists
  <1>2. WellFormed(r)
    BY <1>1 DEF WellFormed, Sound, SameLists
  <1> QED BY <1>1, <1>2 DEF Sound

\* A change of the neighbors keeps a schedule sound
LEMMA NbrUpdated ==
    ASSUME NEW s, Sound(s), NEW f \in [Addrs -> Neighbors]
    PROVE  LET r == [s EXCEPT !.nbr = f]
           IN  r.nbr = f /\ SameLists(r, s) /\ Sound(r) /\ Scheduled(r) = Scheduled(s)
  <1> DEFINE r == [s EXCEPT !.nbr = f]
  <1>1. r.nbr = f /\ SameLists(r, s) /\ r \in Schedules
    BY DEF Sound, Schedules, SameLists
  <1> HIDE DEF r
  <1>2. Sound(r) /\ Scheduled(r) = Scheduled(s)
    BY <1>1, SoundLists
  <1> QED BY <1>1, <1>2 DEF r

\* The neighbor a of r is n, all others are as in s
NbrSet(r, s, a, n) == r.nbr[a] = n /\ \A b \in Addrs \ {a} : r.nbr[b] = s.nbr[b]

Counter == 0 .. CounterSize - 1

\* The fields of a neighbor have their types
LEMMA NbrFields ==
    ASSUME NEW s, Sound(s), NEW a \in Addrs
    PROVE  /\ s.nbr \in [Addrs -> Neighbors] /\ s.nbr[a] \in Neighbors
           /\ s.nbr[a].present \in BOOLEAN
           /\ s.nbr[a].tx_links_count \in Counter /\ s.nbr[a].dedicated \in Counter
  <1>1. s.nbr \in [Addrs -> Neighbors]
    BY ScheduleFields DEF Sound
  <1>2. s.nbr[a] \in Neighbors
    BY <1>1
  <1> QED BY <1>1, <1>2 DEF Neighbors, Counter

\* tsch_queue_add_nbr gives a new neighbor counters of zero
LEMMA NbrAdded ==
    ASSUME NEW s, Sound(s), NEW a \in Addrs
    PROVE  LET r == tsch_queue_add_nbr(s, a)
           IN  /\ Sound(r) /\ SameLists(r, s) /\ Scheduled(r) = Scheduled(s)
               /\ \/ r = s /\ (s.nbr[a].present \/
                               Cardinality({b \in Addrs : s.nbr[b].present}) = MaxNbrs)
                  \/ ~s.nbr[a].present /\ NbrSet(r, s, a, [present |-> TRUE, tx_links_count |-> 0,
                                                           dedicated |-> 0])
  <1> DEFINE n == [present |-> TRUE, tx_links_count |-> 0, dedicated |-> 0]
             f == [s.nbr EXCEPT ![a] = n]
  <1>1. n \in Neighbors /\ s.nbr \in [Addrs -> Neighbors]
    BY NbrFields DEF Neighbors, CounterSize
  <1>2. f \in [Addrs -> Neighbors] /\ f[a] = n /\ \A b \in Addrs \ {a} : f[b] = s.nbr[b]
    <2> HIDE DEF n
    <2> QED BY <1>1
  <1>3. CASE s.nbr[a].present \/ Cardinality({b \in Addrs : s.nbr[b].present}) = MaxNbrs
    BY <1>3 DEF tsch_queue_add_nbr, SameLists
  <1>4. CASE ~(s.nbr[a].present \/ Cardinality({b \in Addrs : s.nbr[b].present}) = MaxNbrs)
    <2> DEFINE r == [s EXCEPT !.nbr = f]
    <2>1. tsch_queue_add_nbr(s, a) = r
      BY <1>4 DEF tsch_queue_add_nbr
    <2> HIDE DEF f
    <2>2. r.nbr = f /\ SameLists(r, s) /\ Sound(r) /\ Scheduled(r) = Scheduled(s)
      BY <1>2, NbrUpdated
    <2> HIDE DEF r, n
    <2>3. NbrSet(r, s, a, n)
      BY <1>2, <2>2 DEF NbrSet
    <2> QED BY <1>4, <2>1, <2>2, <2>3 DEF n
  <1> QED BY <1>3, <1>4

\* Freeing a neighbor changes no other
LEMMA NbrFreed ==
    ASSUME NEW s, Sound(s), NEW a \in Addrs
    PROVE  LET r == FreeNbr(s, a)
           IN  /\ Sound(r) /\ SameLists(r, s) /\ Scheduled(r) = Scheduled(s)
               /\ NbrSet(r, s, a, [s.nbr[a] EXCEPT !.present = FALSE])
  <1> DEFINE n == [s.nbr[a] EXCEPT !.present = FALSE]
             f == [s.nbr EXCEPT ![a] = n]
             r == [s EXCEPT !.nbr = f]
  <1>1. n \in Neighbors /\ s.nbr \in [Addrs -> Neighbors]
    BY NbrFields DEF Neighbors
  <1>2. FreeNbr(s, a) = r
    BY DEF FreeNbr
  <1> HIDE DEF n
  <1>3. f \in [Addrs -> Neighbors] /\ f[a] = n /\ \A b \in Addrs \ {a} : f[b] = s.nbr[b]
    BY <1>1
  <1> HIDE DEF f
  <1>4. r.nbr = f /\ SameLists(r, s) /\ Sound(r) /\ Scheduled(r) = Scheduled(s)
    BY <1>3, NbrUpdated
  <1> HIDE DEF r
  <1>5. NbrSet(r, s, a, n)
    BY <1>3, <1>4 DEF NbrSet
  <1> QED BY <1>2, <1>4, <1>5 DEF n

Counted(n, o, d) ==
    [n EXCEPT !.tx_links_count = (n.tx_links_count + d) % CounterSize,
              !.dedicated = IF "shared" \in o THEN n.dedicated
                            ELSE (n.dedicated + d) % CounterSize]

\* A change of the counters changes those of one neighbor
LEMMA CountsUpdated ==
    ASSUME NEW s, Sound(s), NEW a \in Addrs, NEW o, NEW d \in Int
    PROVE  LET r == UpdateCounts(s, a, o, d)
           IN  /\ Sound(r) /\ SameLists(r, s) /\ Scheduled(r) = Scheduled(s)
               /\ \/ r = s /\ (~s.nbr[a].present \/ "tx" \notin o)
                  \/ s.nbr[a].present /\ "tx" \in o /\ NbrSet(r, s, a, Counted(s.nbr[a], o, d))
  <1> DEFINE n == Counted(s.nbr[a], o, d)
             f == [s.nbr EXCEPT ![a] = n]
             r == [s EXCEPT !.nbr = f]
  <1>1. s.nbr \in [Addrs -> Neighbors] /\ s.nbr[a] \in Neighbors
        /\ s.nbr[a].tx_links_count \in Counter /\ s.nbr[a].dedicated \in Counter
    BY NbrFields
  <1>2. \A v \in Counter : (v + d) % CounterSize \in Counter
    BY DEF Counter, CounterSize
  <1>3. n \in Neighbors
    BY <1>1, <1>2 DEF Counted, Neighbors, Counter
  <1>4. CASE ~s.nbr[a].present \/ "tx" \notin o
    BY <1>4 DEF UpdateCounts, SameLists
  <1>5. CASE ~(~s.nbr[a].present \/ "tx" \notin o)
    <2>1. UpdateCounts(s, a, o, d) = r
      <3>1. [s.nbr EXCEPT ![a] = n] = [s.nbr EXCEPT
               ![a].tx_links_count = (@ + d) % CounterSize,
               ![a].dedicated = IF "shared" \in o THEN @ ELSE (@ + d) % CounterSize]
        BY <1>1 DEF Counted, Neighbors
      <3> QED BY <1>5, <3>1 DEF UpdateCounts
    <2> HIDE DEF n
    <2>2. f \in [Addrs -> Neighbors] /\ f[a] = n /\ \A b \in Addrs \ {a} : f[b] = s.nbr[b]
      BY <1>1, <1>3
    <2> HIDE DEF f
    <2>3. r.nbr = f /\ SameLists(r, s) /\ Sound(r) /\ Scheduled(r) = Scheduled(s)
      BY <2>2, NbrUpdated
    <2> HIDE DEF r
    <2>4. NbrSet(r, s, a, n)
      BY <2>2, <2>3 DEF NbrSet
    <2> QED BY <1>5, <2>1, <2>3, <2>4 DEF n
  <1> QED BY <1>4, <1>5

-----------------------------------------------------------------------------
(* Slotframes come and go *)

\* A slotframe with a new handle is added without links
LEMMA SlotframeAdded ==
    ASSUME NEW s, Sound(s), NEW h \in Handles, NEW size \in Sizes \ {0}, ~HasSlotframe(s, h)
    PROVE  LET r == AllocSlotframe(s, h, size)
           IN  /\ Sound(r) /\ Scheduled(r) = Scheduled(s)
               /\ r.link_memb = s.link_memb /\ r.nbr = s.nbr
  <1> DEFINE sfl == s.slotframe_list
             new == [handle |-> h, size |-> size, links_list |-> << >>]
             all == Append(sfl, new)
             r == [s EXCEPT !.slotframe_list = all]
  <1>1. s \in Schedules /\ WellFormed(s) /\ sfl \in Seq(Slotframes) /\ Len(sfl) \in Nat
        /\ Len(sfl) <= MaxSlotframes /\ MaxSlotframes \in Nat
    BY ScheduleFields, Constants DEF Sound
  <1>2. CASE Len(sfl) = MaxSlotframes
    BY <1>2 DEF AllocSlotframe
  <1>3. CASE Len(sfl) # MaxSlotframes
    <2>1. AllocSlotframe(s, h, size) = r
      BY <1>3 DEF AllocSlotframe
    <2>2. new \in Slotframes /\ new.handle = h /\ new.links_list = << >> /\ Len(new.links_list) = 0
      BY DEF Slotframes
    <2> HIDE DEF new
    <2>3. /\ all \in Seq(Slotframes) /\ Len(all) = Len(sfl) + 1
          /\ all[Len(sfl) + 1] = new /\ \A j \in 1 .. Len(sfl) : all[j] = sfl[j]
      <3> HIDE DEF sfl
      <3> QED BY <1>1, <2>2
    <2> HIDE DEF all
    <2>4. /\ r.slotframe_list = all /\ r.link_memb = s.link_memb /\ r.nbr = s.nbr /\ r \in Schedules
      BY <1>1, <1>3, <2>3 DEF Schedules
    <2> HIDE DEF r
    <2>5. \A j \in 1 .. Len(sfl) : sfl[j].handle # h
      BY <1>1, Position DEF HasSlotframe
    <2>6. \A j \in 1 .. Len(all) : j \in 1 .. Len(sfl) \/ j = Len(sfl) + 1
      BY <1>1, <2>3
    <2>7. Scheduled(r) = Scheduled(s)
      <3>1. \A c : c \in Scheduled(r) <=> \E j \in 1 .. Len(all) :
                       \E k \in 1 .. Len(all[j].links_list) : all[j].links_list[k] = c
        <4>1. \A c : c \in Scheduled(r) <=> \E j \in 1 .. Len(r.slotframe_list) :
                       \E k \in 1 .. Len(r.slotframe_list[j].links_list) :
                           r.slotframe_list[j].links_list[k] = c
          BY <2>4, ScheduledIn
        <4> QED BY <2>4, <4>1
      <3>2. \A c : c \in Scheduled(s) <=> \E j \in 1 .. Len(sfl) :
                       \E k \in 1 .. Len(sfl[j].links_list) : sfl[j].links_list[k] = c
        BY <1>1, ScheduledIn
      <3>3. \A j \in 1 .. Len(sfl) : j \in 1 .. Len(all)
        BY <1>1, <2>3
      <3> HIDE DEF sfl
      <3>4. ASSUME NEW c \in Scheduled(r) PROVE c \in Scheduled(s)
        <4>1. PICK j \in 1 .. Len(all) : \E k \in 1 .. Len(all[j].links_list) : all[j].links_list[k] = c
          BY <3>1
        <4>2. j \in 1 .. Len(sfl)
          <5>1. j # Len(sfl) + 1
            BY <2>2, <2>3, <4>1
          <5> QED BY <2>6, <5>1
        <4> QED BY <2>3, <3>2, <4>1, <4>2
      <3>5. ASSUME NEW c \in Scheduled(s) PROVE c \in Scheduled(r)
        BY <2>3, <3>1, <3>2, <3>3
      <3> QED BY <3>4, <3>5
    <2>8. WellFormed(r)
      <3>1. ASSUME NEW i \in 1 .. Len(all), NEW j \in 1 .. Len(all), all[i].handle = all[j].handle
            PROVE  i = j
        <4>1. \A m, n \in 1 .. Len(sfl) : sfl[m].handle = sfl[n].handle => m = n
          BY <1>1 DEF WellFormed
        <4> HIDE DEF sfl
        <4> QED BY <2>2, <2>3, <2>5, <2>6, <3>1, <4>1
      <3>2. ASSUME NEW i \in 1 .. Len(all)
            PROVE  FrameWellFormed(all[i], r.link_memb)
        <4>1. CASE i \in 1 .. Len(sfl)
          BY <1>1, <2>3, <2>4, <4>1 DEF WellFormed
        <4>2. CASE i = Len(sfl) + 1
          <5>1. Len(all[i].links_list) = 0
            BY <2>2, <2>3, <4>2
          <5> QED BY <5>1 DEF FrameWellFormed
        <4> QED BY <2>6, <4>1, <4>2
      <3>3. Scheduled(r) = {c \in Cells : r.link_memb[c].used}
        BY <1>1, <2>4, <2>7 DEF WellFormed
      <3> QED BY <2>4, <3>1, <3>2, <3>3 DEF WellFormed
    <2> QED BY <2>1, <2>4, <2>7, <2>8 DEF Sound
  <1> QED BY <1>2, <1>3

\* A slotframe without links is taken from the list
LEMMA SlotframeFreed ==
    ASSUME NEW s, Sound(s), NEW i \in 1 .. Len(s.slotframe_list),
           Len(s.slotframe_list[i].links_list) = 0
    PROVE  LET r == FreeSlotframe(s, s.slotframe_list[i].handle)
           IN  /\ Sound(r) /\ Scheduled(r) = Scheduled(s)
               /\ r.link_memb = s.link_memb /\ r.nbr = s.nbr
               /\ Len(r.slotframe_list) = Len(s.slotframe_list) - 1
  <1> DEFINE sfl == s.slotframe_list
             all == RemoveAt(sfl, i)
             r == [s EXCEPT !.slotframe_list = all]
             old(j) == IF j < i THEN j ELSE j + 1
  <1>1. s \in Schedules /\ WellFormed(s) /\ sfl \in Seq(Slotframes) /\ Len(sfl) \in Nat
        /\ Len(sfl) <= MaxSlotframes /\ MaxSlotframes \in Nat
    BY ScheduleFields, Constants DEF Sound
  <1>2. FreeSlotframe(s, sfl[i].handle) = r
    BY PositionOf DEF FreeSlotframe
  <1>3. /\ all \in Seq(Slotframes) /\ Len(all) = Len(sfl) - 1
        /\ \A j \in 1 .. Len(all) : all[j] = IF j < i THEN sfl[j] ELSE sfl[j + 1]
    <2>1. i \in 1 .. Len(sfl)
      OBVIOUS
    <2> HIDE DEF sfl
    <2> QED BY <1>1, <2>1, Removed
  <1> HIDE DEF all
  <1>4. /\ r.slotframe_list = all /\ r.link_memb = s.link_memb /\ r.nbr = s.nbr /\ r \in Schedules
    BY <1>1, <1>3 DEF Schedules
  <1> HIDE DEF r
  <1>5. \A j \in 1 .. Len(all) : old(j) \in 1 .. Len(sfl) /\ old(j) # i /\ all[j] = sfl[old(j)]
    <2> HIDE DEF sfl
    <2> QED BY <1>1, <1>3 DEF sfl
  <1>6. \A j, m \in 1 .. Len(all) : old(j) = old(m) => j = m
    BY <1>1, <1>3
  <1>7. \A n \in 1 .. Len(sfl) : n # i => \E j \in 1 .. Len(all) : old(j) = n
    <2>1. ASSUME NEW n \in 1 .. Len(sfl), n # i PROVE \E j \in 1 .. Len(all) : old(j) = n
      <3> DEFINE j == IF n < i THEN n ELSE n - 1
      <3>1. j \in 1 .. Len(all) /\ old(j) = n
        <4> HIDE DEF sfl
        <4> QED BY <1>1, <1>3, <2>1 DEF sfl
      <3> QED BY <3>1
    <2> QED BY <2>1
  <1> HIDE DEF old
  <1>8. Scheduled(r) = Scheduled(s)
    <2>1. \A c : c \in Scheduled(r) <=> \E j \in 1 .. Len(all) :
                     \E k \in 1 .. Len(all[j].links_list) : all[j].links_list[k] = c
      <3>1. \A c : c \in Scheduled(r) <=> \E j \in 1 .. Len(r.slotframe_list) :
                     \E k \in 1 .. Len(r.slotframe_list[j].links_list) :
                         r.slotframe_list[j].links_list[k] = c
        BY <1>4, ScheduledIn
      <3> QED BY <1>4, <3>1
    <2>2. \A c : c \in Scheduled(s) <=> \E j \in 1 .. Len(sfl) :
                     \E k \in 1 .. Len(sfl[j].links_list) : sfl[j].links_list[k] = c
      BY <1>1, ScheduledIn
    <2>3. \A k : k \notin 1 .. Len(sfl[i].links_list)
      OBVIOUS
    <2> HIDE DEF sfl
    <2>4. ASSUME NEW c \in Scheduled(r) PROVE c \in Scheduled(s)
      <3>1. PICK j \in 1 .. Len(all) : \E k \in 1 .. Len(all[j].links_list) : all[j].links_list[k] = c
        BY <2>1
      <3>2. old(j) \in 1 .. Len(sfl) /\ all[j] = sfl[old(j)]
        BY <1>5
      <3> QED BY <2>2, <3>1, <3>2
    <2>5. ASSUME NEW c \in Scheduled(s) PROVE c \in Scheduled(r)
      <3>1. PICK n \in 1 .. Len(sfl) : \E k \in 1 .. Len(sfl[n].links_list) : sfl[n].links_list[k] = c
        BY <2>2
      <3>2. PICK j \in 1 .. Len(all) : old(j) = n
        BY <1>7, <2>3, <3>1
      <3> QED BY <1>5, <2>1, <3>1, <3>2
    <2> QED BY <2>4, <2>5
  <1>9. WellFormed(r)
    <2>1. ASSUME NEW j \in 1 .. Len(all), NEW m \in 1 .. Len(all), all[j].handle = all[m].handle
          PROVE  j = m
      <3>1. \A x, y \in 1 .. Len(sfl) : sfl[x].handle = sfl[y].handle => x = y
        BY <1>1 DEF WellFormed
      <3> HIDE DEF sfl
      <3> QED BY <1>5, <1>6, <2>1, <3>1
    <2>2. ASSUME NEW j \in 1 .. Len(all)
          PROVE  FrameWellFormed(all[j], r.link_memb)
      <3>1. old(j) \in 1 .. Len(sfl) /\ all[j] = sfl[old(j)]
        BY <1>5
      <3> QED BY <1>1, <1>4, <3>1 DEF WellFormed
    <2>3. Scheduled(r) = {c \in Cells : r.link_memb[c].used}
      BY <1>1, <1>4, <1>8 DEF WellFormed
    <2> QED BY <1>4, <2>1, <2>2, <2>3 DEF WellFormed
  <1> QED BY <1>2, <1>3, <1>4, <1>8, <1>9 DEF Sound

-----------------------------------------------------------------------------
(* Links come *)

\* The slotframe with this handle is the i-th
HandleAt(s, h, i) == i \in 1 .. Len(s.slotframe_list) /\ s.slotframe_list[i].handle = h

\* The link found at a timeslot is in the slotframe's list, and if none is
\* found there is none
LEMMA LinkAtTimeslot ==
    ASSUME NEW s, Sound(s), NEW h, NEW i, HandleAt(s, h, i), NEW t
    PROVE  LET c == tsch_schedule_get_link_by_timeslot(s, h, t)
               links == s.slotframe_list[i].links_list
           IN  /\ c = NoLink => \A k \in 1 .. Len(links) : s.link_memb[links[k]].timeslot # t
               /\ c # NoLink => \E k : At(s, c, i, k)
               /\ c # NoLink => c \in Cells /\ s.link_memb[c].timeslot = t
  <1> DEFINE links == s.slotframe_list[i].links_list
             K == {k \in 1 .. Len(links) : s.link_memb[links[k]].timeslot = t}
             k == SelectInSeq(links, LAMBDA d : s.link_memb[d].timeslot = t)
             c == tsch_schedule_get_link_by_timeslot(s, h, t)
  <1>0. i \in 1 .. Len(s.slotframe_list) /\ s.slotframe_list[i].handle = h
    BY DEF HandleAt
  <1>1. links \in Seq(Cells) /\ NoLink \notin Cells
    BY <1>0, ScheduleFields, Constants DEF Sound
  <1>2. Slotframe(s, h) = s.slotframe_list[i]
    BY <1>0, PositionOf
  <1>3. c = IF k = 0 THEN NoLink ELSE links[k]
    BY <1>2 DEF tsch_schedule_get_link_by_timeslot
  <1>4. k = IF K # {} THEN Min(K) ELSE 0
    BY DEF SelectInSeq
  <1>5. K \in SUBSET Nat /\ 0 \notin K
    <2> HIDE DEF links
    <2> QED OBVIOUS
  <1>6. K # {} => Min(K) \in K
    <2> HIDE DEF K
    <2> QED BY <1>5, LeastNumber
  <1> HIDE DEF k, c
  <1>7. CASE K = {}
    <2>1. c = NoLink
      BY <1>3, <1>4, <1>7
    <2> QED BY <1>7, <2>1 DEF c
  <1>8. CASE K # {}
    <2>1. k \in K /\ k # 0
      BY <1>4, <1>5, <1>6, <1>8
    <2>2. c = links[k] /\ k \in 1 .. Len(links) /\ s.link_memb[links[k]].timeslot = t
      BY <1>3, <2>1
    <2>3. c \in Cells
      <3> HIDE DEF links
      <3> QED BY <1>1, <2>2
    <2>4. At(s, c, i, k)
      BY <1>0, <2>2 DEF At
    <2> QED BY <1>1, <2>2, <2>3, <2>4 DEF c
  <1> QED BY <1>7, <1>8

\* The link c was added to the i-th slotframe
LinkAdded(r, s, c, i, kind, t) ==
    /\ r.nbr = s.nbr /\ Scheduled(r) = Scheduled(s) \cup {c}
    /\ c \in Cells /\ c \notin Scheduled(s)
    /\ \A d \in Cells \ {c} : r.link_memb[d] = s.link_memb[d]
    /\ r.link_memb[c] = [used |-> TRUE, link_options |-> kind.link_options, addr |-> kind.addr,
                         slotframe_handle |-> s.slotframe_list[i].handle, timeslot |-> t]

\* A link at a timeslot that is free goes into the first free cell
LEMMA LinkAllocated ==
    ASSUME NEW s, Sound(s), NEW i \in 1 .. Len(s.slotframe_list), NEW kind,
           kind.link_options \in Options, kind.addr \in Addrs,
           NEW t \in Nat, t < s.slotframe_list[i].size,
           \A k \in 1 .. Len(s.slotframe_list[i].links_list) :
               s.link_memb[s.slotframe_list[i].links_list[k]].timeslot # t
    PROVE  LET r == AllocLink(s, s.slotframe_list[i].handle, kind, t)
               c == memb_alloc(s)
           IN  Sound(r) /\ IF c = NoLink THEN r = s ELSE LinkAdded(r, s, c, i, kind, t)
  <1> DEFINE sfl == s.slotframe_list
             free == {d \in Cells : ~s.link_memb[d].used}
             c == memb_alloc(s)
             q == sfl[i].links_list
             links == Append(q, c)
             cell == [used |-> TRUE, link_options |-> kind.link_options, addr |-> kind.addr,
                      slotframe_handle |-> sfl[i].handle, timeslot |-> t]
             all == [sfl EXCEPT ![i] = [@ EXCEPT !.links_list = links]]
             mb == [s.link_memb EXCEPT ![c] = cell]
             r == [s EXCEPT !.slotframe_list = all, !.link_memb = mb]
  <1>1. s \in Schedules /\ WellFormed(s) /\ sfl \in Seq(Slotframes) /\ Len(sfl) \in Nat
        /\ s.link_memb \in [Cells -> LinkCells] /\ s.nbr \in [Addrs -> Neighbors]
        /\ sfl[i] \in Slotframes /\ q \in Seq(Cells) /\ Len(q) \in Nat
        /\ sfl[i].handle \in Nat /\ Len(sfl) <= MaxSlotframes
    BY ScheduleFields DEF Sound
  <1>2. tsch_schedule_get_slotframe_by_handle(s, sfl[i].handle) = i
    BY PositionOf
  <1>3. CASE c = NoLink
    BY <1>3 DEF AllocLink
  <1>4. CASE c # NoLink
    <2>1. c \in free
      <3>1. free # {} /\ c = Min(free)
        BY <1>4 DEF memb_alloc
      <3>2. free \in SUBSET Nat
        BY Constants
      <3> HIDE DEF c, free
      <3> QED BY <3>1, <3>2, LeastNumber
    <2>2. c \in Cells /\ ~s.link_memb[c].used
      BY <2>1
    <2>3. AllocLink(s, sfl[i].handle, kind, t) = r
      <3> HIDE DEF c
      <3> QED BY <1>2, <1>4 DEF AllocLink, c
    <2> HIDE DEF free, c
    <2>4. links \in Seq(Cells) /\ Len(links) = Len(q) + 1
          /\ links[Len(q) + 1] = c /\ \A k \in 1 .. Len(q) : links[k] = q[k]
      <3> HIDE DEF q
      <3> QED BY <1>1, <2>2
    <2>5. cell \in LinkCells /\ cell.slotframe_handle = sfl[i].handle /\ cell.timeslot = t /\ cell.used
      BY <1>1 DEF LinkCells
    <2> HIDE DEF cell
    <2>6. mb \in [Cells -> LinkCells] /\ mb[c] = cell /\ \A d \in Cells \ {c} : mb[d] = s.link_memb[d]
      BY <1>1, <2>2, <2>5
    <2> HIDE DEF links, mb
    <2>7. [sfl[i] EXCEPT !.links_list = links] \in Slotframes
      BY <1>1, <2>4 DEF Slotframes
    <2>8. all \in Seq(Slotframes) /\ Len(all) = Len(sfl)
          /\ all[i] = [sfl[i] EXCEPT !.links_list = links]
          /\ \A j \in 1 .. Len(sfl) : j # i => all[j] = sfl[j]
      BY <1>1, <2>7
    <2> HIDE DEF all
    <2>9. all[i].links_list = links /\ all[i].handle = sfl[i].handle /\ all[i].size = sfl[i].size
      BY <1>1, <2>8 DEF Slotframes
    <2>10. r.slotframe_list = all /\ r.link_memb = mb /\ r.nbr = s.nbr /\ r \in Schedules
      BY <1>1, <2>6, <2>8 DEF Schedules
    <2> HIDE DEF r
    <2>11. c \notin Scheduled(s) /\ Scheduled(s) = {d \in Cells : s.link_memb[d].used}
      BY <1>1, <2>2 DEF WellFormed
    <2>12. \A d : d \in Scheduled(s) <=> \E j \in 1 .. Len(sfl) :
                     \E k \in 1 .. Len(sfl[j].links_list) : sfl[j].links_list[k] = d
      BY <1>1, ScheduledIn
    <2>13. \A d : d \in Scheduled(r) <=> \E j \in 1 .. Len(sfl) :
                     \E k \in 1 .. Len(all[j].links_list) : all[j].links_list[k] = d
      <3>1. \A d : d \in Scheduled(r) <=> \E j \in 1 .. Len(r.slotframe_list) :
                     \E k \in 1 .. Len(r.slotframe_list[j].links_list) :
                         r.slotframe_list[j].links_list[k] = d
        BY <2>10, ScheduledIn
      <3> QED BY <2>8, <2>10, <3>1
    <2>14. i \in 1 .. Len(sfl) /\ \A k \in 1 .. Len(links) : k \in 1 .. Len(q) \/ k = Len(q) + 1
      BY <1>1, <2>4
    <2>15. \A k \in 1 .. Len(q) : k \in 1 .. Len(links)
      BY <1>1, <2>4
    <2>16. Len(q) + 1 \in 1 .. Len(links)
      BY <1>1, <2>4
    <2>17. Scheduled(r) = Scheduled(s) \cup {c}
      <3>1. ASSUME NEW d \in Scheduled(r) PROVE d \in Scheduled(s) \/ d = c
        <4>1. PICK j \in 1 .. Len(sfl) : \E k \in 1 .. Len(all[j].links_list) : all[j].links_list[k] = d
          BY <2>13
        <4>2. CASE j # i
          BY <2>8, <2>12, <4>1, <4>2
        <4>3. CASE j = i
          <5>1. PICK k \in 1 .. Len(links) : links[k] = d
            BY <2>9, <4>1, <4>3
          <5>2. d = c \/ \E m \in 1 .. Len(q) : q[m] = d
            BY <2>4, <2>14, <5>1
          <5> QED BY <2>12, <2>14, <5>2
        <4> QED BY <4>2, <4>3
      <3>2. ASSUME NEW d \in Scheduled(s) PROVE d \in Scheduled(r)
        <4>1. PICK j \in 1 .. Len(sfl) : \E k \in 1 .. Len(sfl[j].links_list) : sfl[j].links_list[k] = d
          BY <2>12
        <4>2. CASE j # i
          BY <2>8, <2>13, <4>1, <4>2
        <4>3. CASE j = i
          <5>1. PICK k \in 1 .. Len(q) : q[k] = d
            BY <4>1, <4>3
          <5>2. k \in 1 .. Len(all[i].links_list) /\ all[i].links_list[k] = d
            BY <2>4, <2>9, <2>15, <5>1
          <5> QED BY <2>13, <2>14, <5>2
        <4> QED BY <4>2, <4>3
      <3>3. c \in Scheduled(r)
        <4>1. all[i].links_list[Len(q) + 1] = c /\ Len(q) + 1 \in 1 .. Len(all[i].links_list)
          BY <2>4, <2>9, <2>16
        <4> QED BY <2>13, <2>14, <4>1
      <3> QED BY <3>1, <3>2, <3>3
    <2>18. \A j \in 1 .. Len(sfl) : all[j].handle = sfl[j].handle
      BY <2>8, <2>9
    <2>19. ASSUME NEW j \in 1 .. Len(sfl) PROVE FrameWellFormed(all[j], mb)
      <3>1. /\ FrameWellFormed(sfl[j], s.link_memb) /\ sfl[j].links_list \in Seq(Cells)
        BY <1>1, ScheduleFields DEF WellFormed
      <3>2. \A k \in 1 .. Len(sfl[j].links_list) :
               mb[sfl[j].links_list[k]] = s.link_memb[sfl[j].links_list[k]]
        <4>1. ASSUME NEW k \in 1 .. Len(sfl[j].links_list)
              PROVE  mb[sfl[j].links_list[k]] = s.link_memb[sfl[j].links_list[k]]
          <5> DEFINE d == sfl[j].links_list[k]
          <5>1. d \in Scheduled(s)
            BY <2>12
          <5>2. d \in Cells /\ d # c
            BY <2>11, <5>1
          <5> HIDE DEF d
          <5>3. mb[d] = s.link_memb[d]
            BY <2>6, <5>2
          <5> QED BY <5>3 DEF d
        <4> QED BY <4>1
      <3>3. CASE j # i
        <4> DEFINE old == sfl[j].links_list
        <4>1. \A k \in 1 .. Len(old) : mb[old[k]] = s.link_memb[old[k]]
          BY <3>2
        <4>2. /\ \A k \in 1 .. Len(old) : /\ s.link_memb[old[k]].slotframe_handle = sfl[j].handle
                                         /\ s.link_memb[old[k]].timeslot < sfl[j].size
              /\ \A k, m \in 1 .. Len(old) :
                    s.link_memb[old[k]].timeslot = s.link_memb[old[m]].timeslot => k = m
          BY <3>1 DEF FrameWellFormed
        <4> HIDE DEF old
        <4>3. /\ \A k \in 1 .. Len(old) : /\ mb[old[k]].slotframe_handle = sfl[j].handle
                                         /\ mb[old[k]].timeslot < sfl[j].size
              /\ \A k, m \in 1 .. Len(old) : mb[old[k]].timeslot = mb[old[m]].timeslot => k = m
          BY <4>1, <4>2
        <4> QED BY <2>8, <3>3, <4>3 DEF FrameWellFormed, old
      <3>4. CASE j = i
        <4>1. \A k \in 1 .. Len(q) : /\ links[k] = q[k] /\ mb[q[k]] = s.link_memb[q[k]]
                                    /\ s.link_memb[q[k]].slotframe_handle = sfl[i].handle
                                    /\ s.link_memb[q[k]].timeslot < sfl[i].size
                                    /\ s.link_memb[q[k]].timeslot # t
          BY <2>4, <3>1, <3>2, <3>4 DEF FrameWellFormed
        <4>2. \A k, m \in 1 .. Len(q) : s.link_memb[q[k]].timeslot = s.link_memb[q[m]].timeslot => k = m
          BY <3>1, <3>4 DEF FrameWellFormed
        <4>3. mb[c].slotframe_handle = sfl[i].handle /\ mb[c].timeslot = t /\ t < sfl[i].size
          BY <2>5, <2>6
        <4>4. ASSUME NEW k \in 1 .. Len(links)
              PROVE  mb[links[k]].slotframe_handle = sfl[i].handle /\ mb[links[k]].timeslot < sfl[i].size
          <5> HIDE DEF q
          <5> QED BY <2>4, <2>14, <4>1, <4>3
        <4>5. ASSUME NEW k \in 1 .. Len(links), NEW m \in 1 .. Len(links),
                     mb[links[k]].timeslot = mb[links[m]].timeslot
              PROVE  k = m
          <5> HIDE DEF q
          <5>1. CASE k \in 1 .. Len(q) /\ m \in 1 .. Len(q)
            BY <4>1, <4>2, <4>5, <5>1
          <5>2. CASE k = Len(q) + 1 /\ m \in 1 .. Len(q)
            BY <2>4, <4>1, <4>3, <4>5, <5>2
          <5>3. CASE k \in 1 .. Len(q) /\ m = Len(q) + 1
            BY <2>4, <4>1, <4>3, <4>5, <5>3
          <5> QED BY <2>14, <5>1, <5>2, <5>3
        <4> QED BY <2>9, <3>4, <4>4, <4>5 DEF FrameWellFormed
      <3> QED BY <3>3, <3>4
    <2>20. Scheduled(r) = {d \in Cells : mb[d].used}
      BY <2>2, <2>5, <2>6, <2>11, <2>17
    <2>21. WellFormed(r)
      <3>1. \A m, n \in 1 .. Len(sfl) : sfl[m].handle = sfl[n].handle => m = n
        BY <1>1 DEF WellFormed
      <3> QED BY <2>8, <2>10, <2>18, <2>19, <2>20, <3>1 DEF WellFormed
    <2>22. LinkAdded(r, s, c, i, kind, t)
      BY <2>2, <2>6, <2>10, <2>11, <2>17 DEF LinkAdded, cell
    <2>23. Sound(r)
      BY <2>10, <2>21 DEF Sound
    <2> QED BY <1>4, <2>3, <2>22, <2>23 DEF c
  <1> QED BY <1>3, <1>4

-----------------------------------------------------------------------------
(* The counters of transmission links *)

\* The counts fit the pool of links
LEMMA TxCounts ==
    ASSUME NEW s \in Schedules, NEW a
    PROVE  /\ IsFiniteSet(TxLinks(s, a)) /\ IsFiniteSet(DedicatedTxLinks(s, a))
           /\ Cardinality(TxLinks(s, a)) \in 0 .. MaxLinks
           /\ Cardinality(DedicatedTxLinks(s, a)) \in 0 .. Cardinality(TxLinks(s, a))
           /\ TxLinks(s, a) = {} <=> Cardinality(TxLinks(s, a)) = 0
  <1>1. TxLinks(s, a) \subseteq Cells /\ DedicatedTxLinks(s, a) \subseteq TxLinks(s, a)
    BY ScheduledIn DEF TxLinks, DedicatedTxLinks
  <1>2. IsFiniteSet(Cells) /\ Cardinality(Cells) = MaxLinks
    BY Constants
  <1>3. IsFiniteSet(TxLinks(s, a)) /\ Cardinality(TxLinks(s, a)) <= MaxLinks
    BY <1>1, <1>2, FS_Subset
  <1>4. IsFiniteSet(DedicatedTxLinks(s, a))
        /\ Cardinality(DedicatedTxLinks(s, a)) <= Cardinality(TxLinks(s, a))
    BY <1>1, <1>3, FS_Subset
  <1>5. Cardinality(TxLinks(s, a)) \in Nat /\ Cardinality(DedicatedTxLinks(s, a)) \in Nat
    BY <1>3, <1>4, FS_CardinalityType
  <1>6. TxLinks(s, a) = {} <=> Cardinality(TxLinks(s, a)) = 0
    BY <1>3, FS_EmptySet
  <1> QED BY <1>3, <1>4, <1>5, <1>6, Constants

\* The counters agree with the lists but for one link with options o to the
\* neighbor a, that still has to be counted (d = 1) or discounted (d = -1);
\* a neighbor that is not allocated counts nothing
TxDue(b, a, o, d) == IF b = a /\ "tx" \in o THEN d ELSE 0
DedicatedDue(b, a, o, d) == IF b = a /\ "tx" \in o /\ "shared" \notin o THEN d ELSE 0
CountsOwing(s, a, o, d) ==
    \A b \in Addrs :
        /\ s.nbr[b].tx_links_count + TxDue(b, a, o, d) = Cardinality(TxLinks(s, b))
        /\ s.nbr[b].dedicated + DedicatedDue(b, a, o, d) = Cardinality(DedicatedTxLinks(s, b))
        /\ ~s.nbr[b].present => s.nbr[b].tx_links_count = 0 /\ s.nbr[b].dedicated = 0

\* If nothing is owed the counters agree, and the other way round
LEMMA NothingOwed ==
    ASSUME NEW s, Sound(s), NEW a, NEW o, NEW d, d = 0 \/ "tx" \notin o
    PROVE  CountsAgree(s) <=> CountsOwing(s, a, o, d)
  <1>1. \A b \in Addrs : TxDue(b, a, o, d) = 0 /\ DedicatedDue(b, a, o, d) = 0
    BY DEF TxDue, DedicatedDue
  <1>2. ASSUME NEW b \in Addrs
        PROVE  /\ s.nbr[b].tx_links_count \in Int /\ s.nbr[b].dedicated \in Int
               /\ Cardinality(TxLinks(s, b)) \in Nat
               /\ Cardinality(DedicatedTxLinks(s, b)) \in 0 .. Cardinality(TxLinks(s, b))
               /\ TxLinks(s, b) = {} <=> Cardinality(TxLinks(s, b)) = 0
    BY NbrFields, TxCounts, Constants DEF Sound, Counter
  <1>3. ASSUME CountsAgree(s) PROVE CountsOwing(s, a, o, d)
    BY <1>1, <1>2, <1>3 DEF CountsAgree, CountsOwing
  <1>4. ASSUME CountsOwing(s, a, o, d) PROVE CountsAgree(s)
    BY <1>1, <1>2, <1>4 DEF CountsAgree, CountsOwing
  <1> QED BY <1>3, <1>4

\* r has the link c in addition to the links of s
OneMore(r, s, c) ==
    /\ Scheduled(r) = Scheduled(s) \cup {c} /\ c \notin Scheduled(s)
    /\ \A d \in Scheduled(s) : /\ r.link_memb[d].addr = s.link_memb[d].addr
                               /\ r.link_memb[d].link_options = s.link_memb[d].link_options

\* One more link makes one more transmission link of its neighbor, or none
LEMMA TxLinksOfMore ==
    ASSUME NEW r \in Schedules, NEW s \in Schedules, NEW c, OneMore(r, s, c), NEW b
    PROVE  LET a == r.link_memb[c].addr
               o == r.link_memb[c].link_options
           IN  /\ Cardinality(TxLinks(r, b)) = Cardinality(TxLinks(s, b)) + TxDue(b, a, o, 1)
               /\ Cardinality(DedicatedTxLinks(r, b))
                    = Cardinality(DedicatedTxLinks(s, b)) + DedicatedDue(b, a, o, 1)
  <1> DEFINE a == r.link_memb[c].addr
             o == r.link_memb[c].link_options
  <1>1. TxLinks(r, b) = IF b = a /\ "tx" \in o THEN TxLinks(s, b) \cup {c} ELSE TxLinks(s, b)
    BY DEF TxLinks, Opts, OneMore
  <1>2. DedicatedTxLinks(r, b) = IF b = a /\ "tx" \in o /\ "shared" \notin o
                                 THEN DedicatedTxLinks(s, b) \cup {c} ELSE DedicatedTxLinks(s, b)
    BY DEF DedicatedTxLinks, TxLinks, Opts, OneMore
  <1>3. c \notin TxLinks(s, b) /\ c \notin DedicatedTxLinks(s, b)
    BY DEF DedicatedTxLinks, TxLinks, OneMore
  <1>4. IsFiniteSet(TxLinks(s, b)) /\ IsFiniteSet(DedicatedTxLinks(s, b))
    BY TxCounts
  <1>5. /\ Cardinality(TxLinks(s, b) \cup {c}) = Cardinality(TxLinks(s, b)) + 1
        /\ Cardinality(DedicatedTxLinks(s, b) \cup {c}) = Cardinality(DedicatedTxLinks(s, b)) + 1
    BY <1>3, <1>4, FS_AddElement
  <1>6. Cardinality(TxLinks(s, b)) \in Int /\ Cardinality(DedicatedTxLinks(s, b)) \in Int
    BY <1>4, FS_CardinalityType
  <1> QED BY <1>1, <1>2, <1>5, <1>6 DEF TxDue, DedicatedDue

\* Once a link is taken from its list, its neighbor's counters are one too high
LEMMA FreedIsOwed ==
    ASSUME NEW s, Sound(s), CountsAgree(s), NEW c, NEW i, NEW k, At(s, c, i, k)
    PROVE  CountsOwing(FreeLink(s, c), s.link_memb[c].addr, s.link_memb[c].link_options, -1)
  <1> DEFINE r == FreeLink(s, c)
             a == s.link_memb[c].addr
             o == s.link_memb[c].link_options
  <1>1. r \in Schedules /\ LinkFreed(r, s, c, i, k)
    BY FreeLinkFields
  <1>2. Scheduled(r) = Scheduled(s) \ {c} /\ c \in Scheduled(s) /\ s \in Schedules
    BY FreeLinkSound, LinkPlace DEF Sound
  <1> HIDE DEF r
  <1>3. OneMore(s, r, c)
    BY <1>1, <1>2, ScheduledIn DEF OneMore, LinkFreed
  <1>4. CountsOwing(s, a, o, 0)
    BY NothingOwed
  <1>5. ASSUME NEW b \in Addrs
        PROVE  /\ r.nbr[b].tx_links_count + TxDue(b, a, o, -1) = Cardinality(TxLinks(r, b))
               /\ r.nbr[b].dedicated + DedicatedDue(b, a, o, -1) = Cardinality(DedicatedTxLinks(r, b))
               /\ ~r.nbr[b].present => r.nbr[b].tx_links_count = 0 /\ r.nbr[b].dedicated = 0
    <2>1. /\ Cardinality(TxLinks(s, b)) = Cardinality(TxLinks(r, b)) + TxDue(b, a, o, 1)
          /\ Cardinality(DedicatedTxLinks(s, b))
               = Cardinality(DedicatedTxLinks(r, b)) + DedicatedDue(b, a, o, 1)
      BY <1>1, <1>2, <1>3, TxLinksOfMore
    <2>2. r.nbr = s.nbr
      BY <1>1 DEF LinkFreed
    <2>3. /\ s.nbr[b].tx_links_count + TxDue(b, a, o, 0) = Cardinality(TxLinks(s, b))
          /\ s.nbr[b].dedicated + DedicatedDue(b, a, o, 0) = Cardinality(DedicatedTxLinks(s, b))
          /\ ~s.nbr[b].present => s.nbr[b].tx_links_count = 0 /\ s.nbr[b].dedicated = 0
      BY <1>4 DEF CountsOwing
    <2>4. s.nbr[b].tx_links_count \in Int /\ s.nbr[b].dedicated \in Int
          /\ Cardinality(TxLinks(r, b)) \in Int /\ Cardinality(DedicatedTxLinks(r, b)) \in Int
      BY <1>1, NbrFields, TxCounts DEF Counter
    <2> QED BY <2>1, <2>2, <2>3, <2>4 DEF TxDue, DedicatedDue
  <1> QED BY <1>5 DEF CountsOwing, r

\* Once a link is put into a list, its neighbor's counters are one too low
LEMMA AddedIsOwed ==
    ASSUME NEW s, Sound(s), CountsAgree(s), NEW r \in Schedules, NEW c, NEW i, NEW kind, NEW t,
           LinkAdded(r, s, c, i, kind, t)
    PROVE  CountsOwing(r, kind.addr, kind.link_options, 1)
  <1> DEFINE a == kind.addr
             o == kind.link_options
  <1>1. s \in Schedules /\ r.nbr = s.nbr /\ Scheduled(s) \subseteq Cells
    BY ScheduledIn DEF Sound, LinkAdded
  <1>2. r.link_memb[c].addr = a /\ r.link_memb[c].link_options = o
    BY DEF LinkAdded
  <1>3. OneMore(r, s, c)
    BY <1>1 DEF OneMore, LinkAdded
  <1>4. CountsOwing(s, a, o, 0)
    BY NothingOwed
  <1>5. ASSUME NEW b \in Addrs
        PROVE  /\ r.nbr[b].tx_links_count + TxDue(b, a, o, 1) = Cardinality(TxLinks(r, b))
               /\ r.nbr[b].dedicated + DedicatedDue(b, a, o, 1) = Cardinality(DedicatedTxLinks(r, b))
               /\ ~r.nbr[b].present => r.nbr[b].tx_links_count = 0 /\ r.nbr[b].dedicated = 0
    <2>1. /\ Cardinality(TxLinks(r, b)) = Cardinality(TxLinks(s, b)) + TxDue(b, a, o, 1)
          /\ Cardinality(DedicatedTxLinks(r, b))
               = Cardinality(DedicatedTxLinks(s, b)) + DedicatedDue(b, a, o, 1)
      BY <1>1, <1>2, <1>3, TxLinksOfMore
    <2>2. /\ s.nbr[b].tx_links_count + TxDue(b, a, o, 0) = Cardinality(TxLinks(s, b))
          /\ s.nbr[b].dedicated + DedicatedDue(b, a, o, 0) = Cardinality(DedicatedTxLinks(s, b))
          /\ ~s.nbr[b].present => s.nbr[b].tx_links_count = 0 /\ s.nbr[b].dedicated = 0
      BY <1>4 DEF CountsOwing
    <2>3. s.nbr[b].tx_links_count \in Int /\ s.nbr[b].dedicated \in Int
      BY NbrFields DEF Counter
    <2> QED BY <1>1, <2>1, <2>2, <2>3 DEF TxDue, DedicatedDue
  <1> QED BY <1>5 DEF CountsOwing

\* The transmission links depend on the lists and the pool only
LEMMA SameTxLinks ==
    ASSUME NEW r, NEW s, SameLists(r, s), NEW b
    PROVE  TxLinks(r, b) = TxLinks(s, b) /\ DedicatedTxLinks(r, b) = DedicatedTxLinks(s, b)
  <1>1. Scheduled(r) = Scheduled(s) /\ \A c : Opts(r, c) = Opts(s, c)
    BY DEF SameLists, Scheduled, Opts
  <1> QED BY <1>1 DEF SameLists, TxLinks, DedicatedTxLinks

\* Allocating a neighbor changes no count, and there is room for it
LEMMA NbrAddedOwing ==
    ASSUME NEW s, Sound(s), NEW e \in Addrs
    PROVE  LET r == tsch_queue_add_nbr(s, e)
           IN  /\ \A a, o, d : CountsOwing(s, a, o, d) => CountsOwing(r, a, o, d)
               /\ RoomForAll => r.nbr[e].present
  <1> DEFINE r == tsch_queue_add_nbr(s, e)
             n == [present |-> TRUE, tx_links_count |-> 0, dedicated |-> 0]
  <1>1. /\ SameLists(r, s)
        /\ \/ r = s /\ (s.nbr[e].present \/
                        Cardinality({b \in Addrs : s.nbr[b].present}) = MaxNbrs)
           \/ ~s.nbr[e].present /\ NbrSet(r, s, e, n)
    BY NbrAdded
  <1>2. n.present /\ n.tx_links_count = 0 /\ n.dedicated = 0
    OBVIOUS
  <1> HIDE DEF r, n
  <1>3. ASSUME RoomForAll PROVE r.nbr[e].present
    <2>1. CASE ~s.nbr[e].present
      <3> DEFINE P == {b \in Addrs : s.nbr[b].present}
      <3>1. P \subseteq Addrs /\ P # Addrs /\ IsFiniteSet(Addrs)
        BY <2>1, Constants
      <3> HIDE DEF P
      <3>2. IsFiniteSet(P) /\ Cardinality(P) < Cardinality(Addrs)
        <4>1. P \in SUBSET Addrs
          BY <3>1
        <4>2. /\ IsFiniteSet(P) /\ Cardinality(P) <= Cardinality(Addrs)
              /\ Cardinality(Addrs) = Cardinality(P) => Addrs = P
          BY <3>1, <4>1, FS_Subset
        <4>3. Cardinality(P) \in Nat /\ Cardinality(Addrs) \in Nat
          BY <3>1, <4>2, FS_CardinalityType
        <4> QED BY <3>1, <4>2, <4>3
      <3>3. Cardinality(P) \in Nat /\ Cardinality(Addrs) \in Nat /\ MaxNbrs \in Nat
        BY <3>1, <3>2, FS_CardinalityType, Constants
      <3>4. Cardinality(P) # MaxNbrs
        BY <1>3, <3>2, <3>3 DEF RoomForAll
      <3> QED BY <1>1, <1>2, <2>1, <3>4 DEF NbrSet, P
    <2>2. CASE s.nbr[e].present
      BY <1>1, <2>2
    <2> QED BY <2>1, <2>2
  <1>4. ASSUME NEW a, NEW o, NEW d, CountsOwing(s, a, o, d) PROVE CountsOwing(r, a, o, d)
    <2>1. CASE r = s
      BY <1>4, <2>1
    <2>2. CASE ~s.nbr[e].present /\ NbrSet(r, s, e, n)
      <3>1. ASSUME NEW b \in Addrs
            PROVE  /\ r.nbr[b].tx_links_count = s.nbr[b].tx_links_count
                   /\ r.nbr[b].dedicated = s.nbr[b].dedicated
                   /\ ~r.nbr[b].present => ~s.nbr[b].present
        <4>1. CASE b = e
          BY <1>2, <1>4, <2>2, <4>1 DEF NbrSet, CountsOwing
        <4>2. CASE b # e
          BY <2>2, <4>2 DEF NbrSet
        <4> QED BY <4>1, <4>2
      <3>2. \A b : TxLinks(r, b) = TxLinks(s, b) /\ DedicatedTxLinks(r, b) = DedicatedTxLinks(s, b)
        BY <1>1, SameTxLinks
      <3> QED BY <1>4, <3>1, <3>2 DEF CountsOwing
    <2> QED BY <1>1, <2>1, <2>2
  <1> QED BY <1>3, <1>4 DEF r

\* The update of the counters settles what is owed
LEMMA CountsSettled ==
    ASSUME NEW s, Sound(s), NEW a \in Addrs, NEW o, NEW d \in {1, -1},
           CountsOwing(s, a, o, d), "tx" \in o => s.nbr[a].present, MaxLinks < CounterSize
    PROVE  CountsAgree(UpdateCounts(s, a, o, d))
  <1> DEFINE r == UpdateCounts(s, a, o, d)
             n == Counted(s.nbr[a], o, d)
  <1>1. /\ SameLists(r, s) /\ Sound(r)
        /\ \/ r = s /\ (~s.nbr[a].present \/ "tx" \notin o)
           \/ s.nbr[a].present /\ "tx" \in o /\ NbrSet(r, s, a, n)
    BY CountsUpdated
  <1> HIDE DEF r
  <1>2. CASE "tx" \notin o
    BY <1>1, <1>2, NothingOwed DEF r
  <1>3. CASE "tx" \in o
    <2>1. s.nbr[a].present /\ NbrSet(r, s, a, n)
      BY <1>1, <1>3
    <2>2. \A b : TxLinks(r, b) = TxLinks(s, b) /\ DedicatedTxLinks(r, b) = DedicatedTxLinks(s, b)
      BY <1>1, SameTxLinks
    <2>3. ASSUME NEW b \in Addrs
          PROVE  /\ s.nbr[b].tx_links_count \in Int /\ s.nbr[b].dedicated \in Int
                 /\ Cardinality(TxLinks(s, b)) \in Counter
                 /\ Cardinality(DedicatedTxLinks(s, b)) \in Counter
      <3>1. /\ s.nbr[b].tx_links_count \in Int /\ s.nbr[b].dedicated \in Int
            /\ Cardinality(TxLinks(s, b)) \in 0 .. MaxLinks
            /\ Cardinality(DedicatedTxLinks(s, b)) \in 0 .. Cardinality(TxLinks(s, b))
        BY NbrFields, TxCounts DEF Sound, Counter
      <3> QED BY <3>1, Constants DEF Counter, CounterSize
    <2>4. s.nbr[a] \in Neighbors
      BY NbrFields
    <2>5. /\ n.present = s.nbr[a].present
          /\ n.tx_links_count = (s.nbr[a].tx_links_count + d) % CounterSize
          /\ n.dedicated = IF "shared" \in o THEN s.nbr[a].dedicated
                           ELSE (s.nbr[a].dedicated + d) % CounterSize
      BY <2>4 DEF Counted, Neighbors
    <2>6. /\ s.nbr[a].tx_links_count + d = Cardinality(TxLinks(s, a))
          /\ "shared" \notin o => s.nbr[a].dedicated + d = Cardinality(DedicatedTxLinks(s, a))
          /\ "shared" \in o => s.nbr[a].dedicated + 0 = Cardinality(DedicatedTxLinks(s, a))
      BY <1>3 DEF CountsOwing, TxDue, DedicatedDue
    <2>7. \A v \in Counter : v % CounterSize = v
      BY DEF Counter, CounterSize
    <2>8. /\ n.tx_links_count = Cardinality(TxLinks(s, a))
          /\ n.dedicated = Cardinality(DedicatedTxLinks(s, a))
      BY <2>3, <2>5, <2>6, <2>7
    <2> HIDE DEF n
    <2>9. ASSUME NEW b \in Addrs
          PROVE  /\ r.nbr[b].tx_links_count + TxDue(b, a, o, 0) = Cardinality(TxLinks(r, b))
                 /\ r.nbr[b].dedicated + DedicatedDue(b, a, o, 0) = Cardinality(DedicatedTxLinks(r, b))
                 /\ ~r.nbr[b].present => r.nbr[b].tx_links_count = 0 /\ r.nbr[b].dedicated = 0
      <3>1. CASE b = a
        <4>1. r.nbr[b] = n
          BY <2>1, <3>1 DEF NbrSet
        <4>2. n.tx_links_count \in Int /\ n.dedicated \in Int
          BY <2>3, <2>8 DEF Counter
        <4>3. TxDue(b, a, o, 0) = 0 /\ DedicatedDue(b, a, o, 0) = 0
          BY DEF TxDue, DedicatedDue
        <4>4. ~(~r.nbr[b].present)
          BY <2>1, <2>5, <4>1
        <4> QED BY <2>2, <2>8, <3>1, <4>1, <4>2, <4>3, <4>4
      <3>2. CASE b # a
        <4>1. r.nbr[b] = s.nbr[b]
          BY <2>1, <3>2 DEF NbrSet
        <4>2. TxDue(b, a, o, 0) = TxDue(b, a, o, d) /\ DedicatedDue(b, a, o, 0) = DedicatedDue(b, a, o, d)
          BY <3>2 DEF TxDue, DedicatedDue
        <4> QED BY <2>2, <4>1, <4>2 DEF CountsOwing
      <3> QED BY <3>1, <3>2
    <2>10. CountsOwing(r, a, o, 0)
      BY <2>9 DEF CountsOwing
    <2>11. CountsAgree(r) <=> CountsOwing(r, a, o, 0)
      BY <1>1, NothingOwed
    <2> QED BY <2>10, <2>11 DEF r
  <1> QED BY <1>2, <1>3 DEF r

\* A neighbor whose count is zero has no links and can be freed
LEMMA FreedNbrAgrees ==
    ASSUME NEW s, Sound(s), CountsAgree(s), NEW e \in Addrs, s.nbr[e].tx_links_count = 0
    PROVE  CountsAgree(FreeNbr(s, e))
  <1> DEFINE r == FreeNbr(s, e)
             n == [s.nbr[e] EXCEPT !.present = FALSE]
  <1>1. SameLists(r, s) /\ NbrSet(r, s, e, n)
    BY NbrFreed
  <1>2. n.tx_links_count = s.nbr[e].tx_links_count /\ n.dedicated = s.nbr[e].dedicated
    BY NbrFields DEF Neighbors
  <1>3. TxLinks(s, e) = {}
    BY TxCounts DEF CountsAgree, Sound
  <1> HIDE DEF r, n
  <1>4. \A b : TxLinks(r, b) = TxLinks(s, b) /\ DedicatedTxLinks(r, b) = DedicatedTxLinks(s, b)
    BY <1>1, SameTxLinks
  <1>5. ASSUME NEW b \in Addrs
        PROVE  /\ r.nbr[b].tx_links_count = Cardinality(TxLinks(r, b))
               /\ r.nbr[b].dedicated = Cardinality(DedicatedTxLinks(r, b))
               /\ TxLinks(r, b) # {} => r.nbr[b].present
    BY <1>1, <1>2, <1>3, <1>4 DEF NbrSet, CountsAgree
  <1> QED BY <1>5 DEF CountsAgree, r

-----------------------------------------------------------------------------
(* The API functions that run no loop *)

\* The step from s to r keeps lists and pool sound and, with room for all
\* neighbors, the counters in agreement with them
Keeps(r, s) == Sound(r) /\ (RoomForAll /\ CountsAgree(s) => CountsAgree(r))

\* Two steps in a row
LEMMA KeepsTwice ==
    ASSUME NEW r, NEW q, NEW s, Keeps(r, q), Keeps(q, s)
    PROVE  Keeps(r, s)
  BY DEF Keeps

\* tsch_schedule_remove_link frees the link and discounts it
LEMMA LinkRemoved ==
    ASSUME NEW s, Sound(s), NEW c, NEW i, NEW k, At(s, c, i, k)
    PROVE  LET r == tsch_schedule_remove_link(s, c)
           IN  Keeps(r, s) /\ SameLists(r, FreeLink(s, c))
  <1> DEFINE a == s.link_memb[c].addr
             o == s.link_memb[c].link_options
             freed == FreeLink(s, c)
             added == tsch_queue_add_nbr(freed, a)
             r == tsch_schedule_remove_link(s, c)
  <1>1. Sound(freed) /\ a \in Addrs
    BY FreeLinkSound, LinkPlace, ScheduleFields DEF Sound
  <1>2. CountsAgree(s) => CountsOwing(freed, a, o, -1)
    BY FreedIsOwed
  <1> HIDE DEF a, o, freed
  <1>3. CASE "tx" \notin o
    <2>1. r = freed
      BY <1>3 DEF tsch_schedule_remove_link, o, freed
    <2>2. CountsAgree(freed) <=> CountsOwing(freed, a, o, -1)
      BY <1>1, <1>3, NothingOwed
    <2> QED BY <1>1, <1>2, <2>1, <2>2 DEF Keeps, SameLists, freed
  <1>4. CASE "tx" \in o
    <2>1. r = UpdateCounts(added, a, o, -1)
      BY <1>4 DEF tsch_schedule_remove_link, a, o, freed
    <2>2. /\ Sound(added) /\ SameLists(added, freed)
      BY <1>1, NbrAdded
    <2>3. /\ CountsAgree(s) => CountsOwing(added, a, o, -1)
          /\ RoomForAll => added.nbr[a].present
      BY <1>1, <1>2, NbrAddedOwing
    <2> HIDE DEF added
    <2>4. Sound(r) /\ SameLists(r, added)
      BY <1>1, <2>1, <2>2, CountsUpdated
    <2>5. RoomForAll /\ CountsAgree(s) => CountsAgree(r)
      BY <1>1, <2>1, <2>2, <2>3, CountsSettled DEF RoomForAll
    <2>6. SameLists(r, freed)
      BY <2>2, <2>4 DEF SameLists
    <2> QED BY <2>4, <2>5, <2>6 DEF Keeps, freed
  <1> QED BY <1>3, <1>4

\* tsch_schedule_remove_link_by_timeslot leaves no link at the timeslot
LEMMA TimeslotCleared ==
    ASSUME NEW s, Sound(s), NEW h, NEW i, HandleAt(s, h, i), NEW t
    PROVE  LET r == tsch_schedule_remove_link_by_timeslot(s, h, t)
           IN  /\ Keeps(r, s) /\ Len(r.slotframe_list) = Len(s.slotframe_list)
               /\ r.slotframe_list[i].handle = h
               /\ r.slotframe_list[i].size = s.slotframe_list[i].size
               /\ \A k \in 1 .. Len(r.slotframe_list[i].links_list) :
                     r.link_memb[r.slotframe_list[i].links_list[k]].timeslot # t
  <1> DEFINE c == tsch_schedule_get_link_by_timeslot(s, h, t)
             q == s.slotframe_list[i].links_list
             r == tsch_schedule_remove_link_by_timeslot(s, h, t)
  <1>0. i \in 1 .. Len(s.slotframe_list) /\ s.slotframe_list[i].handle = h
    BY DEF HandleAt
  <1>1. /\ c = NoLink => \A k \in 1 .. Len(q) : s.link_memb[q[k]].timeslot # t
        /\ c # NoLink => \E k : At(s, c, i, k)
        /\ c # NoLink => c \in Cells /\ s.link_memb[c].timeslot = t
    BY LinkAtTimeslot
  <1>2. r = IF c = NoLink THEN s ELSE tsch_schedule_remove_link(s, c)
    BY DEF tsch_schedule_remove_link_by_timeslot
  <1> HIDE DEF c, r
  <1>3. CASE c = NoLink
    BY <1>0, <1>1, <1>2, <1>3 DEF Keeps, r
  <1>4. CASE c # NoLink
    <2>1. PICK k : At(s, c, i, k)
      BY <1>1, <1>4
    <2> DEFINE f == FreeLink(s, c)
    <2>2. Keeps(r, s) /\ SameLists(r, f)
      BY <1>2, <1>4, <2>1, LinkRemoved
    <2>3. f \in Schedules /\ LinkFreed(f, s, c, i, k)
      BY <2>1, FreeLinkFields
    <2> HIDE DEF f
    <2>4. /\ Len(r.slotframe_list) = Len(s.slotframe_list)
          /\ r.slotframe_list[i].handle = h
          /\ r.slotframe_list[i].size = s.slotframe_list[i].size
          /\ r.slotframe_list[i].links_list = RemoveAt(q, k)
          /\ \A d \in Cells : r.link_memb[d].timeslot = s.link_memb[d].timeslot
      BY <1>0, <2>2, <2>3 DEF LinkFreed, SameLists
    <2>5. q \in Seq(Cells) /\ k \in 1 .. Len(q) /\ q[k] = c
          /\ \A m, n \in 1 .. Len(q) : s.link_memb[q[m]].timeslot = s.link_memb[q[n]].timeslot => m = n
      BY <1>0, <2>1, ScheduleFields DEF At, Sound, WellFormed, FrameWellFormed
    <2>6. ASSUME NEW m \in 1 .. Len(RemoveAt(q, k))
          PROVE  r.link_memb[RemoveAt(q, k)[m]].timeslot # t
      <3> DEFINE old == IF m < k THEN m ELSE m + 1
      <3>0. \A x \in 1 .. Len(q) : q[x] \in Cells /\ Len(q) \in Nat
        BY <2>5
      <3> HIDE DEF q
      <3>1. old \in 1 .. Len(q) /\ old # k /\ RemoveAt(q, k)[m] = q[old]
        <4>1. /\ Len(RemoveAt(q, k)) = Len(q) - 1
              /\ \A x \in 1 .. Len(q) - 1 : RemoveAt(q, k)[x] = IF x < k THEN q[x] ELSE q[x + 1]
          BY <2>5, Removed
        <4>2. m \in 1 .. Len(q) - 1 /\ Len(q) \in Nat
          BY <2>5, <4>1
        <4> QED BY <2>5, <4>1, <4>2
      <3> HIDE DEF old
      <3>2. s.link_memb[q[old]].timeslot # s.link_memb[q[k]].timeslot
        BY <2>5, <3>1
      <3>3. s.link_memb[q[k]].timeslot = t
        BY <1>1, <1>4, <2>5
      <3> QED BY <2>4, <3>0, <3>1, <3>2, <3>3
    <2> QED BY <2>2, <2>4, <2>6 DEF r
  <1> QED BY <1>3, <1>4

\* tsch_schedule_add_slotframe
LEMMA SlotframeGiven ==
    ASSUME NEW s, Sound(s), NEW h \in Handles, NEW size \in Sizes
    PROVE  Keeps(tsch_schedule_add_slotframe(s, h, size), s)
  <1> DEFINE r == AllocSlotframe(s, h, size)
  <1>1. CASE size = 0 \/ HasSlotframe(s, h)
    BY <1>1 DEF tsch_schedule_add_slotframe, Keeps
  <1>2. CASE ~(size = 0 \/ HasSlotframe(s, h))
    <2>1. tsch_schedule_add_slotframe(s, h, size) = r
      BY <1>2 DEF tsch_schedule_add_slotframe
    <2>2. Sound(r) /\ Scheduled(r) = Scheduled(s) /\ r.link_memb = s.link_memb /\ r.nbr = s.nbr
      BY <1>2, SlotframeAdded
    <2> HIDE DEF r
    <2>3. \A b : TxLinks(r, b) = TxLinks(s, b) /\ DedicatedTxLinks(r, b) = DedicatedTxLinks(s, b)
      BY <2>2 DEF TxLinks, DedicatedTxLinks, Opts
    <2>4. CountsAgree(s) => CountsAgree(r)
      BY <2>2, <2>3 DEF CountsAgree
    <2> QED BY <2>1, <2>2, <2>4 DEF Keeps
  <1> QED BY <1>1, <1>2

\* tsch_schedule_add_link, whatever was at the timeslot before
LEMMA LinkGiven ==
    ASSUME NEW s, Sound(s), NEW h, NEW kind, kind.link_options \in Options, kind.addr \in Addrs,
           NEW t \in Nat
    PROVE  Keeps(tsch_schedule_add_link(s, h, kind, t), s)
  <1> DEFINE i == tsch_schedule_get_slotframe_by_handle(s, h)
             cleared == tsch_schedule_remove_link_by_timeslot(s, h, t)
             added == AllocLink(cleared, h, kind, t)
             present == tsch_queue_add_nbr(added, kind.addr)
             r == tsch_schedule_add_link(s, h, kind, t)
  <1>0. s \in Schedules
    BY DEF Sound
  <1>1. CASE i = 0 \/ t > s.slotframe_list[i].size - 1
    <2>1. r = s
      BY <1>1 DEF tsch_schedule_add_link
    <2> QED BY <2>1 DEF Keeps
  <1>2. CASE ~(i = 0 \/ t > s.slotframe_list[i].size - 1)
    <2>1. i \in 1 .. Len(s.slotframe_list) /\ s.slotframe_list[i].handle = h
      BY <1>0, <1>2, Position
    <2>2. r = IF added = cleared \/ "tx" \notin kind.link_options THEN added
              ELSE UpdateCounts(present, kind.addr, kind.link_options, 1)
      BY <1>2 DEF tsch_schedule_add_link
    <2>3. /\ Keeps(cleared, s) /\ Len(cleared.slotframe_list) = Len(s.slotframe_list)
          /\ cleared.slotframe_list[i].handle = h
          /\ cleared.slotframe_list[i].size = s.slotframe_list[i].size
          /\ \A k \in 1 .. Len(cleared.slotframe_list[i].links_list) :
                cleared.link_memb[cleared.slotframe_list[i].links_list[k]].timeslot # t
      <3>1. HandleAt(s, h, i)
        BY <2>1 DEF HandleAt
      <3> HIDE DEF i, added, present, r
      <3> QED BY <3>1, TimeslotCleared
    <2>4. t < cleared.slotframe_list[i].size
      <3>1. s.slotframe_list[i].size \in Nat
        BY <1>0, <2>1, ScheduleFields
      <3> QED BY <1>2, <2>3, <3>1
    <2>5. Sound(cleared)
      BY <2>3 DEF Keeps
    <2> HIDE DEF cleared, r, i
    <2>6. Sound(added) /\ (added = cleared \/ \E c \in Cells : LinkAdded(added, cleared, c, i, kind, t))
      <3>1. LET z == AllocLink(cleared, cleared.slotframe_list[i].handle, kind, t)
            IN  Sound(z) /\ IF memb_alloc(cleared) = NoLink THEN z = cleared
                            ELSE LinkAdded(z, cleared, memb_alloc(cleared), i, kind, t)
        BY <2>1, <2>3, <2>4, <2>5, LinkAllocated
      <3>2. added = AllocLink(cleared, cleared.slotframe_list[i].handle, kind, t)
        BY <2>3
      <3> HIDE DEF added
      <3> QED BY <3>1, <3>2 DEF LinkAdded
    <2> HIDE DEF added
    <2>7. CASE added = cleared
      BY <2>2, <2>3, <2>7 DEF r
    <2>8. CASE added # cleared
      <3>1. PICK c \in Cells : LinkAdded(added, cleared, c, i, kind, t)
        BY <2>6, <2>8
      <3>2. CountsAgree(cleared) => CountsOwing(added, kind.addr, kind.link_options, 1)
        BY <2>5, <2>6, <3>1, AddedIsOwed DEF Sound
      <3>3. CASE "tx" \notin kind.link_options
        <4>1. CountsAgree(added) <=> CountsOwing(added, kind.addr, kind.link_options, 1)
          BY <2>6, <3>3, NothingOwed
        <4>2. Keeps(added, cleared)
          BY <2>6, <3>2, <4>1 DEF Keeps
        <4> QED BY <2>2, <2>3, <3>3, <4>2, KeepsTwice DEF r
      <3>4. CASE "tx" \in kind.link_options
        <4>1. r = UpdateCounts(present, kind.addr, kind.link_options, 1)
          BY <2>2, <2>8, <3>4
        <4>2. Sound(present)
          BY <2>6, NbrAdded
        <4>3. /\ CountsAgree(cleared) => CountsOwing(present, kind.addr, kind.link_options, 1)
              /\ RoomForAll => present.nbr[kind.addr].present
          BY <2>6, <3>2, NbrAddedOwing
        <4> HIDE DEF present
        <4>4. Sound(r)
          BY <4>1, <4>2, CountsUpdated
        <4>5. RoomForAll /\ CountsAgree(cleared) => CountsAgree(r)
          BY <4>1, <4>2, <4>3, CountsSettled DEF RoomForAll
        <4>6. Keeps(r, cleared)
          BY <4>4, <4>5 DEF Keeps
        <4> QED BY <2>3, <4>6, KeepsTwice DEF r
      <3> QED BY <3>3, <3>4
    <2> QED BY <2>7, <2>8
  <1> QED BY <1>1, <1>2

-----------------------------------------------------------------------------
(* The loops that remove slotframes *)

\* Induction over the rounds of a loop
LEMMA UpTo ==
    ASSUME NEW n \in Nat, NEW S, 0 \in S, \A k \in 0 .. n - 1 : k \in S => k + 1 \in S
    PROVE  \A k \in 0 .. n : k \in S
  <1> DEFINE B == {k \in 0 .. n : k \notin S}
  <1>1. SUFFICES ASSUME B # {} PROVE FALSE
    OBVIOUS
  <1>2. B \in SUBSET Nat
    OBVIOUS
  <1>3. Min(B) \in B /\ \A k \in B : Min(B) <= k
    <2> HIDE DEF B
    <2> QED BY <1>1, <1>2, LeastNumber
  <1> DEFINE m == Min(B)
  <1> HIDE DEF m
  <1>4. m \in 0 .. n /\ m \notin S /\ \A k \in B : m <= k
    BY <1>3 DEF m
  <1>5. m - 1 \in 0 .. n - 1 /\ (m - 1) + 1 = m
    BY <1>4
  <1>6. m - 1 \in S
    BY <1>4, <1>5
  <1> QED BY <1>4, <1>5, <1>6

\* One round of the loop of tsch_schedule_remove_slotframe
LEMMA FirstLinkRemoved ==
    ASSUME NEW s, Sound(s), NEW h, NEW i, HandleAt(s, h, i),
           Len(s.slotframe_list[i].links_list) # 0
    PROVE  LET r == RemoveFirstLink(s, h)
           IN  /\ Keeps(r, s) /\ HandleAt(r, h, i)
               /\ Len(r.slotframe_list) = Len(s.slotframe_list)
               /\ Len(r.slotframe_list[i].links_list) = Len(s.slotframe_list[i].links_list) - 1
  <1> DEFINE q == s.slotframe_list[i].links_list
             c == Head(q)
             f == FreeLink(s, c)
             r == RemoveFirstLink(s, h)
  <1>1. i \in 1 .. Len(s.slotframe_list) /\ s.slotframe_list[i].handle = h
    BY DEF HandleAt
  <1>2. q \in Seq(Cells) /\ Len(q) \in Nat /\ Len(q) # 0
    BY <1>1, ScheduleFields DEF Sound
  <1>3. r = tsch_schedule_remove_link(s, c)
    BY <1>1, PositionOf DEF RemoveFirstLink
  <1>4. 1 \in 1 .. Len(q) /\ c = q[1]
    <2> HIDE DEF q
    <2> QED BY <1>2
  <1>5. At(s, c, i, 1)
    BY <1>1, <1>4 DEF At
  <1>6. Len(RemoveAt(q, 1)) = Len(q) - 1
    <2> HIDE DEF q
    <2> QED BY <1>2, <1>4, Removed
  <1> HIDE DEF c
  <1>7. Keeps(r, s) /\ SameLists(r, f)
    <2> HIDE DEF r
    <2> QED BY <1>3, <1>5, LinkRemoved
  <1>8. LinkFreed(f, s, c, i, 1)
    BY <1>5, FreeLinkFields
  <1> HIDE DEF f, r
  <1>9. /\ Len(r.slotframe_list) = Len(s.slotframe_list) /\ r.slotframe_list[i].handle = h
        /\ r.slotframe_list[i].links_list = RemoveAt(q, 1)
    BY <1>1, <1>7, <1>8 DEF LinkFreed, SameLists
  <1> QED BY <1>1, <1>6, <1>7, <1>9 DEF HandleAt, r

\* A loop over n rounds has a result after each
LEMMA LinkRounds ==
    ASSUME NEW s, NEW h, NEW n \in Nat
    PROVE  \E f : f = [k \in 0 .. n |-> IF k = 0 THEN s ELSE RemoveFirstLink(f[k - 1], h)]
  <1> DEFINE IsRun(f, m) == f = [k \in 0 .. m |-> IF k = 0 THEN s ELSE RemoveFirstLink(f[k - 1], h)]
             S == {m \in 0 .. n : \E f : IsRun(f, m)}
  <1>1. 0 \in S
    <2>1. IsRun([k \in 0 .. 0 |-> s], 0)
      OBVIOUS
    <2>2. \E f : IsRun(f, 0)
      <3> HIDE DEF IsRun
      <3> QED BY <2>1
    <2> QED BY <2>2
  <1>2. ASSUME NEW m \in 0 .. n - 1, m \in S PROVE m + 1 \in S
    <2>1. PICK f : IsRun(f, m)
      BY <1>2
    <2> DEFINE g == [k \in 0 .. m + 1 |-> IF k = m + 1 THEN RemoveFirstLink(f[m], h) ELSE f[k]]
               G == [k \in 0 .. m + 1 |-> IF k = 0 THEN s ELSE RemoveFirstLink(g[k - 1], h)]
    <2>2. ASSUME NEW k \in 0 .. m + 1 PROVE g[k] = G[k]
      <3>1. CASE k = m + 1
        BY <3>1
      <3>2. CASE k # m + 1
        <4>1. k \in 0 .. m /\ g[k] = f[k]
          BY <3>2
        <4>2. f[k] = IF k = 0 THEN s ELSE RemoveFirstLink(f[k - 1], h)
          BY <2>1, <4>1
        <4>3. k # 0 => k - 1 \in 0 .. m + 1 /\ g[k - 1] = f[k - 1]
          BY <4>1
        <4> QED BY <4>1, <4>2, <4>3
      <3> QED BY <3>1, <3>2
    <2>3. g = G
      BY <2>2
    <2>4. IsRun(g, m + 1)
      BY <2>3
    <2>5. \E x : IsRun(x, m + 1)
      <3> HIDE DEF IsRun, g
      <3> QED BY <2>4
    <2>6. m + 1 \in 0 .. n
      OBVIOUS
    <2> QED BY <2>5, <2>6
  <1> HIDE DEF S
  <1>3. n \in S
    BY <1>1, <1>2, UpTo
  <1> QED BY <1>3 DEF S

\* tsch_schedule_remove_slotframe removes the slotframe and all of its links
LEMMA SlotframeRemoved ==
    ASSUME NEW s, Sound(s), NEW h, NEW i, HandleAt(s, h, i)
    PROVE  LET r == tsch_schedule_remove_slotframe(s, h)
           IN  Keeps(r, s) /\ Len(r.slotframe_list) = Len(s.slotframe_list) - 1
  <1> DEFINE n == Len(s.slotframe_list[i].links_list)
             m == Len(Slotframe(s, h).links_list)
             without == CHOOSE f : f = [k \in 0 .. n |-> IF k = 0 THEN s ELSE RemoveFirstLink(f[k - 1], h)]
  <1>1. i \in 1 .. Len(s.slotframe_list) /\ s.slotframe_list[i].handle = h
    BY DEF HandleAt
  <1>2. n \in Nat /\ m = n
    BY <1>1, PositionOf, ScheduleFields DEF Sound
  <1>3. tsch_schedule_remove_slotframe(s, h) = FreeSlotframe(without[n], h)
    <2> HIDE DEF n
    <2> QED BY <1>2 DEF tsch_schedule_remove_slotframe
  <1> HIDE DEF n
  <1>4. without = [k \in 0 .. n |-> IF k = 0 THEN s ELSE RemoveFirstLink(without[k - 1], h)]
    BY <1>2, LinkRounds
  <1> HIDE DEF without
  <1> DEFINE Fine(x, k) == /\ Keeps(x, s) /\ HandleAt(x, h, i)
                           /\ Len(x.slotframe_list) = Len(s.slotframe_list)
                           /\ Len(x.slotframe_list[i].links_list) = n - k
             S == {k \in 0 .. n : Fine(without[k], k)}
  <1>5. 0 \in S
    <2>1. without[0] = s
      BY <1>2, <1>4
    <2>2. Fine(s, 0)
      BY <1>2 DEF Keeps, n
    <2> QED BY <1>2, <2>1, <2>2
  <1>6. ASSUME NEW k \in 0 .. n - 1, k \in S PROVE k + 1 \in S
    <2> DEFINE x == without[k]
               y == without[k + 1]
    <2>1. y = RemoveFirstLink(x, h)
      <3>1. k + 1 \in 0 .. n /\ k + 1 # 0 /\ (k + 1) - 1 = k
        BY <1>2
      <3> QED BY <1>4, <3>1
    <2>2. Fine(x, k)
      BY <1>6
    <2> HIDE DEF x, y
    <2>3. Sound(x) /\ Len(x.slotframe_list[i].links_list) # 0
      BY <1>2, <2>2 DEF Keeps
    <2>4. /\ Keeps(y, x) /\ HandleAt(y, h, i)
          /\ Len(y.slotframe_list) = Len(x.slotframe_list)
          /\ Len(y.slotframe_list[i].links_list) = Len(x.slotframe_list[i].links_list) - 1
      BY <2>1, <2>2, <2>3, FirstLinkRemoved
    <2>5. Keeps(y, s)
      BY <2>2, <2>4, KeepsTwice
    <2>6. Fine(y, k + 1)
      BY <1>2, <2>2, <2>4, <2>5
    <2> QED BY <1>2, <2>6 DEF y
  <1>7. n \in S
    <2> HIDE DEF S, m
    <2>1. \A k \in 0 .. n : k \in S
      BY <1>2, <1>5, <1>6, UpTo
    <2> QED BY <1>2, <2>1
  <1> DEFINE x == without[n]
             r == FreeSlotframe(x, h)
  <1>8. Fine(x, n)
    BY <1>7
  <1> HIDE DEF x
  <1>9. Sound(x) /\ i \in 1 .. Len(x.slotframe_list) /\ x.slotframe_list[i].handle = h
        /\ Len(x.slotframe_list[i].links_list) = 0
    BY <1>2, <1>8 DEF Keeps, HandleAt
  <1>10. /\ Sound(r) /\ Scheduled(r) = Scheduled(x) /\ r.link_memb = x.link_memb /\ r.nbr = x.nbr
         /\ Len(r.slotframe_list) = Len(x.slotframe_list) - 1
    BY <1>9, SlotframeFreed
  <1> HIDE DEF r
  <1>11. \A b : TxLinks(r, b) = TxLinks(x, b) /\ DedicatedTxLinks(r, b) = DedicatedTxLinks(x, b)
    BY <1>10 DEF TxLinks, DedicatedTxLinks, Opts
  <1>12. Keeps(r, x)
    BY <1>10, <1>11 DEF Keeps, CountsAgree
  <1>13. Keeps(r, s)
    BY <1>8, <1>12, KeepsTwice
  <1> QED BY <1>3, <1>8, <1>10, <1>13 DEF r, x

\* The same for the loop over the slotframes
LEMMA SlotframeRounds ==
    ASSUME NEW s, NEW n \in Nat
    PROVE  \E f : f = [k \in 0 .. n |-> IF k = 0 THEN s ELSE RemoveFirstSlotframe(f[k - 1])]
  <1> DEFINE IsRun(f, m) == f = [k \in 0 .. m |-> IF k = 0 THEN s ELSE RemoveFirstSlotframe(f[k - 1])]
             S == {m \in 0 .. n : \E f : IsRun(f, m)}
  <1>1. 0 \in S
    <2>1. IsRun([k \in 0 .. 0 |-> s], 0)
      OBVIOUS
    <2>2. \E f : IsRun(f, 0)
      <3> HIDE DEF IsRun
      <3> QED BY <2>1
    <2> QED BY <2>2
  <1>2. ASSUME NEW m \in 0 .. n - 1, m \in S PROVE m + 1 \in S
    <2>1. PICK f : IsRun(f, m)
      BY <1>2
    <2> DEFINE g == [k \in 0 .. m + 1 |-> IF k = m + 1 THEN RemoveFirstSlotframe(f[m]) ELSE f[k]]
               G == [k \in 0 .. m + 1 |-> IF k = 0 THEN s ELSE RemoveFirstSlotframe(g[k - 1])]
    <2>2. ASSUME NEW k \in 0 .. m + 1 PROVE g[k] = G[k]
      <3>1. CASE k = m + 1
        BY <3>1
      <3>2. CASE k # m + 1
        <4>1. k \in 0 .. m /\ g[k] = f[k]
          BY <3>2
        <4>2. f[k] = IF k = 0 THEN s ELSE RemoveFirstSlotframe(f[k - 1])
          BY <2>1, <4>1
        <4>3. k # 0 => k - 1 \in 0 .. m + 1 /\ g[k - 1] = f[k - 1]
          BY <4>1
        <4> QED BY <4>1, <4>2, <4>3
      <3> QED BY <3>1, <3>2
    <2>3. g = G
      BY <2>2
    <2>4. IsRun(g, m + 1)
      BY <2>3
    <2>5. \E x : IsRun(x, m + 1)
      <3> HIDE DEF IsRun, g
      <3> QED BY <2>4
    <2>6. m + 1 \in 0 .. n
      OBVIOUS
    <2> QED BY <2>5, <2>6
  <1> HIDE DEF S
  <1>3. n \in S
    BY <1>1, <1>2, UpTo
  <1> QED BY <1>3 DEF S

\* tsch_schedule_remove_all_slotframes empties the list
LEMMA AllSlotframesRemoved ==
    ASSUME NEW s, Sound(s)
    PROVE  LET r == tsch_schedule_remove_all_slotframes(s)
           IN  Keeps(r, s) /\ Len(r.slotframe_list) = 0
  <1> DEFINE n == Len(s.slotframe_list)
             without == CHOOSE f : f = [k \in 0 .. n |-> IF k = 0 THEN s ELSE RemoveFirstSlotframe(f[k - 1])]
  <1>1. n \in Nat
    BY ScheduleFields DEF Sound
  <1>2. tsch_schedule_remove_all_slotframes(s) = without[n]
    BY DEF tsch_schedule_remove_all_slotframes
  <1> HIDE DEF n
  <1>3. without = [k \in 0 .. n |-> IF k = 0 THEN s ELSE RemoveFirstSlotframe(without[k - 1])]
    BY <1>1, SlotframeRounds
  <1> HIDE DEF without
  <1> DEFINE Fine(x, k) == Keeps(x, s) /\ Len(x.slotframe_list) = n - k
             S == {k \in 0 .. n : Fine(without[k], k)}
  <1>4. 0 \in S
    <2>1. without[0] = s
      BY <1>1, <1>3
    <2>2. Fine(s, 0)
      BY <1>1 DEF Keeps, n
    <2> QED BY <1>1, <2>1, <2>2
  <1>5. ASSUME NEW k \in 0 .. n - 1, k \in S PROVE k + 1 \in S
    <2> DEFINE x == without[k]
               y == without[k + 1]
               h == Head(x.slotframe_list).handle
    <2>1. y = tsch_schedule_remove_slotframe(x, h)
      <3>1. k + 1 \in 0 .. n /\ k + 1 # 0 /\ (k + 1) - 1 = k
        BY <1>1
      <3>2. y = RemoveFirstSlotframe(x)
        BY <1>3, <3>1
      <3> QED BY <3>2 DEF RemoveFirstSlotframe
    <2>2. Fine(x, k)
      BY <1>5
    <2> HIDE DEF x, y
    <2>3. Sound(x) /\ Len(x.slotframe_list) # 0
      BY <1>1, <2>2 DEF Keeps
    <2>4. HandleAt(x, h, 1)
      <3>1. x.slotframe_list \in Seq(Slotframes)
        BY <2>3, ScheduleFields DEF Sound
      <3>2. 1 \in 1 .. Len(x.slotframe_list) /\ Head(x.slotframe_list) = x.slotframe_list[1]
        BY <2>3, <3>1
      <3> QED BY <3>2 DEF HandleAt
    <2> HIDE DEF h
    <2>5. Keeps(y, x) /\ Len(y.slotframe_list) = Len(x.slotframe_list) - 1
      BY <2>1, <2>3, <2>4, SlotframeRemoved
    <2>6. Keeps(y, s)
      BY <2>2, <2>5, KeepsTwice
    <2>7. Fine(y, k + 1)
      BY <1>1, <2>2, <2>5, <2>6
    <2> QED BY <1>1, <2>7 DEF y
  <1>6. n \in S
    <2> HIDE DEF S
    <2> QED BY <1>1, <1>4, <1>5, UpTo
  <1>7. Fine(without[n], n)
    BY <1>6
  <1> QED BY <1>1, <1>2, <1>7

-----------------------------------------------------------------------------
(* The specification *)

\* A finite set of numbers has a largest one
LEMMA LargestNumber ==
    ASSUME NEW I \in SUBSET Nat, I # {}, IsFiniteSet(I)
    PROVE  Max(I) \in I /\ \A i \in I : i <= Max(I)
  <1>1. PICK n \in Nat : ExistsBijection(1 .. n, I)
    BY FS_NatBijection
  <1>2. PICK f \in [1 .. n -> I] : \A x \in I : \E j \in 1 .. n : f[j] = x
    BY <1>1 DEF ExistsBijection, Bijection, Surjection
  <1>0. \A j \in 1 .. n : f[j] \in Nat
    BY <1>2
  <1> DEFINE S == {k \in 0 .. n : \E u \in Nat : \A j \in 1 .. k : f[j] <= u}
  <1>3. 0 \in S
    OBVIOUS
  <1>4. ASSUME NEW k \in 0 .. n - 1, k \in S PROVE k + 1 \in S
    <2>1. PICK u \in Nat : \A j \in 1 .. k : f[j] <= u
      BY <1>4
    <2>2. k + 1 \in 1 .. n /\ f[k + 1] \in Nat /\ \A j \in 1 .. k : f[j] \in Nat
      BY <1>0
    <2> DEFINE v == u + f[k + 1]
    <2>3. v \in Nat /\ \A j \in 1 .. k + 1 : f[j] <= v
      BY <2>1, <2>2
    <2> HIDE DEF v
    <2> QED BY <2>3
  <1>5. n \in S
    <2> HIDE DEF S
    <2>1. \A k \in 0 .. n : k \in S
      BY <1>3, <1>4, UpTo
    <2> QED BY <2>1
  <1>6. PICK u \in Nat : \A j \in 1 .. n : f[j] <= u
    BY <1>5
  <1>7. \A x \in I : x <= u
    BY <1>2, <1>6
  <1> DEFINE D == {u - x : x \in I}
  <1>8. D \in SUBSET Nat /\ D # {}
    <2>1. ASSUME NEW x \in I PROVE u - x \in Nat
      <3>1. x \in Nat /\ x <= u
        BY <1>7
      <3> QED BY <3>1
    <2> QED BY <2>1
  <1>9. Min(D) \in D /\ \A d \in D : Min(D) <= d
    <2> HIDE DEF D
    <2> QED BY <1>8, LeastNumber
  <1>10. PICK x \in I : \A y \in I : u - x <= u - y
    BY <1>9
  <1>11. \A y \in I : y <= x
    BY <1>10
  <1> QED BY <1>11 DEF Max

\* MaxSize is the size of the largest slotframe
LEMMA SizesBounded == MaxSize \in Nat /\ \A z \in Sizes : z <= MaxSize
  <1>1. Sizes \cup {1} \in SUBSET Nat /\ Sizes \cup {1} # {}
    BY ScheduleAssumption
  <1>2. IsFiniteSet(Sizes \cup {1})
    BY ScheduleAssumption, FS_AddElement
  <1> QED BY <1>1, <1>2, LargestNumber DEF MaxSize

\* The schedule after tsch_schedule_init
LEMMA EmptyScheduleIsSound == Sound(EmptySchedule) /\ CountsAgree(EmptySchedule)
  <1> DEFINE s == EmptySchedule
             cell == [used |-> FALSE, link_options |-> {}, addr |-> Broadcast,
                      slotframe_handle |-> 0, timeslot |-> 0]
  <1>1. /\ s.slotframe_list = << >> /\ Len(s.slotframe_list) = 0
        /\ s.link_memb = [c \in Cells |-> cell]
        /\ s.nbr = [a \in Addrs |-> [present |-> a = Broadcast, tx_links_count |-> 0, dedicated |-> 0]]
    BY DEF EmptySchedule
  <1>2. cell \in LinkCells
    BY Constants DEF LinkCells, Options
  <1>3. \A a \in Addrs : /\ s.nbr[a].tx_links_count = 0 /\ s.nbr[a].dedicated = 0
                         /\ [present |-> a = Broadcast, tx_links_count |-> 0, dedicated |-> 0] \in Neighbors
    BY <1>1 DEF Neighbors, CounterSize
  <1>4. s \in Schedules
    <2>1. << >> \in Seq(Slotframes)
      OBVIOUS
    <2>2. [c \in Cells |-> cell] \in [Cells -> LinkCells]
      <3> HIDE DEF cell
      <3> QED BY <1>2
    <2>3. s.nbr \in [Addrs -> Neighbors]
      BY <1>1, <1>3
    <2>4. s = [slotframe_list |-> s.slotframe_list, link_memb |-> s.link_memb, nbr |-> s.nbr]
      BY DEF EmptySchedule
    <2> HIDE DEF s, cell
    <2>5. 0 <= MaxSlotframes
      BY Constants
    <2>6. s \in [slotframe_list : Seq(Slotframes), link_memb : [Cells -> LinkCells],
                 nbr : [Addrs -> Neighbors]]
      BY <1>1, <2>1, <2>2, <2>3, <2>4
    <2> QED BY <1>1, <2>5, <2>6 DEF Schedules
  <1>5. \A c \in Cells : s.link_memb[c].used = FALSE
    BY <1>1
  <1> HIDE DEF s
  <1>6. Scheduled(s) = {}
    BY <1>1, <1>4, ScheduledIn
  <1>7. WellFormed(s)
    BY <1>1, <1>5, <1>6 DEF WellFormed
  <1>8. \A a : TxLinks(s, a) = {} /\ DedicatedTxLinks(s, a) = {}
    BY <1>6 DEF TxLinks, DedicatedTxLinks
  <1>9. Cardinality({}) = 0
    BY FS_EmptySet
  <1>10. CountsAgree(s)
    BY <1>3, <1>8, <1>9 DEF CountsAgree
  <1> QED BY <1>4, <1>7, <1>10 DEF Sound, s

ScheduleInv == Sound(schedule) /\ (RoomForAll => CountsAgree(schedule))

\* Every call keeps the invariant
LEMMA ScheduleInvInductive == ScheduleInv /\ [Next]_schedule => ScheduleInv'
  <1> SUFFICES ASSUME Sound(schedule), RoomForAll => CountsAgree(schedule), [Next]_schedule
               PROVE  Sound(schedule') /\ (RoomForAll => CountsAgree(schedule'))
    BY DEF ScheduleInv
  <1>0. SUFFICES Keeps(schedule', schedule)
    BY DEF Keeps
  <1>1. CASE AddSlotframe
    BY <1>1, SlotframeGiven DEF AddSlotframe
  <1>2. CASE RemoveSlotframe
    <2>1. PICK h \in Handles : /\ HasSlotframe(schedule, h)
                               /\ schedule' = tsch_schedule_remove_slotframe(schedule, h)
      BY <1>2 DEF RemoveSlotframe
    <2> DEFINE i == tsch_schedule_get_slotframe_by_handle(schedule, h)
    <2>2. HandleAt(schedule, h, i)
      BY <2>1, Position DEF HandleAt, Sound
    <2> HIDE DEF i
    <2> QED BY <2>1, <2>2, SlotframeRemoved
  <1>3. CASE RemoveAllSlotframes
    BY <1>3, AllSlotframesRemoved DEF RemoveAllSlotframes
  <1>4. CASE AddLink
    <2>1. PICK h \in Handles, k \in LinkKinds, t \in Timeslots :
              schedule' = tsch_schedule_add_link(schedule, h, k, t)
      BY <1>4 DEF AddLink
    <2>2. k.link_options \in Options /\ k.addr \in Addrs /\ t \in Nat
      BY SizesBounded, Constants DEF Options, Timeslots
    <2> QED BY <2>1, <2>2, LinkGiven
  <1>5. CASE RemoveLink
    <2>1. PICK c \in Scheduled(schedule) : schedule' = tsch_schedule_remove_link(schedule, c)
      BY <1>5 DEF RemoveLink
    <2>2. PICK i, k : At(schedule, c, i, k)
      BY HasPlace DEF Sound
    <2> QED BY <2>1, <2>2, LinkRemoved
  <1>6. CASE CreateMinimal
    <2>1. PICK size \in Sizes \ {0} : schedule' = tsch_schedule_create_minimal(schedule, size)
      BY <1>6 DEF CreateMinimal
    <2> DEFINE empty == tsch_schedule_remove_all_slotframes(schedule)
               framed == tsch_schedule_add_slotframe(empty, 0, size)
    <2>2. schedule' = tsch_schedule_add_link(framed, 0, MinimalKind, 0)
      BY <2>1 DEF tsch_schedule_create_minimal
    <2>3. Keeps(empty, schedule)
      BY AllSlotframesRemoved
    <2> HIDE DEF empty
    <2>4. Keeps(framed, empty)
      BY <2>3, SlotframeGiven, Constants DEF Keeps
    <2> HIDE DEF framed
    <2>5. MinimalKind.link_options \in Options /\ MinimalKind.addr \in Addrs /\ 0 \in Nat
      BY Constants DEF Options, MinimalKind
    <2>6. Keeps(schedule', framed)
      <3>1. Sound(framed)
        BY <2>4 DEF Keeps
      <3>2. Keeps(tsch_schedule_add_link(framed, 0, MinimalKind, 0), framed)
        BY <2>5, <3>1, LinkGiven
      <3> QED BY <2>2, <3>2
    <2> QED BY <2>3, <2>4, <2>6, KeepsTwice
  <1>7. CASE AddNbr
    <2>1. PICK a \in Addrs : schedule' = tsch_queue_add_nbr(schedule, a)
      BY <1>7 DEF AddNbr
    <2>2. Sound(schedule')
      BY <2>1, NbrAdded
    <2>3. CountsOwing(schedule, a, {}, 0) => CountsOwing(schedule', a, {}, 0)
      BY <2>1, NbrAddedOwing
    <2>4. CountsAgree(schedule) => CountsAgree(schedule')
      BY <2>2, <2>3, NothingOwed
    <2> QED BY <2>2, <2>4 DEF Keeps
  <1>8. CASE FreeUnusedNbr
    <2>1. PICK a \in Addrs : schedule.nbr[a].tx_links_count = 0 /\ schedule' = FreeNbr(schedule, a)
      BY <1>8 DEF FreeUnusedNbr
    <2>2. Sound(schedule')
      BY <2>1, NbrFreed
    <2>3. CountsAgree(schedule) => CountsAgree(schedule')
      BY <2>1, FreedNbrAgrees
    <2> QED BY <2>2, <2>3 DEF Keeps
  <1>9. CASE UNCHANGED schedule
    BY <1>9 DEF Keeps
  <1> QED BY <1>1, <1>2, <1>3, <1>4, <1>5, <1>6, <1>7, <1>8, <1>9 DEF Next

\* The invariant holds after every sequence of calls
LEMMA ScheduleInvHolds == Spec => []ScheduleInv
  <1>1. Init => ScheduleInv
    BY EmptyScheduleIsSound DEF Init, ScheduleInv
  <1> QED BY <1>1, ScheduleInvInductive, PTL DEF Spec

\* Whatever sequence of calls the code makes of tsch-schedule.c, the schedule is
\* of its type: no slotframe without slots, no more slotframes than the pool has
THEOREM ScheduleTypeCorrect == Spec => []ScheduleTypeOK
  <1>1. ScheduleInv => ScheduleTypeOK
    BY DEF ScheduleInv, Sound, ScheduleTypeOK
  <1> QED BY <1>1, ScheduleInvHolds, PTL

\* The lists of links and the pool of cells agree, handles and timeslots are
\* unique and links lie within their slotframe, for pools of any size
THEOREM ScheduleListsCorrect == Spec => []ScheduleWellFormed
  <1>1. ScheduleInv => ScheduleWellFormed
    BY DEF ScheduleInv, Sound, ScheduleWellFormed
  <1> QED BY <1>1, ScheduleInvHolds, PTL

\* With room for every neighbor and less than 256 links, the counters of every
\* neighbor are the number of its transmission links
THEOREM ScheduleCountsCorrect ==
    ASSUME RoomForAll
    PROVE  Spec => []CountsInSync
  <1>1. ScheduleInv => CountsInSync
    BY DEF ScheduleInv, CountsInSync
  <1> QED BY <1>1, ScheduleInvHolds, PTL

-----------------------------------------------------------------------------
(* The next active link *)

\* A link is active again within as many slots as its slotframe has
LEMMA TimeOfLink ==
    ASSUME NEW s, Sound(s), NEW c, NEW i, NEW k, At(s, c, i, k), NEW asn \in Nat
    PROVE  LET size == s.slotframe_list[i].size
               t == s.link_memb[c].timeslot
               now == asn % size
           IN  /\ size \in Nat /\ size > 0 /\ t \in Nat /\ t < size /\ now \in Nat /\ now < size
               /\ TimeToTimeslot(s, c, asn) = IF t > now THEN t - now ELSE size + t - now
               /\ TimeToTimeslot(s, c, asn) \in 1 .. size
  <1> DEFINE size == s.slotframe_list[i].size
             t == s.link_memb[c].timeslot
             now == asn % size
             h == s.link_memb[c].slotframe_handle
  <1>1. /\ c \in Cells /\ i \in 1 .. Len(s.slotframe_list) /\ h = s.slotframe_list[i].handle
        /\ t < size
    BY LinkPlace
  <1>2. size \in Nat /\ size > 0 /\ t \in Nat
    BY <1>1, ScheduleFields DEF Sound
  <1>3. Slotframe(s, h).size = size
    BY <1>1, PositionOf
  <1> HIDE DEF size, t, h
  <1>4. now \in Nat /\ now < size
    BY <1>2
  <1>5. TimeToTimeslot(s, c, asn) = IF t > now THEN t - now ELSE size + t - now
    BY <1>3 DEF TimeToTimeslot, t, h
  <1> HIDE DEF now
  <1>6. TimeToTimeslot(s, c, asn) \in 1 .. size
    BY <1>1, <1>2, <1>4, <1>5
  <1> QED BY <1>1, <1>2, <1>4, <1>5, <1>6 DEF size, t, now

\* Of the links of one slotframe no two are active in the same slot
LEMMA TimeTellsLinks ==
    ASSUME NEW s, Sound(s), NEW asn \in Nat, NEW c \in Scheduled(s), NEW d \in Scheduled(s),
           TimeToTimeslot(s, c, asn) = TimeToTimeslot(s, d, asn),
           s.link_memb[c].slotframe_handle = s.link_memb[d].slotframe_handle
    PROVE  c = d
  <1>1. PICK i, k : At(s, c, i, k)
    BY HasPlace DEF Sound
  <1>2. PICK j, m : At(s, d, j, m)
    BY HasPlace DEF Sound
  <1>3. i = j
    BY <1>1, <1>2, LinkPlace
  <1> DEFINE size == s.slotframe_list[i].size
             t == s.link_memb[c].timeslot
             u == s.link_memb[d].timeslot
             now == asn % size
  <1>4. /\ size \in Nat /\ size > 0 /\ t \in Nat /\ t < size /\ now \in Nat /\ now < size
        /\ TimeToTimeslot(s, c, asn) = IF t > now THEN t - now ELSE size + t - now
    BY <1>1, TimeOfLink
  <1>5. /\ u \in Nat /\ u < size
        /\ TimeToTimeslot(s, d, asn) = IF u > now THEN u - now ELSE size + u - now
    BY <1>2, <1>3, TimeOfLink
  <1>6. t = u
    <2> HIDE DEF size, t, u, now
    <2>1. (IF t > now THEN t - now ELSE size + t - now) = (IF u > now THEN u - now ELSE size + u - now)
      BY <1>4, <1>5
    <2>2. CASE t > now
      BY <1>4, <1>5, <2>1, <2>2
    <2>3. CASE ~(t > now)
      BY <1>4, <1>5, <2>1, <2>3
    <2> QED BY <2>2, <2>3
  <1>7. \A x, y \in 1 .. Len(s.slotframe_list[i].links_list) :
           s.link_memb[s.slotframe_list[i].links_list[x]].timeslot
              = s.link_memb[s.slotframe_list[i].links_list[y]].timeslot => x = y
    BY <1>1 DEF Sound, WellFormed, FrameWellFormed, At
  <1> QED BY <1>1, <1>2, <1>3, <1>6, <1>7 DEF At

Transmits(s, c) == "tx" \in Opts(s, c)
Receives(s, c) == "rx" \in Opts(s, c)
HandleOf(s, c) == s.link_memb[c].slotframe_handle

\* By standard, b goes before the link c that overlaps with it
GoesBefore(s, b, c) == \/ Transmits(s, b) /\ ~Transmits(s, c)
                       \/ (Transmits(s, b) <=> Transmits(s, c)) /\ HandleOf(s, b) < HandleOf(s, c)

\* acc is the right result for the links in V
RightFor(s, asn, V, acc) ==
    /\ acc.best \in V /\ acc.time = TimeToTimeslot(s, acc.best, asn)
    /\ \A c \in V : acc.time <= TimeToTimeslot(s, c, asn)
    /\ \A c \in V : TimeToTimeslot(s, c, asn) = acc.time => c = acc.best \/ GoesBefore(s, acc.best, c)
    /\ acc.backup # NoLink => /\ acc.backup \in V /\ Receives(s, acc.backup)
                              /\ TimeToTimeslot(s, acc.backup, asn) = acc.time
    /\ ~Receives(s, acc.best) /\ (\E c \in V : Receives(s, c) /\ TimeToTimeslot(s, c, asn) = acc.time)
           => acc.backup # NoLink
FoundIn(s, asn, V, acc) == IF V = {} THEN acc.best = NoLink /\ acc.backup = NoLink
                            ELSE RightFor(s, asn, V, acc)

\* The link l, active in the same slot as the best so far
LEMMA Overlapping ==
    ASSUME NEW s, Sound(s), NEW asn \in Nat, NEW V \in SUBSET Scheduled(s),
           NEW acc, RightFor(s, asn, V, acc), NEW l \in Scheduled(s),
           TimeToTimeslot(s, l, asn) = acc.time,
           NEW r, r.time = acc.time,
           NEW new, new = NewBest(s, acc.best, l),
           r.best = IF new # NoLink THEN new ELSE acc.best,
           r.backup = IF acc.backup # NoLink THEN acc.backup
                      ELSE IF new # acc.best /\ Receives(s, acc.best) THEN acc.best
                      ELSE IF new # l /\ Receives(s, l) THEN l
                      ELSE NoLink
    PROVE  RightFor(s, asn, V \cup {l}, r)
  <1> DEFINE D(c) == TimeToTimeslot(s, c, asn)
             b == acc.best
             W == V \cup {l}
  <1>1. /\ b \in V /\ acc.time = D(b) /\ \A c \in V : acc.time <= D(c)
        /\ \A c \in V : D(c) = acc.time => c = b \/ GoesBefore(s, b, c)
        /\ acc.backup # NoLink => acc.backup \in V /\ Receives(s, acc.backup) /\ D(acc.backup) = acc.time
        /\ ~Receives(s, b) /\ (\E c \in V : Receives(s, c) /\ D(c) = acc.time) => acc.backup # NoLink
    BY DEF RightFor
  <1>2. /\ Scheduled(s) \subseteq Cells /\ NoLink \notin Cells
        /\ b \in Scheduled(s) /\ b # NoLink /\ l # NoLink
    BY <1>1, ScheduledIn, Constants DEF Sound
  <1>3. \A c \in Scheduled(s) : HandleOf(s, c) \in Nat
    BY <1>2, ScheduleFields DEF Sound, HandleOf
  <1>4. l # b => HandleOf(s, l) # HandleOf(s, b)
    BY <1>1, <1>2, TimeTellsLinks DEF HandleOf
  <1>5. new = IF (Transmits(s, b) <=> Transmits(s, l))
              THEN IF HandleOf(s, l) < HandleOf(s, b) THEN l ELSE NoLink
              ELSE IF Transmits(s, l) THEN l ELSE NoLink
    BY DEF NewBest, Transmits, HandleOf
  <1>6. new = l \/ new = NoLink
    BY <1>5
  <1> HIDE DEF D
  <1>7. CASE new = l
    <2>1. r.best = l /\ GoesBefore(s, l, b)
      BY <1>2, <1>5, <1>7 DEF GoesBefore
    <2>2. ASSUME NEW c \in W, D(c) = acc.time PROVE c = l \/ GoesBefore(s, l, c)
      <3>1. CASE c = b
        BY <2>1, <3>1
      <3>2. CASE c # b /\ c # l
        <4>1. GoesBefore(s, b, c) /\ c \in Scheduled(s)
          BY <1>1, <2>2, <3>2
        <4>2. HandleOf(s, b) \in Nat /\ HandleOf(s, c) \in Nat /\ HandleOf(s, l) \in Nat
          BY <1>2, <1>3, <4>1
        <4> QED BY <2>1, <4>1, <4>2 DEF GoesBefore
      <3> QED BY <3>1, <3>2
    <2>3. l # b
      <3>1. HandleOf(s, b) \in Nat
        BY <1>2, <1>3
      <3> QED BY <2>1, <3>1 DEF GoesBefore
    <2>4. r.backup # NoLink => r.backup \in W /\ Receives(s, r.backup) /\ D(r.backup) = acc.time
      BY <1>1, <1>7
    <2>5. ASSUME ~Receives(s, l), NEW c \in W, Receives(s, c), D(c) = acc.time
          PROVE  r.backup # NoLink
      BY <1>1, <1>2, <1>7, <2>3, <2>5
    <2> QED BY <1>1, <2>1, <2>2, <2>4, <2>5 DEF RightFor, D
  <1>8. CASE new # l
    <2>1. new = NoLink /\ r.best = b
      BY <1>6, <1>8
    <2>2. l = b \/ GoesBefore(s, b, l)
      BY <1>2, <1>3, <1>4, <1>5, <2>1 DEF GoesBefore
    <2>3. r.backup # NoLink => r.backup \in W /\ Receives(s, r.backup) /\ D(r.backup) = acc.time
      BY <1>1, <2>1 DEF D
    <2>4. ASSUME ~Receives(s, b), NEW c \in W, Receives(s, c), D(c) = acc.time
          PROVE  r.backup # NoLink
      BY <1>1, <1>2, <1>8, <2>4
    <2> QED BY <1>1, <2>1, <2>2, <2>3, <2>4 DEF RightFor, D
  <1> QED BY <1>7, <1>8

\* One round of the nested loops, for any link
LEMMA Considered ==
    ASSUME NEW s, Sound(s), NEW asn \in Nat, NEW V \in SUBSET Scheduled(s),
           NEW acc, FoundIn(s, asn, V, acc), NEW l \in Scheduled(s)
    PROVE  FoundIn(s, asn, V \cup {l}, ConsiderLink(s, asn, acc, l))
  <1> DEFINE D(c) == TimeToTimeslot(s, c, asn)
             r == ConsiderLink(s, asn, acc, l)
             new == NewBest(s, acc.best, l)
             W == V \cup {l}
  <1>1. \A c \in Scheduled(s) : D(c) \in Nat
    <2>1. ASSUME NEW c \in Scheduled(s) PROVE D(c) \in Nat
      <3>1. PICK i, k : At(s, c, i, k)
        BY HasPlace DEF Sound
      <3>2. s.slotframe_list[i].size \in Nat /\ D(c) \in 1 .. s.slotframe_list[i].size
        BY <3>1, TimeOfLink
      <3> QED BY <3>2
    <2> QED BY <2>1
  <1>2. Scheduled(s) \subseteq Cells /\ NoLink \notin Cells
    BY ScheduledIn, Constants DEF Sound
  <1>3. W # {}
    OBVIOUS
  <1>4. SUFFICES RightFor(s, asn, W, r)
    BY <1>3 DEF FoundIn
  <1>5. CASE acc.best = NoLink
    <2>1. V = {}
      BY <1>2, <1>5 DEF FoundIn, RightFor
    <2>2. r = [time |-> D(l), best |-> l, backup |-> NoLink]
      BY <1>5 DEF ConsiderLink
    <2>3. r.time = D(l) /\ r.best = l /\ r.backup = NoLink
      BY <2>2
    <2> HIDE DEF r, D
    <2>4. W = {l}
      BY <2>1
    <2>5. D(l) <= D(l)
      BY <1>1
    <2> HIDE DEF W
    <2> QED BY <2>3, <2>4, <2>5 DEF RightFor, D
  <1>6. CASE acc.best # NoLink
    <2>1. V # {} /\ RightFor(s, asn, V, acc)
      BY <1>6 DEF FoundIn
    <2>2. acc.best \in V /\ acc.time = D(acc.best) /\ \A c \in V : acc.time <= D(c)
      BY <2>1 DEF RightFor
    <2>3. acc.time \in Nat /\ D(l) \in Nat
      BY <1>1, <2>2
    <2>4. CASE D(l) < acc.time
      <3>1. r = [time |-> D(l), best |-> l, backup |-> NoLink]
        BY <2>4 DEF ConsiderLink
      <3>2. r.time = D(l) /\ r.best = l /\ r.backup = NoLink
        BY <3>1
      <3> HIDE DEF r, D
      <3>3. \A c \in W : D(c) \in Nat /\ D(l) <= D(c) /\ (D(c) = D(l) => c = l)
        BY <1>1, <2>2, <2>3, <2>4
      <3>4. l \in W
        OBVIOUS
      <3> HIDE DEF W
      <3> QED BY <3>2, <3>3, <3>4 DEF RightFor, D
    <2>5. CASE D(l) > acc.time
      <3>1. r = acc
        BY <1>6, <2>3, <2>5 DEF ConsiderLink
      <3> HIDE DEF r
      <3> QED BY <2>1, <2>3, <2>5, <3>1 DEF RightFor
    <2>6. CASE D(l) = acc.time
      <3>1. r = [time |-> D(l),
                 best |-> IF new # NoLink THEN new ELSE acc.best,
                 backup |-> IF acc.backup # NoLink THEN acc.backup
                            ELSE IF new # acc.best /\ Receives(s, acc.best) THEN acc.best
                            ELSE IF new # l /\ Receives(s, l) THEN l
                            ELSE NoLink]
        BY <1>6, <2>3, <2>6 DEF ConsiderLink, Receives
      <3>2. /\ r.time = acc.time
            /\ r.best = IF new # NoLink THEN new ELSE acc.best
            /\ r.backup = IF acc.backup # NoLink THEN acc.backup
                          ELSE IF new # acc.best /\ Receives(s, acc.best) THEN acc.best
                          ELSE IF new # l /\ Receives(s, l) THEN l
                          ELSE NoLink
        BY <2>6, <3>1
      <3> HIDE DEF r
      <3> QED BY <2>1, <2>6, <3>2, Overlapping
    <2> QED BY <2>3, <2>4, <2>5, <2>6
  <1> QED BY <1>5, <1>6

\* The same for the list of all links
LEMMA LinksRounds ==
    ASSUME NEW q, NEW n \in Nat
    PROVE  \E f : f = [k \in 0 .. n |-> IF k = 0 THEN << >> ELSE f[k - 1] \o q[k].links_list]
  <1> DEFINE IsRun(f, m) == f = [k \in 0 .. m |-> IF k = 0 THEN << >> ELSE f[k - 1] \o q[k].links_list]
             S == {m \in 0 .. n : \E f : IsRun(f, m)}
  <1>1. 0 \in S
    <2>1. IsRun([k \in 0 .. 0 |-> << >>], 0)
      OBVIOUS
    <2>2. \E f : IsRun(f, 0)
      <3> HIDE DEF IsRun
      <3> QED BY <2>1
    <2> QED BY <2>2
  <1>2. ASSUME NEW m \in 0 .. n - 1, m \in S PROVE m + 1 \in S
    <2>1. PICK f : IsRun(f, m)
      BY <1>2
    <2> DEFINE g == [k \in 0 .. m + 1 |-> IF k = m + 1 THEN f[m] \o q[m + 1].links_list ELSE f[k]]
               G == [k \in 0 .. m + 1 |-> IF k = 0 THEN << >> ELSE g[k - 1] \o q[k].links_list]
    <2>2. ASSUME NEW k \in 0 .. m + 1 PROVE g[k] = G[k]
      <3>1. CASE k = m + 1
        BY <3>1
      <3>2. CASE k # m + 1
        <4>1. k \in 0 .. m /\ g[k] = f[k]
          BY <3>2
        <4>2. f[k] = IF k = 0 THEN << >> ELSE f[k - 1] \o q[k].links_list
          BY <2>1, <4>1
        <4>3. k # 0 => k - 1 \in 0 .. m + 1 /\ g[k - 1] = f[k - 1]
          BY <4>1
        <4> QED BY <4>1, <4>2, <4>3
      <3> QED BY <3>1, <3>2
    <2>3. g = G
      BY <2>2
    <2>4. IsRun(g, m + 1)
      BY <2>3
    <2>5. \E x : IsRun(x, m + 1)
      <3> HIDE DEF IsRun, g
      <3> QED BY <2>4
    <2>6. m + 1 \in 0 .. n
      OBVIOUS
    <2> QED BY <2>5, <2>6
  <1> HIDE DEF S
  <1>3. n \in S
    BY <1>1, <1>2, UpTo
  <1> QED BY <1>3 DEF S

\* The two nested loops visit the links in the lists, and no others
LEMMA AllLinksVisited ==
    ASSUME NEW s, Sound(s)
    PROVE  /\ AllLinks(s) \in Seq(Cells) /\ Len(AllLinks(s)) \in Nat
           /\ \A k \in 1 .. Len(AllLinks(s)) : AllLinks(s)[k] \in Scheduled(s)
           /\ \A c \in Scheduled(s) : \E k \in 1 .. Len(AllLinks(s)) : AllLinks(s)[k] = c
  <1> DEFINE q == s.slotframe_list
             n == Len(q)
             links == CHOOSE f : f = [k \in 0 .. n |-> IF k = 0 THEN << >> ELSE f[k - 1] \o q[k].links_list]
  <1>1. n \in Nat /\ \A i \in 1 .. n : q[i].links_list \in Seq(Cells)
    BY ScheduleFields DEF Sound
  <1>2. AllLinks(s) = links[n]
    BY DEF AllLinks
  <1>3. \A c : c \in Scheduled(s) <=> \E i \in 1 .. n : \E m \in 1 .. Len(q[i].links_list) :
                                          q[i].links_list[m] = c
    BY ScheduledIn DEF Sound
  <1> HIDE DEF q, n
  <1>4. links = [k \in 0 .. n |-> IF k = 0 THEN << >> ELSE links[k - 1] \o q[k].links_list]
    BY <1>1, LinksRounds
  <1> HIDE DEF links
  <1> DEFINE Has(x, c) == \E m \in 1 .. Len(x) : x[m] = c
             Fine(x, k) == /\ x \in Seq(Cells)
                           /\ \A c \in Cells : Has(x, c) <=> \E i \in 1 .. k : Has(q[i].links_list, c)
             S == {k \in 0 .. n : Fine(links[k], k)}
  <1>5. 0 \in S
    <2>1. links[0] = << >>
      BY <1>1, <1>4
    <2>2. << >> \in Seq(Cells) /\ Len(<< >>) = 0
      OBVIOUS
    <2>3. Fine(links[0], 0)
      BY <2>1, <2>2
    <2> QED BY <1>1, <2>3
  <1>6. ASSUME NEW k \in 0 .. n - 1, k \in S PROVE k + 1 \in S
    <2> DEFINE x == links[k]
               y == q[k + 1].links_list
               z == links[k + 1]
    <2>1. z = x \o y /\ k + 1 \in 1 .. n /\ k + 1 \in 0 .. n
      <3>1. k + 1 \in 0 .. n /\ k + 1 # 0 /\ (k + 1) - 1 = k
        BY <1>1
      <3> DEFINE F(j) == IF j = 0 THEN << >> ELSE links[j - 1] \o q[j].links_list
      <3>2. links = [j \in 0 .. n |-> F(j)]
        BY <1>4
      <3> HIDE DEF F
      <3>3. z = F(k + 1)
        BY <3>1, <3>2
      <3>4. F(k + 1) = links[k] \o q[k + 1].links_list
        BY <3>1 DEF F
      <3>5. k + 1 \in 1 .. n
        BY <3>1
      <3>6. z = x \o y
        BY <3>3, <3>4
      <3> QED BY <3>1, <3>5, <3>6
    <2>2. Fine(x, k) /\ y \in Seq(Cells)
      BY <1>1, <1>6, <2>1
    <2> HIDE DEF x
    <2>3. /\ z \in Seq(Cells) /\ Len(z) = Len(x) + Len(y) /\ Len(x) \in Nat /\ Len(y) \in Nat
          /\ \A m \in 1 .. Len(x) + Len(y) : z[m] = IF m <= Len(x) THEN x[m] ELSE y[m - Len(x)]
      <3> HIDE DEF y, z
      <3> QED BY <2>1, <2>2, ConcatProperties
    <2> HIDE DEF y, z
    <2>4. ASSUME NEW c \in Cells PROVE Has(z, c) <=> Has(x, c) \/ Has(y, c)
      <3>1. ASSUME NEW m \in 1 .. Len(z), z[m] = c PROVE Has(x, c) \/ Has(y, c)
        <4>1. CASE m <= Len(x)
          BY <2>3, <3>1, <4>1
        <4>2. CASE ~(m <= Len(x))
          <5>1. m - Len(x) \in 1 .. Len(y) /\ y[m - Len(x)] = c
            BY <2>3, <3>1, <4>2
          <5> QED BY <5>1
        <4> QED BY <4>1, <4>2
      <3>2. ASSUME NEW m \in 1 .. Len(x), x[m] = c PROVE Has(z, c)
        <4>1. m \in 1 .. Len(z) /\ z[m] = c
          BY <2>3, <3>2
        <4> QED BY <4>1
      <3>3. ASSUME NEW m \in 1 .. Len(y), y[m] = c PROVE Has(z, c)
        <4>1. /\ m + Len(x) \in 1 .. Len(z) /\ ~(m + Len(x) <= Len(x))
              /\ (m + Len(x)) - Len(x) = m /\ m + Len(x) \in 1 .. Len(x) + Len(y)
          BY <2>3
        <4>2. z[m + Len(x)] = c
          BY <2>3, <3>3, <4>1
        <4> QED BY <4>1, <4>2
      <3> QED BY <3>1, <3>2, <3>3
    <2>5. \A i : i \in 1 .. k + 1 <=> i \in 1 .. k \/ i = k + 1
      BY <1>1
    <2> HIDE DEF Has
    <2>6. \A c \in Cells : Has(z, c) <=> \E i \in 1 .. k + 1 : Has(q[i].links_list, c)
      BY <2>2, <2>4, <2>5 DEF y
    <2>7. Fine(z, k + 1)
      BY <2>3, <2>6
    <2> QED BY <2>1, <2>7 DEF z
  <1>7. n \in S
    <2> HIDE DEF S
    <2>1. \A k \in 0 .. n : k \in S
      BY <1>1, <1>5, <1>6, UpTo
    <2> QED BY <1>1, <2>1
  <1>8. Fine(links[n], n)
    BY <1>7
  <1> DEFINE x == AllLinks(s)
  <1>9. x \in Seq(Cells) /\ \A c \in Cells : Has(x, c) <=> c \in Scheduled(s)
    BY <1>2, <1>3, <1>8
  <1> HIDE DEF x
  <1>10. \A k \in 1 .. Len(x) : x[k] \in Cells
    BY <1>9
  <1>11. Scheduled(s) \subseteq Cells
    BY ScheduledIn DEF Sound
  <1>12. Len(x) \in Nat
    BY <1>9
  <1> QED BY <1>9, <1>10, <1>11, <1>12 DEF x

\* The same for the search of the next active link
LEMMA FoundRounds ==
    ASSUME NEW s, NEW asn, NEW q, NEW z, NEW n \in Nat
    PROVE  \E f : f = [k \in 0 .. n |-> IF k = 0 THEN z ELSE ConsiderLink(s, asn, f[k - 1], q[k])]
  <1> DEFINE IsRun(f, m) == f = [k \in 0 .. m |-> IF k = 0 THEN z
                                                  ELSE ConsiderLink(s, asn, f[k - 1], q[k])]
             S == {m \in 0 .. n : \E f : IsRun(f, m)}
  <1>1. 0 \in S
    <2>1. IsRun([k \in 0 .. 0 |-> z], 0)
      OBVIOUS
    <2>2. \E f : IsRun(f, 0)
      <3> HIDE DEF IsRun
      <3> QED BY <2>1
    <2> QED BY <2>2
  <1>2. ASSUME NEW m \in 0 .. n - 1, m \in S PROVE m + 1 \in S
    <2>1. PICK f : IsRun(f, m)
      BY <1>2
    <2> DEFINE g == [k \in 0 .. m + 1 |-> IF k = m + 1 THEN ConsiderLink(s, asn, f[m], q[m + 1]) ELSE f[k]]
               G == [k \in 0 .. m + 1 |-> IF k = 0 THEN z ELSE ConsiderLink(s, asn, g[k - 1], q[k])]
    <2>2. ASSUME NEW k \in 0 .. m + 1 PROVE g[k] = G[k]
      <3>1. CASE k = m + 1
        BY <3>1
      <3>2. CASE k # m + 1
        <4>1. k \in 0 .. m /\ g[k] = f[k]
          BY <3>2
        <4>2. f[k] = IF k = 0 THEN z ELSE ConsiderLink(s, asn, f[k - 1], q[k])
          BY <2>1, <4>1
        <4>3. k # 0 => k - 1 \in 0 .. m + 1 /\ g[k - 1] = f[k - 1]
          BY <4>1
        <4> QED BY <4>1, <4>2, <4>3
      <3> QED BY <3>1, <3>2
    <2>3. g = G
      BY <2>2
    <2>4. IsRun(g, m + 1)
      BY <2>3
    <2>5. \E x : IsRun(x, m + 1)
      <3> HIDE DEF IsRun, g
      <3> QED BY <2>4
    <2>6. m + 1 \in 0 .. n
      OBVIOUS
    <2> QED BY <2>5, <2>6
  <1> HIDE DEF S
  <1>3. n \in S
    BY <1>1, <1>2, UpTo
  <1> QED BY <1>3 DEF S

\* The pass over the lists finds the right link
LEMMA NextActiveFound ==
    ASSUME NEW s, Sound(s), NEW asn \in Nat
    PROVE  FoundIn(s, asn, Scheduled(s), tsch_schedule_get_next_active_link(s, asn))
  <1> DEFINE q == AllLinks(s)
             n == Len(q)
             z == [time |-> 0, best |-> NoLink, backup |-> NoLink]
             found == CHOOSE f : f = [k \in 0 .. n |-> IF k = 0 THEN z
                                                       ELSE ConsiderLink(s, asn, f[k - 1], q[k])]
  <1>1. /\ n \in Nat /\ \A k \in 1 .. n : q[k] \in Scheduled(s)
        /\ \A c \in Scheduled(s) : \E k \in 1 .. n : q[k] = c
    BY AllLinksVisited
  <1>2. tsch_schedule_get_next_active_link(s, asn) = found[n]
    BY DEF tsch_schedule_get_next_active_link
  <1>3. z.best = NoLink /\ z.backup = NoLink
    OBVIOUS
  <1> HIDE DEF q, n, z
  <1>4. found = [k \in 0 .. n |-> IF k = 0 THEN z ELSE ConsiderLink(s, asn, found[k - 1], q[k])]
    BY <1>1, FoundRounds
  <1> HIDE DEF found
  <1> DEFINE V(k) == {q[j] : j \in 1 .. k}
             S == {k \in 0 .. n : FoundIn(s, asn, V(k), found[k])}
  <1>5. 0 \in S
    <2>1. found[0] = z /\ V(0) = {}
      BY <1>1, <1>4
    <2> QED BY <1>1, <1>3, <2>1 DEF FoundIn
  <1>6. ASSUME NEW k \in 0 .. n - 1, k \in S PROVE k + 1 \in S
    <2> DEFINE l == q[k + 1]
    <2>1. found[k + 1] = ConsiderLink(s, asn, found[k], l) /\ k + 1 \in 0 .. n /\ k + 1 \in 1 .. n
      <3>1. k + 1 \in 0 .. n /\ k + 1 # 0 /\ (k + 1) - 1 = k
        BY <1>1
      <3> QED BY <1>1, <1>4, <3>1
    <2>2. V(k + 1) = V(k) \cup {l}
      <3>1. \A i : i \in 1 .. k + 1 <=> i \in 1 .. k \/ i = k + 1
        BY <1>1
      <3> QED BY <3>1
    <2>3. V(k) \in SUBSET Scheduled(s) /\ l \in Scheduled(s) /\ FoundIn(s, asn, V(k), found[k])
      BY <1>1, <1>6, <2>1
    <2> HIDE DEF V, l
    <2>4. FoundIn(s, asn, V(k) \cup {l}, ConsiderLink(s, asn, found[k], l))
      BY <2>3, Considered
    <2> QED BY <2>1, <2>2, <2>4
  <1>7. n \in S
    <2> HIDE DEF S
    <2>1. \A k \in 0 .. n : k \in S
      BY <1>1, <1>5, <1>6, UpTo
    <2> QED BY <1>1, <2>1
  <1>8. V(n) = Scheduled(s)
    BY <1>1
  <1>9. FoundIn(s, asn, V(n), found[n])
    BY <1>7
  <1> QED BY <1>2, <1>8, <1>9

\* The link that is found comes first, of those that overlap it goes before the
\* others by standard, and the backup can receive, for every schedule and every
\* ASN below MaxSize * MaxSize
THEOREM ScheduleNextActiveCorrect == Spec => []NextActiveCorrect
  <1>1. ASSUME ScheduleInv, NEW asn \in 0 .. MaxSize * MaxSize - 1
        PROVE  LET r == tsch_schedule_get_next_active_link(schedule, asn)
                   D(c) == TimeToTimeslot(schedule, c, asn)
                   Soonest == {c \in Scheduled(schedule) :
                                   \A d \in Scheduled(schedule) : D(c) <= D(d)}
                   Rank(c) == <<IF "tx" \in Opts(schedule, c) THEN 0 ELSE 1,
                                schedule.link_memb[c].slotframe_handle>>
                   Before(x, y) == x[1] < y[1] \/ (x[1] = y[1] /\ x[2] < y[2])
                   CanReceive(c) == "rx" \in Opts(schedule, c)
               IN  IF Scheduled(schedule) = {} THEN r.best = NoLink
                   ELSE /\ r.best \in Soonest /\ r.time = D(r.best)
                        /\ \A c \in Soonest \ {r.best} : Before(Rank(r.best), Rank(c))
                        /\ r.backup # NoLink => r.backup \in Soonest /\ CanReceive(r.backup)
                        /\ ~CanReceive(r.best) /\ (\E c \in Soonest : CanReceive(c))
                               => r.backup # NoLink
    <2> DEFINE s == schedule
               r == tsch_schedule_get_next_active_link(s, asn)
               D(c) == TimeToTimeslot(s, c, asn)
               Soonest == {c \in Scheduled(s) : \A d \in Scheduled(s) : D(c) <= D(d)}
               Rank(c) == <<IF "tx" \in Opts(s, c) THEN 0 ELSE 1, s.link_memb[c].slotframe_handle>>
               Before(x, y) == x[1] < y[1] \/ (x[1] = y[1] /\ x[2] < y[2])
    <2>1. asn \in Nat
      BY SizesBounded
    <2>2. FoundIn(s, asn, Scheduled(s), r)
      BY <1>1, <2>1, NextActiveFound DEF ScheduleInv
    <2> HIDE DEF r
    <2>3. CASE Scheduled(s) = {}
      BY <2>2, <2>3 DEF FoundIn, r
    <2>4. CASE Scheduled(s) # {}
      <3>1. RightFor(s, asn, Scheduled(s), r)
        BY <2>2, <2>4 DEF FoundIn
      <3>2. /\ r.best \in Scheduled(s) /\ r.time = D(r.best)
            /\ \A c \in Scheduled(s) : r.time <= D(c)
            /\ \A c \in Scheduled(s) : D(c) = r.time => c = r.best \/ GoesBefore(s, r.best, c)
            /\ r.backup # NoLink => /\ r.backup \in Scheduled(s) /\ Receives(s, r.backup)
                                    /\ D(r.backup) = r.time
            /\ ~Receives(s, r.best) /\ (\E c \in Scheduled(s) : Receives(s, c) /\ D(c) = r.time)
                   => r.backup # NoLink
        BY <3>1 DEF RightFor
      <3>3. \A c \in Scheduled(s) : D(c) \in Nat
        <4>1. ASSUME NEW c \in Scheduled(s) PROVE D(c) \in Nat
          <5>1. PICK i, k : At(s, c, i, k)
            BY <1>1, HasPlace DEF ScheduleInv, Sound
          <5>2. s.slotframe_list[i].size \in Nat /\ D(c) \in 1 .. s.slotframe_list[i].size
            BY <1>1, <2>1, <5>1, TimeOfLink DEF ScheduleInv
          <5> QED BY <5>2
        <4> QED BY <4>1
      <3> HIDE DEF D
      <3>4. \A c : c \in Soonest <=> c \in Scheduled(s) /\ D(c) = r.time
        BY <3>2, <3>3
      <3>5. \A b, c : GoesBefore(s, b, c) => Before(Rank(b), Rank(c))
        BY DEF GoesBefore, Transmits, HandleOf
      <3> HIDE DEF Soonest, Rank, Before
      <3>6. /\ r.best \in Soonest /\ r.time = D(r.best)
            /\ \A c \in Soonest \ {r.best} : Before(Rank(r.best), Rank(c))
            /\ r.backup # NoLink => r.backup \in Soonest /\ "rx" \in Opts(s, r.backup)
            /\ ~("rx" \in Opts(s, r.best)) /\ (\E c \in Soonest : "rx" \in Opts(s, c))
                   => r.backup # NoLink
        BY <3>2, <3>4, <3>5 DEF Receives
      <3> QED BY <2>4, <3>6 DEF Soonest, Rank, Before, D, r
    <2> QED BY <2>3, <2>4
  <1>2. ScheduleInv => NextActiveCorrect
    BY <1>1 DEF NextActiveCorrect
  <1> QED BY <1>2, ScheduleInvHolds, PTL

=============================================================================
