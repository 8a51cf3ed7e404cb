--------------------------- MODULE TschTimingProofs ---------------------------
(***************************************************************************)
(* For every word width, slot length and drift: check_timer_miss compares  *)
(* true elapsed time with the offset although all three of its arguments   *)
(* wrap, and the loop that skips missed slots therefore never arms the     *)
(* rtimer for a slot start that has passed.                                *)
(***************************************************************************)
EXTENDS TschTiming, TLAPS

-----------------------------------------------------------------------------
(* Arithmetic on words that wrap *)

Pos == Nat \ {0}

LEMMA Widths == W \in Pos /\ LS \in Pos /\ MS \in Pos
  BY WordAssumption DEF Pos

LEMMA ModRange == \A N \in Pos, x \in Int : x % N \in 0 .. N - 1
  BY DEF Pos

LEMMA ModSmall == \A N \in Pos : \A x \in 0 .. N - 1 : x % N = x
  BY DEF Pos

LEMMA ModUnique == \A N \in Pos, q \in Int : \A r \in 0 .. N - 1 : (q * N + r) % N = r
  BY DEF Pos

LEMMA DivMod == \A N \in Pos, x \in Int : x \div N \in Int /\ x = (x \div N) * N + (x % N)
  <1> TAKE N \in Pos, x \in Int
  <1>1. x \div N \in Int
    BY DEF Pos
  <1>2. x = (x \div N) * N + (x % N)
    BY Z3 DEF Pos
  <1> QED BY <1>1, <1>2

\* A sum of two words wraps at most once
LEMMA ModSum == \A N \in Pos : \A x, y \in 0 .. N - 1 :
                    (x + y) % N = IF x + y < N THEN x + y ELSE x + y - N
  BY DEF Pos

\* Whole turns make no difference
LEMMA ModTurns == \A N \in Pos, q, x \in Int : (q * N + x) % N = x % N
  <1> TAKE N \in Pos, q, x \in Int
  <1> DEFINE p == x \div N
             r == x % N
  <1>1. p \in Int /\ r \in 0 .. N - 1 /\ x = p * N + r
    BY DivMod, ModRange
  <1> HIDE DEF p, r
  <1>2. q * N + x = (q + p) * N + r /\ q + p \in Int
    BY <1>1 DEF Pos
  <1>3. (q * N + x) % N = r
    BY <1>1, <1>2, ModUnique
  <1> QED BY <1>3 DEF r

\* Adding to a wrapped word is wrapping the sum
LEMMA ModAdd == \A N \in Pos, x, y \in Int : ((x % N) + y) % N = (x + y) % N
  <1> TAKE N \in Pos, x, y \in Int
  <1> DEFINE q == x \div N
             r == x % N
  <1>1. q \in Int /\ r \in 0 .. N - 1 /\ x = q * N + r
    BY DivMod, ModRange
  <1> HIDE DEF q, r
  <1>2. x + y = q * N + (r + y) /\ r + y \in Int
    BY <1>1 DEF Pos
  <1>3. (x + y) % N = (r + y) % N
    BY <1>1, <1>2, ModTurns
  <1> QED BY <1>3 DEF r

\* The distance between two words is that of what they stand for
LEMMA ModDistance == \A N \in Pos, x \in Int : \A y \in 0 .. N - 1 :
                         /\ (((x + y) % N) - x) % N = y
                         /\ (((x + y) % N) - (x % N)) % N = y
  <1> TAKE N \in Pos, x \in Int
  <1> TAKE y \in 0 .. N - 1
  <1> DEFINE q == (x + y) \div N
             r == (x + y) % N
             p == x \div N
             o == x % N
  <1>0. x + y \in Int
    BY DEF Pos
  <1>1. q \in Int /\ r \in 0 .. N - 1 /\ x + y = q * N + r
    BY <1>0, DivMod, ModRange
  <1>2. p \in Int /\ o \in 0 .. N - 1 /\ x = p * N + o
    BY DivMod, ModRange
  <1> HIDE DEF q, r, p, o
  <1>3. (r - x) % N = y
    <2>1. r - x = (0 - q) * N + y /\ 0 - q \in Int
      BY <1>1 DEF Pos
    <2> QED BY <2>1, ModUnique
  <1>4. (r - o) % N = y
    <2>1. r - o = (p - q) * N + y /\ p - q \in Int
      BY <1>1, <1>2 DEF Pos
    <2> QED BY <2>1, ModUnique
  <1> QED BY <1>3, <1>4 DEF r, o

\* What the code's comparison of wrapping words decides: with elapsed ticks
\* since ref_time, fewer than one turn of the clock, it says whether offset
\* ticks have passed.
THEOREM TimerMissCorrect ==
    \A ref_time, offset, elapsed \in 0 .. W - 1 :
        check_timer_miss(ref_time, offset, (ref_time + elapsed) % W)
            <=> elapsed >= offset
  <1> TAKE ref_time, offset, elapsed \in 0 .. W - 1
  <1> DEFINE now == (ref_time + elapsed) % W
             target == (ref_time + offset) % W
  <1>1. now = IF ref_time + elapsed < W THEN ref_time + elapsed
              ELSE ref_time + elapsed - W
    BY ModSum, Widths
  <1>2. target = IF ref_time + offset < W THEN ref_time + offset
                 ELSE ref_time + offset - W
    BY ModSum, Widths
  <1>3. check_timer_miss(ref_time, offset, now)
            = IF (now < ref_time) = (target < ref_time)
              THEN target <= now ELSE now < ref_time
    BY DEF check_timer_miss
  <1> HIDE DEF now, target
  <1>4. /\ (now < ref_time) <=> (ref_time + elapsed >= W)
        /\ (target < ref_time) <=> (ref_time + offset >= W)
        /\ now \in Int /\ target \in Int
    BY <1>1, <1>2, WordAssumption
  <1>5. (IF (now < ref_time) = (target < ref_time)
         THEN target <= now ELSE now < ref_time) <=> elapsed >= offset
    BY <1>1, <1>2, <1>4, WordAssumption
  <1>6. check_timer_miss(ref_time, offset, now) <=> elapsed >= offset
    BY <1>3, <1>5
  <1> QED BY <1>6 DEF now

\* The distance to the next active slot is positive and, with the longest
\* slot operation, still less than one turn of the clock
LEMMA OffsetRange ==
    ASSUME NEW diff \in 1 .. MaxDiff, NEW d \in Drifts \cup {0}
    PROVE  /\ diff * SlotLength + d \in Int
           /\ diff * SlotLength + d > RTIMER_GUARD
           /\ diff * SlotLength + d + MaxWork < W
  <1>1. d \in Int /\ SlotLength + d > RTIMER_GUARD
        /\ MaxDiff * SlotLength + d + MaxWork < W
    BY TimingAssumption
  <1>2. diff \in Int /\ SlotLength \in Nat /\ MaxDiff \in Nat
        /\ diff >= 1 /\ diff <= MaxDiff
    BY TimingAssumption
  <1>3. diff * SlotLength >= SlotLength /\ diff * SlotLength <= MaxDiff * SlotLength
    BY <1>2, SMTT(30)
  <1>4. diff * SlotLength \in Int /\ MaxDiff * SlotLength \in Int
    BY <1>2
  <1> QED BY <1>1, <1>2, <1>3, <1>4, TimingAssumption, WordAssumption

LEMMA WorkShort == MaxWork \in 0 .. W - 1
  <1>1. SlotLength \in Nat /\ MaxDiff \in Nat /\ MaxWork \in Nat
        /\ MaxDiff * SlotLength + 0 + MaxWork < W
    BY TimingAssumption
  <1>2. MaxDiff * SlotLength \in Nat
    BY <1>1, SMTT(30)
  <1> QED BY <1>1, <1>2, WordAssumption

-----------------------------------------------------------------------------
(* Slots on time *)

\* The inductive invariant: SlotsOnTime, and while the loop runs it is late
\* for the current slot's start by no more than the longest slot operation
IInv == /\ time \in Int /\ start \in Int
        /\ drift_correction \in Drifts \cup {0}
        /\ pc \in {"armed", "slot", "loop"}
        /\ SlotsOnTime
        /\ pc = "loop" => time - start \in 0 .. MaxWork

LEMMA InitIInv == Init => IInv
  BY WorkShort, WordAssumption DEF Init, IInv, SlotsOnTime

LEMMA WakeIInv == IInv /\ Wake => IInv'
  <1> SUFFICES ASSUME IInv, Wake PROVE IInv'
    OBVIOUS
  <1>1. start - time \in 0 .. W - 1 /\ start = time + (start - time)
    BY WordAssumption DEF IInv, Wake, SlotsOnTime
  <1>2. TicksUntil(current_slot_start) = start - time
    <2>1. (((time + (start - time)) % W) - time) % W = start - time
      BY <1>1, ModDistance, Widths DEF IInv
    <2> QED BY <1>1, <2>1 DEF TicksUntil, IInv, SlotsOnTime
  <1>3. time' = start
    BY <1>2 DEF Wake, IInv
  <1> QED BY <1>3 DEF Wake, IInv, SlotsOnTime

LEMMA WorkIInv == IInv /\ Work => IInv'
  <1> SUFFICES ASSUME IInv, Work PROVE IInv'
    OBVIOUS
  <1>1. PICK w \in 0 .. MaxWork : time' = time + w
    BY DEF Work
  <1>2. time' \in Int /\ time' - start \in 0 .. MaxWork
    BY <1>1, WorkShort, WordAssumption DEF IInv, SlotsOnTime, Work
  <1> QED BY <1>2 DEF Work, IInv, SlotsOnTime

LEMMA ScheduleIInv == IInv /\ ScheduleNext => IInv'
  <1> SUFFICES ASSUME IInv, ScheduleNext PROVE IInv'
    OBVIOUS
  <1>1. PICK diff \in 1 .. MaxDiff :
            /\ current_slot_start' = (current_slot_start + (diff * SlotLength + drift_correction)) % W
            /\ start' = start + (diff * SlotLength + drift_correction)
            /\ tsch_schedule_slot_operation(current_slot_start,
                                            (diff * SlotLength + drift_correction) % W)
    BY DEF ScheduleNext
  <1> DEFINE off == diff * SlotLength + drift_correction
             late == time - start
  <1>2. off \in Int /\ off > RTIMER_GUARD /\ off + MaxWork < W /\ RTIMER_GUARD \in Nat
    BY OffsetRange, TimingAssumption DEF IInv
  <1>3. current_slot_start' = (current_slot_start + off) % W /\ start' = start + off
    BY <1>1
  <1>4. tsch_schedule_slot_operation(current_slot_start, off % W)
    BY <1>1
  <1> HIDE DEF off
  <1>5. late \in 0 .. MaxWork /\ late \in 0 .. W - 1 /\ time = start + late
        /\ MaxWork \in Nat /\ start \in Int /\ current_slot_start = start % W
    BY WorkShort, WordAssumption DEF IInv, ScheduleNext, SlotsOnTime
  <1> HIDE DEF late
  <1>6. off \in 0 .. W - 1 /\ off - RTIMER_GUARD \in 0 .. W - 1
    BY <1>2, <1>5, WordAssumption
  <1>7. off % W = off /\ (off - RTIMER_GUARD) % W = off - RTIMER_GUARD
    BY <1>6, ModSmall, Widths
  <1>8. time % W = (current_slot_start + late) % W
    BY <1>5, ModAdd, Widths
  <1>9. current_slot_start \in 0 .. W - 1
    BY <1>5, ModRange, Widths
  <1>10. check_timer_miss(current_slot_start, off - RTIMER_GUARD, time % W)
            <=> late >= off - RTIMER_GUARD
    BY <1>5, <1>6, <1>8, <1>9, TimerMissCorrect
  <1>11. start' \in Int /\ current_slot_start' = start' % W
    BY <1>2, <1>3, <1>5, ModAdd, Widths
  <1>12. drift_correction' \in Drifts \cup {0}
    BY DEF ScheduleNext
  <1>13. CASE late >= off - RTIMER_GUARD
    <2>1. pc' = "loop" /\ time' = IF time < start + off THEN start + off ELSE time
      BY <1>4, <1>7, <1>10, <1>13 DEF tsch_schedule_slot_operation
    <2>2. time' \in Int /\ time' - start' \in 0 .. MaxWork
      BY <1>2, <1>3, <1>5, <2>1
    <2> QED BY <1>11, <1>12, <2>1, <2>2 DEF IInv, SlotsOnTime
  <1>14. CASE late < off - RTIMER_GUARD
    <2>1. pc' = "armed" /\ time' = time
      BY <1>2, <1>4, <1>5, <1>7, <1>10, <1>14 DEF tsch_schedule_slot_operation
    <2>2. time' \in Int /\ time' < start' /\ start' - time' < W
      BY <1>2, <1>3, <1>5, <1>6, <1>14, <2>1, WordAssumption
    <2> QED BY <1>11, <1>12, <2>1, <2>2 DEF IInv, SlotsOnTime
  <1> QED BY <1>2, <1>5, <1>13, <1>14

LEMMA NextIInv == IInv /\ [Next]_vars => IInv'
  <1>1. IInv /\ UNCHANGED vars => IInv'
    BY DEF IInv, SlotsOnTime, vars
  <1> QED BY <1>1, WakeIInv, WorkIInv, ScheduleIInv DEF Next

\* Whatever deadlines it missed, a node acts on a slot exactly when that
\* slot starts, and only arms the rtimer for a start still to come.
THEOREM TimingSlotsOnTime == Spec => []SlotsOnTime
  <1>1. IInv => SlotsOnTime
    BY DEF IInv
  <1> QED BY InitIInv, NextIInv, <1>1, PTL DEF Spec

-----------------------------------------------------------------------------
(* The ASN *)

\* Adding less than a turn of the low word: the carry is noticed, and the two
\* words together count modulo LS * MS
LEMMA IncAsn ==
    ASSUME NEW a \in Asn, NEW k \in 0 .. MaxDiff
    PROVE  LET new == TSCH_ASN_INC(a, k)
           IN  /\ new \in Asn
               /\ new.ls4b = (a.ls4b + k) % LS
               /\ Value(new) = (Value(a) + k) % (LS * MS)
               /\ TSCH_ASN_DEC(new, k) = a
  <1> DEFINE new == TSCH_ASN_INC(a, k)
             l == a.ls4b
             m == a.ms1b
             n == (l + k) % LS
             c == (m + 1) % MS
  <1>1. l \in 0 .. LS - 1 /\ m \in 0 .. MS - 1 /\ a = [ls4b |-> l, ms1b |-> m]
    BY DEF Asn
  <1>2. k \in 0 .. LS - 1 /\ LS \in Nat /\ MS \in Nat /\ LS > 0 /\ MS > 0
    BY WordAssumption, TimingAssumption, AsnAssumption
  <1>3. n = IF l + k < LS THEN l + k ELSE l + k - LS
    BY <1>1, <1>2, ModSum, Widths
  <1>4. c = IF m + 1 < MS THEN m + 1 ELSE 0
    BY <1>1, <1>2
  <1>5. new = [ls4b |-> n, ms1b |-> IF n < l THEN c ELSE m]
    BY DEF TSCH_ASN_INC
  <1> HIDE DEF l, m, n, c, new
  <1>6. n < l <=> l + k >= LS
    BY <1>1, <1>2, <1>3
  <1>7. new \in Asn
    BY <1>1, <1>2, <1>3, <1>4, <1>5 DEF Asn
  <1>8. Value(new) = (Value(a) + k) % (LS * MS)
    <2> DEFINE P == m * LS
               T == LS * MS
               v == P + l
    <2>1. P \in Nat /\ T \in Pos
      BY <1>1, <1>2, SMTT(30) DEF Pos
    <2>2. (m + 1) * LS = P + LS /\ (m + 1 = MS => P + LS = T)
      BY <1>1, <1>2
    <2>3. P + LS <= T
      BY <1>1, <1>2, <2>2, SMTT(30)
    <2>4. Value(a) = v
      BY DEF Value, l, m
    <2>5. Value(new) = IF n < l THEN (c * LS) + n ELSE P + n
      BY <1>5 DEF Value
    <2>6. c * LS = IF m + 1 < MS THEN P + LS ELSE 0
      BY <1>1, <1>2, <1>4, <2>2
    <2>7. m + 1 < MS => P + LS + LS <= T
      <3> SUFFICES ASSUME m + 1 < MS PROVE P + LS + LS <= T
        OBVIOUS
      <3>1. (m + 2) * LS = P + LS + LS
        BY <1>1, <1>2
      <3>2. (m + 2) * LS <= MS * LS
        BY <1>1, <1>2, SMTT(30)
      <3> QED BY <1>1, <1>2, <3>1, <3>2
    <2> HIDE DEF P, T, v
    <2>8. v \in 0 .. T - 1 /\ v = P + l
      BY <1>1, <1>2, <2>1, <2>3 DEF v, Pos
    <2>9. CASE l + k < LS
      <3>1. Value(new) = v + k /\ v + k \in 0 .. T - 1
        BY <1>1, <1>2, <1>3, <1>6, <2>1, <2>3, <2>5, <2>8, <2>9 DEF Pos
      <3> QED BY <2>1, <2>4, <3>1, ModSmall DEF T
    <2>10. CASE l + k >= LS /\ m + 1 < MS
      <3>1. Value(new) = v + k /\ v + k \in 0 .. T - 1
        BY <1>1, <1>2, <1>3, <1>6, <2>1, <2>5, <2>6, <2>7, <2>8, <2>10 DEF Pos
      <3> QED BY <2>1, <2>4, <3>1, ModSmall DEF T
    <2>11. CASE l + k >= LS /\ m + 1 = MS
      <3>1. Value(new) = v + k - T /\ v + k - T \in 0 .. T - 1
        BY <1>1, <1>2, <1>3, <1>6, <2>1, <2>2, <2>5, <2>6, <2>8, <2>11 DEF Pos
      <3>2. (1 * T + (v + k - T)) % T = v + k - T
        BY <2>1, <3>1, ModUnique
      <3>3. 1 * T + (v + k - T) = v + k
        BY <1>2, <2>1, <2>8 DEF Pos
      <3> QED BY <2>4, <3>1, <3>2, <3>3 DEF T
    <2> QED BY <1>1, <1>2, <2>9, <2>10, <2>11
  <1>9. TSCH_ASN_DEC(new, k) = a
    <2> DEFINE b == (n - k) % LS
               h == (c - 1) % MS
    <2>1. b = l
      <3>1. (((l + k) % LS) - k) % LS = l
        BY <1>1, <1>2, ModDistance, Widths
      <3> QED BY <3>1 DEF n
    <2>2. h = m
      <3>1. (((m + 1) % MS) - 1) % MS = m
        BY <1>1, ModDistance, Widths
      <3> QED BY <3>1 DEF c
    <2>3. TSCH_ASN_DEC(new, k)
            = [ls4b |-> b, ms1b |-> IF b > n THEN (new.ms1b - 1) % MS ELSE new.ms1b]
      BY <1>5 DEF TSCH_ASN_DEC
    <2> HIDE DEF b, h
    <2>4. b > n <=> n < l
      BY <1>1, <1>2, <1>3, <2>1
    <2>5. (IF b > n THEN (new.ms1b - 1) % MS ELSE new.ms1b) = m
      BY <1>5, <2>2, <2>4 DEF h
    <2> QED BY <1>1, <2>1, <2>3, <2>5
  <1>10. new.ls4b = n
    BY <1>5
  <1> QED BY <1>7, <1>8, <1>9, <1>10 DEF new, n, l

\* The low word that TSCH_ASN_MOD adds in is the remainder of the whole, as
\* the remainder of the high word is scaled by that of 2^32
LEMMA ModAsn ==
    ASSUME NEW a \in Asn, NEW d \in Divisors
    PROVE  TSCH_ASN_MOD(a, TSCH_ASN_DIVISOR_INIT(d)) = Value(a) % d
  <1> DEFINE l == a.ls4b
             m == a.ms1b
             rem == (((LS - 1) % d) + 1) % d
             x == m * rem
  <1>1. l \in 0 .. LS - 1 /\ m \in 0 .. MS - 1 /\ LS \in Nat /\ MS \in Nat
    BY WordAssumption DEF Asn
  <1>2. d \in Pos /\ IntSize \in Nat /\ (MS - 1) * (d - 1) < IntSize
    BY DivisorAssumption, WordAssumption DEF Pos
  <1>3. rem = LS % d
    <2>1. rem = ((LS - 1) + 1) % d
      BY <1>1, <1>2, ModAdd
    <2>2. (LS - 1) + 1 = LS
      BY <1>1
    <2> QED BY <2>1, <2>2
  <1>4. rem \in 0 .. d - 1 /\ LS \div d \in Int /\ LS = (LS \div d) * d + rem
    BY <1>1, <1>2, <1>3, DivMod, ModRange
  <1>5. TSCH_ASN_MOD(a, TSCH_ASN_DIVISOR_INIT(d)) = ((l % d) + ((x % IntSize) % d)) % d
    BY DEF TSCH_ASN_MOD, TSCH_ASN_DIVISOR_INIT
  <1> HIDE DEF l, m, rem
  <1>6. x \in 0 .. IntSize - 1
    <2>1. m * rem <= (MS - 1) * rem /\ (MS - 1) * rem <= (MS - 1) * (d - 1) /\ m * rem >= 0
      BY <1>1, <1>2, <1>4, SMTT(30) DEF Pos
    <2>2. m * rem \in Int /\ (MS - 1) * rem \in Int /\ (MS - 1) * (d - 1) \in Int
      BY <1>1, <1>2, <1>4 DEF Pos
    <2> QED BY <1>2, <2>1, <2>2
  <1>7. x % IntSize = x /\ x \in Int
    BY <1>2, <1>6, ModSmall DEF Pos
  <1> HIDE DEF x
  <1>8. ((l % d) + (x % d)) % d = (l + x) % d
    <2>1. ((l % d) + (x % d)) % d = (l + (x % d)) % d
      BY <1>1, <1>2, <1>7, ModAdd, ModRange
    <2>2. x % d \in Int
      BY <1>2, <1>7, ModRange
    <2>3. l + (x % d) = (x % d) + l /\ l + x = x + l
      BY <1>1, <1>7, <2>2
    <2>4. ((x % d) + l) % d = (x + l) % d
      BY <1>1, <1>2, <1>7, ModAdd
    <2> QED BY <2>1, <2>3, <2>4
  <1>9. Value(a) = (m * (LS \div d)) * d + (l + x) /\ m * (LS \div d) \in Int /\ l + x \in Int
    <2> DEFINE q == LS \div d
    <2> HIDE DEF q
    <2>1. m * LS = m * (q * d + rem)
      BY <1>4 DEF q
    <2>2. m * (q * d + rem) = (m * q) * d + m * rem /\ m * q \in Int
      BY <1>1, <1>2, <1>4, SMTT(30) DEF q, Pos
    <2>3. Value(a) = m * LS + l
      BY DEF Value, m, l
    <2>4. (m * q) * d \in Int /\ Value(a) = (m * q) * d + x + l
      BY <1>2, <2>1, <2>2, <2>3 DEF x, Pos
    <2> HIDE DEF x
    <2>5. Value(a) = (m * q) * d + (l + x) /\ l + x \in Int
      BY <1>1, <1>7, <2>4
    <2> QED BY <2>2, <2>5 DEF q
  <1> QED BY <1>2, <1>5, <1>7, <1>8, <1>9, ModTurns

\* The inductive invariant: the words are those of the true slot counts
AsnInv == /\ tsch_current_asn \in Asn /\ last_sync_asn \in Asn
          /\ slots \in Nat /\ synced \in Nat /\ synced <= slots
          /\ tsch_current_asn.ls4b = slots % LS
          /\ last_sync_asn.ls4b = synced % LS
          /\ Value(tsch_current_asn) = slots % (LS * MS)

LEMMA InitAsnInv == Init => AsnInv
  <1> SUFFICES ASSUME Init PROVE AsnInv
    OBVIOUS
  <1>1. PICK l \in 0 .. LS - 1, m \in 0 .. MS - 1 :
            tsch_current_asn = [ls4b |-> l, ms1b |-> m] /\ slots = m * LS + l
    BY DEF Init, TSCH_ASN_INIT
  <1>2. LS \in Nat /\ MS \in Nat /\ l \in Nat /\ m \in Nat /\ l < LS /\ m <= MS - 1
    BY <1>1, WordAssumption
  <1>3. m * LS \in Nat /\ LS * MS \in Pos
    BY <1>2, WordAssumption, SMTT(30) DEF Pos
  <1>4. m * LS + LS <= LS * MS
    <2>1. m * LS + LS = (m + 1) * LS
      BY <1>2
    <2>2. (m + 1) * LS <= MS * LS
      BY <1>2, SMTT(30)
    <2> QED BY <1>2, <2>1, <2>2
  <1>5. slots \in 0 .. (LS * MS) - 1
    BY <1>1, <1>2, <1>3, <1>4 DEF Pos
  <1>6. slots % (LS * MS) = slots
    BY <1>3, <1>5, ModSmall
  <1>7. slots % LS = l
    BY <1>1, <1>2, ModUnique, Widths
  <1>8. Value(tsch_current_asn) = slots /\ tsch_current_asn.ls4b = l
    BY <1>1 DEF Value
  <1>9. tsch_current_asn \in Asn
    BY <1>1 DEF Asn
  <1> QED BY <1>5, <1>6, <1>7, <1>8, <1>9 DEF Init, AsnInv

LEMMA NextAsnInv == AsnInv /\ [Next]_vars => AsnInv'
  <1> SUFFICES ASSUME AsnInv, [Next]_vars PROVE AsnInv'
    OBVIOUS
  <1>1. CASE ScheduleNext
    <2>1. PICK diff \in 1 .. MaxDiff :
              /\ tsch_current_asn' = TSCH_ASN_INC(tsch_current_asn, diff)
              /\ slots' = slots + diff
      BY <1>1 DEF ScheduleNext
    <2>2. diff \in 0 .. MaxDiff /\ diff \in Nat
      BY TimingAssumption
    <2>3. /\ tsch_current_asn' \in Asn
          /\ tsch_current_asn'.ls4b = (tsch_current_asn.ls4b + diff) % LS
          /\ Value(tsch_current_asn') = (Value(tsch_current_asn) + diff) % (LS * MS)
      BY <2>1, <2>2, IncAsn DEF AsnInv
    <2>4. LS * MS \in Pos
      BY WordAssumption, SMTT(30) DEF Pos
    <2>5. ((slots % LS) + diff) % LS = slots' % LS
      BY <2>1, <2>2, ModAdd, Widths DEF AsnInv
    <2>6. ((slots % (LS * MS)) + diff) % (LS * MS) = slots' % (LS * MS)
      BY <2>1, <2>2, <2>4, ModAdd DEF AsnInv
    <2>7. Value(tsch_current_asn)' = Value(tsch_current_asn')
      BY DEF Value
    <2> QED BY <1>1, <2>1, <2>2, <2>3, <2>5, <2>6, <2>7 DEF AsnInv, ScheduleNext
  <1>2. CASE Wake
    BY <1>2 DEF Wake, AsnInv, Value
  <1>3. CASE Work
    BY <1>3 DEF Work, AsnInv, Value
  <1>4. CASE UNCHANGED vars
    BY <1>4 DEF vars, AsnInv, Value
  <1> QED BY <1>1, <1>2, <1>3, <1>4 DEF Next

LEMMA AsnInvariant == Spec => []AsnInv
  BY InitAsnInv, NextAsnInv, PTL DEF Spec

\* The two words of the ASN count all slots, skipped ones included, through
\* every carry of TSCH_ASN_INC, and TSCH_ASN_DEC undoes it: for words of any
\* width.
THEOREM TimingAsnCountsSlots == Spec => []AsnCountsSlots
  <1>1. AsnInv => AsnCountsSlots
    BY IncAsn DEF AsnInv, AsnCountsSlots
  <1> QED BY <1>1, AsnInvariant, PTL

\* TSCH_ASN_MOD gives the timeslot and the channel that every other node
\* computes, although its product has the width of an int.
THEOREM TimingModIsRemainder == Spec => []ModIsRemainder
  <1>1. AsnInv => ModIsRemainder
    BY ModAsn DEF AsnInv, ModIsRemainder
  <1> QED BY <1>1, AsnInvariant, PTL

\* The difference of the low words, by which a node decides that it is out of
\* sync, is the number of slots since the last synchronization.
THEOREM TimingDiffIsElapsed == Spec => []DiffIsElapsed
  <1>1. AsnInv => DiffIsElapsed
    <2> SUFFICES ASSUME AsnInv, slots - synced < LS
                 PROVE  (tsch_current_asn.ls4b - last_sync_asn.ls4b) % LS = slots - synced
      BY DEF DiffIsElapsed, TSCH_ASN_DIFF
    <2>1. slots - synced \in 0 .. LS - 1 /\ slots = synced + (slots - synced)
      BY WordAssumption DEF AsnInv
    <2>2. (((synced + (slots - synced)) % LS) - (synced % LS)) % LS = slots - synced
      BY <2>1, ModDistance, Widths DEF AsnInv
    <2> QED BY <2>1, <2>2 DEF AsnInv
  <1> QED BY <1>1, AsnInvariant, PTL

\* Every word that the timing code keeps stays within its width, and the time
\* of a slot's start never goes back below zero, whatever the drift.
THEOREM TimingTypeOK == Spec => []TypeOK
  <1> DEFINE Inv == IInv /\ AsnInv /\ time \in Nat /\ start \in Nat
  <1>1. Init => Inv
    BY InitIInv, InitAsnInv, WordAssumption DEF Init
  <1>2. Inv /\ [Next]_vars => Inv'
    <2> SUFFICES ASSUME Inv, [Next]_vars PROVE time' \in Nat /\ start' \in Nat
      BY NextIInv, NextAsnInv
    <2>1. CASE Wake
      <3>1. TicksUntil(current_slot_start) \in Nat
        <4>1. current_slot_start - time \in Int
          BY ModRange, Widths DEF IInv, SlotsOnTime
        <4> QED BY <4>1, ModRange, Widths DEF TicksUntil, Pos
      <3> QED BY <2>1, <3>1 DEF Wake
    <2>2. CASE Work
      BY <2>2, TimingAssumption DEF Work
    <2>3. CASE ScheduleNext
      <3>1. PICK diff \in 1 .. MaxDiff :
                /\ start' = start + (diff * SlotLength + drift_correction)
                /\ tsch_schedule_slot_operation(current_slot_start,
                                                (diff * SlotLength + drift_correction) % W)
        BY <2>3 DEF ScheduleNext
      <3> DEFINE off == diff * SlotLength + drift_correction
      <3>2. off \in Int /\ off > RTIMER_GUARD /\ RTIMER_GUARD \in Nat
        BY OffsetRange, TimingAssumption DEF IInv
      <3>3. off % W \in Nat
        BY <3>2, ModRange, Widths DEF Pos
      <3>4. time' = time \/ time' = start + (off % W)
        BY <3>1 DEF tsch_schedule_slot_operation
      <3> HIDE DEF off
      <3>5. start' = start + off
        BY <3>1 DEF off
      <3> QED BY <3>2, <3>3, <3>4, <3>5
    <2>4. CASE UNCHANGED vars
      BY <2>4 DEF vars
    <2> QED BY <2>1, <2>2, <2>3, <2>4 DEF Next
  <1>3. Inv => TypeOK
    BY ModRange, Widths DEF IInv, SlotsOnTime, AsnInv, TypeOK
  <1> QED BY <1>1, <1>2, <1>3, PTL DEF Spec
=============================================================================
