------------------------------ MODULE TschTiming ------------------------------
(***************************************************************************)
(* How a TSCH node keeps its Absolute Slot Number (ASN) and its rtimer in  *)
(* step: the ASN arithmetic of tsch-asn.h, check_timer_miss and            *)
(* tsch_schedule_slot_operation, and the loop at the end of                *)
(* tsch_slot_operation that moves both to the next active slot and skips   *)
(* slots whose deadline it missed.  All words wrap: the rtimer at W, the   *)
(* two parts of the ASN at LS and MS, the product in TSCH_ASN_MOD at       *)
(* IntSize.                                                                *)
(*                                                                         *)
(* The variables time, start, slots and synced are not in the code: they   *)
(* are the true time and slot count, which never wrap, against which the   *)
(* code's wrapping words are judged.                                       *)
(*                                                                         *)
(* The definitions marked "Faulty variant" are not part of the             *)
(* specification: each is a plausible mistake that a property rejects when *)
(* it replaces the definition below it.                                    *)
(***************************************************************************)
EXTENDS Integers

CONSTANTS
    W,              \* number of values of rtimer_clock_t
    LS, MS,         \* number of values of asn.ls4b and of asn.ms1b
    IntSize,        \* number of non-negative values of an int product
    Divisors,       \* slotframe sizes and hopping sequence lengths
    SlotLength,     \* tsch_ts_timeslot_length, in ticks
    RTIMER_GUARD,
    MaxDiff,        \* slots to the next active link, at most
    MaxWork,        \* ticks a slot operation can last
    Drifts,         \* values drift_correction can take
    MaxSlots        \* bound on the slots explored

ASSUME WordAssumption ==
    /\ W \in Nat \ {0} /\ LS \in Nat \ {0} /\ MS \in Nat \ {0}

\* A slot and its skipped successors last less than one turn of the rtimer:
\* check_timer_miss "assumes a single overflow and ref time prior to now".
ASSUME TimingAssumption ==
    /\ SlotLength \in Nat /\ RTIMER_GUARD \in Nat /\ MaxDiff \in Nat /\ MaxWork \in Nat
    /\ \A d \in Drifts \cup {0} : d \in Int /\ SlotLength + d > RTIMER_GUARD
                                 /\ MaxDiff * SlotLength + d + MaxWork < W

\* Slotframe sizes are of 16 bits, the low word of the ASN of 32: a carry of
\* TSCH_ASN_INC shows as a smaller low word only if less than a turn is added.
ASSUME AsnAssumption == MaxDiff < LS

\* Holds with 32-bit ints for every divisor; with 16-bit ints only for
\* divisors up to 257.
ASSUME DivisorAssumption ==
    /\ IntSize \in Nat
    /\ \A d \in Divisors : d \in 1 .. LS /\ (MS - 1) * (d - 1) < IntSize

VARIABLES
    tsch_current_asn, last_sync_asn,    \* records [ls4b, ms1b]
    current_slot_start,                 \* in rtimer ticks, wraps
    drift_correction,
    pc,                                 \* "armed", "slot" or "loop"
    time, start, slots, synced          \* true time and slot counts

vars == <<tsch_current_asn, last_sync_asn, current_slot_start, drift_correction,
          pc, time, start, slots, synced>>

-----------------------------------------------------------------------------
(* tsch-asn.h *)

TSCH_ASN_INIT(ms1b, ls4b) == [ls4b |-> ls4b, ms1b |-> ms1b]

\* Faulty variant: the high part is not a single byte
incUnwrapped(asn, inc) ==
    LET new_ls4b == (asn.ls4b + inc) % LS
    IN  [ls4b |-> new_ls4b,
         ms1b |-> IF new_ls4b < asn.ls4b THEN asn.ms1b + 1 ELSE asn.ms1b]

\* Faulty variant: the carry is lost when the low part wraps to the same
\* value or to zero
incCarryLost(asn, inc) ==
    LET new_ls4b == (asn.ls4b + inc) % LS
    IN  [ls4b |-> new_ls4b,
         ms1b |-> IF new_ls4b < asn.ls4b /\ new_ls4b # 0
                  THEN (asn.ms1b + 1) % MS ELSE asn.ms1b]

TSCH_ASN_INC(asn, inc) ==
    LET new_ls4b == (asn.ls4b + inc) % LS
    IN  [ls4b |-> new_ls4b,
         ms1b |-> IF new_ls4b < asn.ls4b THEN (asn.ms1b + 1) % MS ELSE asn.ms1b]

TSCH_ASN_DEC(asn, dec) ==
    LET new_ls4b == (asn.ls4b - dec) % LS
    IN  [ls4b |-> new_ls4b,
         ms1b |-> IF new_ls4b > asn.ls4b THEN (asn.ms1b - 1) % MS ELSE asn.ms1b]

\* Faulty variant: signed difference, as int32_t since_last_timesync reads it
diffSigned(asn1, asn2) ==
    LET d == (asn1.ls4b - asn2.ls4b) % LS IN IF 2 * d >= LS THEN d - LS ELSE d

TSCH_ASN_DIFF(asn1, asn2) == (asn1.ls4b - asn2.ls4b) % LS

\* Faulty variant: the remainder of the largest low part, not of 2^32
divisorOfMax(val) == [val |-> val, asn_ms1b_remainder |-> (LS - 1) % val]

TSCH_ASN_DIVISOR_INIT(val) ==
    [val |-> val, asn_ms1b_remainder |-> (((LS - 1) % val) + 1) % val]

TSCH_ASN_MOD(asn, div) ==
    ((asn.ls4b % div.val)
     + (((asn.ms1b * div.asn_ms1b_remainder) % IntSize) % div.val)) % div.val

-----------------------------------------------------------------------------
(* The timer *)

\* Faulty variant: plain comparison, as if the rtimer never wrapped
missNoOverflow(ref_time, offset, now) == (ref_time + offset) % W <= now

check_timer_miss(ref_time, offset, now) ==
    LET target == (ref_time + offset) % W
        now_has_overflowed == now < ref_time
        target_has_overflowed == target < ref_time
    IN  IF now_has_overflowed = target_has_overflowed
        THEN target <= now
        ELSE now_has_overflowed

\* Ticks from now until the wrapping clock next shows t
TicksUntil(t) == (t - time) % W

-----------------------------------------------------------------------------

\* tsch_slot_operation_sync, at some time and some ASN; then
\* tsch_slot_operation_start runs the scheduling loop.
Init == /\ \E l \in 0 .. LS - 1, m \in 0 .. MS - 1 :
               /\ tsch_current_asn = TSCH_ASN_INIT(m, l)
               /\ slots = m * LS + l
        /\ time \in 0 .. W - 1
        /\ start = time
        /\ current_slot_start = time % W
        /\ last_sync_asn = tsch_current_asn
        /\ synced = slots
        /\ drift_correction = 0
        /\ pc = "loop"

\* The rtimer interrupt comes when the clock shows the time it was set to,
\* which is the start of the slot
Wake == /\ pc = "armed"
        /\ time' = time + TicksUntil(current_slot_start)
        /\ pc' = "slot"
        /\ UNCHANGED <<tsch_current_asn, last_sync_asn, current_slot_start,
                       drift_correction, start, slots, synced>>

\* The slot's operation takes some ticks.  It may synchronize to a time
\* source (tsch_tx_slot and tsch_rx_slot), which sets the drift correction.
Work == /\ pc = "slot"
        /\ \E w \in 0 .. MaxWork : time' = time + w
        /\ \/ UNCHANGED <<last_sync_asn, synced>> /\ drift_correction' = 0
           \/ /\ last_sync_asn' = tsch_current_asn
              /\ synced' = slots
              /\ drift_correction' \in Drifts
        /\ pc' = "loop"
        /\ UNCHANGED <<tsch_current_asn, current_slot_start, start, slots>>

\* tsch_schedule_slot_operation: arms the rtimer for ref_time + offset, or,
\* on a missed deadline, blocks until then and has its caller try again
tsch_schedule_slot_operation(ref_time, offset) ==
    IF check_timer_miss(ref_time, (offset - RTIMER_GUARD) % W, time % W)
    THEN /\ pc' = "loop"
         /\ time' = IF time < start + offset THEN start + offset ELSE time
    ELSE /\ pc' = "armed"
         /\ UNCHANGED time

\* One turn of the do-while loop that ends a slot (and that
\* tsch_slot_operation_start runs): the next active link is timeslot_diff
\* slots away, or, in a burst or without a link, one
ScheduleNext ==
    /\ pc = "loop" /\ slots < MaxSlots
    /\ \E timeslot_diff \in 1 .. MaxDiff :
          LET time_to_next == timeslot_diff * SlotLength + drift_correction
          IN  /\ tsch_current_asn' = TSCH_ASN_INC(tsch_current_asn, timeslot_diff)
              /\ slots' = slots + timeslot_diff
              /\ current_slot_start' = (current_slot_start + time_to_next) % W
              /\ start' = start + time_to_next
              /\ tsch_schedule_slot_operation(current_slot_start, time_to_next % W)
    /\ drift_correction' = 0
    /\ UNCHANGED <<last_sync_asn, synced>>

Next == Wake \/ Work \/ ScheduleNext

Spec == Init /\ [][Next]_vars

-----------------------------------------------------------------------------
(* Properties *)

Asn == [ls4b : 0 .. LS - 1, ms1b : 0 .. MS - 1]

\* The ASN as a number
Value(asn) == asn.ms1b * LS + asn.ls4b

\* Every word stays within its width.
TypeOK == /\ tsch_current_asn \in Asn
          /\ last_sync_asn \in Asn
          /\ current_slot_start \in 0 .. W - 1
          /\ drift_correction \in Drifts \cup {0}
          /\ pc \in {"armed", "slot", "loop"}
          /\ time \in Nat /\ start \in Nat /\ slots \in Nat /\ synced \in Nat

\* The five-byte ASN counts every slot that passed, those skipped after a
\* missed deadline included, and decrementing undoes incrementing
\* (TSCH_ASN_INC carries through the two words).
AsnCountsSlots ==
    /\ Value(tsch_current_asn) = slots % (LS * MS)
    /\ \A k \in 0 .. MaxDiff :
           TSCH_ASN_DEC(TSCH_ASN_INC(tsch_current_asn, k), k) = tsch_current_asn

\* TSCH_ASN_MOD, which adds the remainders of the two words, is the
\* remainder of the whole ASN: a link's timeslot and the channel are those
\* every other node computes.
ModIsRemainder ==
    \A d \in Divisors :
        TSCH_ASN_MOD(tsch_current_asn, TSCH_ASN_DIVISOR_INIT(d))
            = Value(tsch_current_asn) % d

\* The 32-bit difference the desynchronization test uses is the number of
\* slots since the last synchronization, as long as that fits in 32 bits.
DiffIsElapsed ==
    slots - synced < LS => TSCH_ASN_DIFF(tsch_current_asn, last_sync_asn) = slots - synced

\* Whatever deadlines were missed, the node acts on a slot exactly when that
\* slot starts: the rtimer is only armed for a start still to come, and the
\* wrapping slot start is the true one.
SlotsOnTime == /\ current_slot_start = start % W
               /\ pc = "armed" => time < start /\ start - time < W
               /\ pc = "slot" => time = start
=============================================================================
