SPECIFICATION Spec
CONSTANTS
    W = 32
    LS = 4
    MS = 3
    IntSize = 16
    Divisors <- MCDivisors
    SlotLength = 4
    RTIMER_GUARD = 1
    MaxDiff = 3
    MaxWork = 9
    Drifts <- MCDrifts
    MaxSlots = 20
INVARIANTS TypeOK AsnCountsSlots ModIsRemainder DiffIsElapsed SlotsOnTime
CHECK_DEADLOCK FALSE
