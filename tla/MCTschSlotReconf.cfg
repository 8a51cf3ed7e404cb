SPECIFICATION SlotSpec
CONSTANTS
    Handles = {0, 1}
    Sizes = {1}
    LinkKinds <- MCLinkKindsShared
    Addrs = {"bc", "n1"}
    Broadcast = "bc"
    MaxSlotframes = 2
    MaxLinks = 2
    MaxNbrs = 2
    AsnPeriod = 1
    TSCH_BURST_MAX_LEN = 2
    WithBursts = TRUE
    TSCH_WITH_CC1200_RECONF = TRUE
    WithTimeSource = TRUE
    InitialSchedules <- MCInitialSchedules
INVARIANTS NoNullDeref
VIEW MCView
