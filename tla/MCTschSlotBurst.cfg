SPECIFICATION SlotSpec
CONSTANTS
    Handles = {0}
    Sizes = {2}
    LinkKinds <- MCLinkKinds
    Addrs = {"bc", "n1"}
    Broadcast = "bc"
    MaxSlotframes = 1
    MaxLinks = 1
    MaxNbrs = 2
    AsnPeriod = 2
    TSCH_BURST_MAX_LEN = 2
    WithBursts = TRUE
    TSCH_WITH_CC1200_RECONF = FALSE
    WithTimeSource = FALSE
    InitialSchedules <- MCOneSlotframe
PROPERTIES SlotsKeepRunning
