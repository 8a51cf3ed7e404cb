SPECIFICATION Spec
CONSTANTS
    Handles <- MCHandles
    Sizes <- MCSizes
    LinkKinds <- MCLinkKinds
    Addrs = {"bc", "n1"}
    Broadcast = "bc"
    MaxSlotframes = 3
    MaxLinks = 3
    MaxNbrs = 2
INVARIANTS ScheduleTypeOK ScheduleWellFormed CountsInSync NextActiveCorrect
VIEW MCView
