SPECIFICATION Spec
CONSTANTS
    Packets = {"p1", "p2"}
    Unicast = {"n1", "n2"}
    TimeSources = {"n2"}
    Broadcast = "bc"
    EB = "eb"
    Links <- MCLinks
    MaxNbrs = 4
    QueueSize = 2
    DequeuedSize = 1
    MaxTransmissions = 2
    TSCH_MAC_MIN_BE = 0
    TSCH_MAC_MAX_BE = 1
    MaxSends = 3
INVARIANTS QueueTypeOK OnePlace
PROPERTIES ImplementsMacService AllPacketsReported
