SPECIFICATION Spec
CONSTANTS
    a = a
    b = b
    Nodes = {a, b}
    Commands = {"ADD", "CLEAR"}
    RingSize = 1
    MaxSeqno = 2
    MacQueueSize = 1
    MaxRequests = 2
    MaxReboots = 0
CHECK_DEADLOCK FALSE
SYMMETRY Symmetry
INVARIANT ResponderCleared
