SPECIFICATION Spec
CONSTANTS
    a = a
    b = b
    Nodes = {a, b}
    Commands = {"ADD", "ADD_NO_CELLS", "CLEAR"}
    RingSize = 1
    MaxSeqno = 2
    MacQueueSize = 1
    MaxRequests = 2
    MaxReboots = 1
INVARIANTS SixpTypeOK SeqnosAgree InitiatorCleared
PROPERTIES OwnCallbacks OwnAnswer
CHECK_DEADLOCK FALSE
SYMMETRY Symmetry
