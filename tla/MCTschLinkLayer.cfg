SPECIFICATION Spec
CONSTANTS
    s1 = s1
    s2 = s2
    s3 = s3
    Senders = {s1, s2, s3}
    MAX_SEQNOS = 2
    MaxSeqno = 2
    MaxTransmissions = 2
    QueueSize = 1
    InputSize = 1
    MaxSends = 3
    MaxReboots = 1
SYMMETRY Symmetry
INVARIANTS LinkTypeOK HistoryCorrect OkMeansDelivered
PROPERTIES AtMostOnce
CHECK_DEADLOCK FALSE
