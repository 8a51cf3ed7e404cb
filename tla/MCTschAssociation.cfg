SPECIFICATION Spec
CONSTANTS
    Nbrs = {"n1", "n2"}
    QueueSize = 1
    RingSize = 2
    MaxRoleChanges = 2
INVARIANTS AssociationTypeOK KeepaliveKeptUp
PROPERTIES SessionClean BackOrScanning
CHECK_DEADLOCK FALSE
