SPECIFICATION Spec
CONSTANTS
    Size = 4
    Values = {v1, v2}
    NoValue = NoValue
INVARIANTS TypeOK NoOverwriteInUse IndexStillValid CommittedAreFilled
PROPERTY ImplementsFifo
