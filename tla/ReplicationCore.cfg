SPECIFICATION Spec
CONSTANTS
    Brokers = {1, 2, 3}
    FirstLeader = 1
    MinISR = 2
    AckModes = {"all"}
    LaneCapacity = 1
    MaxRecords = 2
    MaxMeta = 3
    MaxISRLag = 0
    MaxProofs = 0
    MaxScans = 0
    MaxAlters = 0
    MaxRestarts = 0
    MaxDuplicates = 0
INVARIANTS
    ISRHoldsCommitted
PROPERTIES
    ImplementsCommittedLog
CHECK_DEADLOCK FALSE
