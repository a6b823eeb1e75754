SPECIFICATION Spec
CONSTANTS
    Brokers = {1, 2}
    FirstLeader = 1
    MinISR = 1
    AckModes = {"all"}
    LaneCapacity = 1
    MaxRecords = 1
    MaxMeta = 4
    MaxISRLag = 0
    MaxProofs = 1
    MaxScans = 0
    MaxAlters = 0
    MaxRestarts = 0
    MaxDuplicates = 0
INVARIANTS
    ISRHoldsCommitted
CHECK_DEADLOCK FALSE
