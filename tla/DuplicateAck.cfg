SPECIFICATION Spec
CONSTANTS
    Brokers = {1, 2}
    FirstLeader = 1
    MinISR = 1
    AckModes = {"all"}
    LaneCapacity = 1
    MaxRecords = 1
    MaxMeta = 3
    MaxISRLag = 0
    MaxProofs = 0
    MaxScans = 0
    MaxAlters = 0
    MaxRestarts = 0
    MaxDuplicates = 1
INVARIANTS
    DuplicateAckCommitted
CHECK_DEADLOCK FALSE
