SPECIFICATION Spec
CONSTANTS
    Brokers = {1, 2}
    FirstLeader = 1
    MinISR = 1
    AckModes = {"all"}
    LaneCapacity = 1
    MaxRecords = 1
    MaxMeta = 4
    MaxISRLag = 1
    MaxProofs = 1
    MaxScans = 1
    MaxAlters = 0
    MaxRestarts = 0
    MaxDuplicates = 1
INVARIANTS
    MetadataMonotone
    CommitEvidence
    Lineage
CHECK_DEADLOCK FALSE
