SPECIFICATION Spec
CONSTANTS
    Brokers = {1, 2}
    FirstLeader = 1
    MinISR = 1
    AckModes = {"1", "all"}
    LaneCapacity = 2
    MaxRecords = 2
    MaxMeta = 4
    MaxISRLag = 0
    MaxProofs = 0
    MaxScans = 0
    MaxAlters = 0
    MaxRestarts = 0
    MaxDuplicates = 0
INVARIANTS
    TypeOK
    LeaderReadsCommitted
PROPERTIES
    TruncatesOnlyUncommitted
    ImplementsCommittedLog
CHECK_DEADLOCK FALSE
