SPECIFICATION Spec
CONSTANTS
    Clients = {1, 2}
    NumPartitions = 2
    Works = {{"short", "lapse"}, {"short", "cluster", "lost"}, {"short", "stream", "fail", "drop"}, {"stream"}, {"short", "crash", "diskfault", "compact"}, {"short", "cluster", "crash"}, {"short", "delete", "close"}, {"retention"}}
    LogEnd <- MCLogEnd
    BatchSize = 2
    QueueSize = 1
    MaxJoins = 4
    MaxEpoch = 3
    MaxFaults = 1
INVARIANTS
    AtLeastOnce
    AssignmentsCover
    AckedCommitsDurable
    MetadataRecoverable
PROPERTIES
    DeletedWhenEmpty
    Drained
CHECK_DEADLOCK FALSE
