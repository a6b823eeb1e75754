SPECIFICATION Spec
CONSTANTS
    Clients = {1, 2}
    NumPartitions = 2
    Works = {{"short", "close"}}
    LogEnd <- MCLogEnd
    BatchSize = 2
    QueueSize = 1
    MaxJoins = 4
    MaxEpoch = 3
    MaxFaults = 1
PROPERTIES
    EveryPartitionConsumed
CHECK_DEADLOCK FALSE
