SPECIFICATION Spec
CONSTANTS
    Kinds <- MCKinds
    Workloads = {{"queued", "delete", "read"}, {"direct", "roll", "compact", "read"}, {"direct", "fault", "delete"}, {"replicated", "roll", "compact"}, {"replicated", "fault", "read", "range"}}
    SegmentSize = 2
    BatchSize = 2
    ChannelSize = 2
    MaxOffset = 4
    MaxCrashes = 1
    MaxFaults = 1
INVARIANTS
    SegmentsReadable
    AckedSurvive
    ProducerAnchored
    ServedOffsetsPresent
PROPERTIES
    ReadersHoldOffMaintenance
    QueueDrains
CHECK_DEADLOCK FALSE
