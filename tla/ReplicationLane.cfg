SPECIFICATION Spec
CONSTANTS
    Publishers = {p1, p2}
    NoPublisher = none
    Capacity = 2
INVARIANTS
    TypeOK
    SubmitNeverBlocks
    WaiterHasTask
    CloseLeavesNothing
PROPERTIES
    CloseTerminates
    WaitersAnswered
