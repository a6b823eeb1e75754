SPECIFICATION Spec
CONSTANTS
 NumPartitions = 2
 Works <- BrokerWorks
 MaxFaults = 2
 BatchSize = 2
 BufferSize = 2
 MaxRetries = 1
 MaxSends = 3
 TxnClients = {1,2}
 MaxEpoch = 1
 MaxStaged = 2
 Writers = {1,2}
 MaxEvents = 3
 MaxGenerations = 3
INVARIANTS AckedOnce FlushMeansAcked AtomicVisible DecisionsHold OffsetsImplyOutput OneEventPerVersion StreamComplete
PROPERTIES LSOStable CleanSlate SentIsAcked RestartFinishes
CHECK_DEADLOCK FALSE
