CONSTANTS
    p1 = p1
    p2 = p2
    Nil = Nil
    NoValue <- Nil
    Pods <- MCPods
    Versions = {1, 2}
    MaxEvents = 4
    MaxChans = 2
SPECIFICATION Spec
CHECK_DEADLOCK FALSE
INVARIANT TypeOK
INVARIANT ProcessedInIngestionOrder
INVARIANT OrderInv
PROPERTY EveryQueuedEventProcessed
