SPECIFICATION Spec
CONSTANTS
    l1 = l1
    l2 = l2
    Links <- TwoLinks
    NonBlocking = FALSE
    Foreign = FALSE
    Interrupts = FALSE
    StopStates = {"waiting"}
    MaxNesting = 0
    SeqModulus = 3
    QueueBound = 6
    Initially <- MCInitially
    MaxEvents = 3
INVARIANTS
    TypeOK
    NoUseAfterStop
    EnumerationIsWhole
    CacheMirrorsKernel
PROPERTIES
    IsReplica
CHECK_DEADLOCK FALSE
