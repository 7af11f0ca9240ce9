SPECIFICATION Spec
CONSTANTS
    l1 = l1
    l2 = l2
    Links <- TwoLinks
    NonBlocking = TRUE
    Foreign = FALSE
    Interrupts = TRUE
    StopStates = {"waiting"}
    MaxNesting = 0
    SeqModulus = 6
    QueueBound = 6
    Initially <- MCInitially
    MaxEvents = 2
INVARIANTS
    CacheMirrorsKernel
CHECK_DEADLOCK FALSE
