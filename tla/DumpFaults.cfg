SPECIFICATION FairSpec
CONSTANTS
    l1 = l1
    l2 = l2
    Links <- TwoLinks
    NonBlocking = TRUE
    Foreign = TRUE
    Interrupts = TRUE
    StopStates = {"waiting"}
    MaxNesting = 0
    SeqModulus = 8
    QueueBound = 2
    Initially <- MCInitially
    MaxEvents = 2
INVARIANTS
    NeverAborts
    EnumerationIsWhole
PROPERTIES
    EnumerationCompletes
    OneDumpAtATime
    StopReturns
CHECK_DEADLOCK FALSE
