SPECIFICATION FairSpec
CONSTANTS
    l1 = l1
    l2 = l2
    Links <- TwoLinks
    NonBlocking = TRUE
    Foreign = FALSE
    Interrupts = FALSE
    StopStates = {"waiting"}
    MaxNesting = 2
    SeqModulus = 7
    QueueBound = 6
    Initially <- MCInitially
    MaxEvents = 1
PROPERTIES
    NestedEnumerationCompletes
CHECK_DEADLOCK FALSE
