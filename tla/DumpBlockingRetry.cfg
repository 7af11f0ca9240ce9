SPECIFICATION FairSpec
CONSTANTS
    l1 = l1
    l2 = l2
    Links <- TwoLinks
    NonBlocking = FALSE
    Foreign = TRUE
    Interrupts = TRUE
    StopStates = {"waiting"}
    MaxNesting = 0
    SeqModulus = 6
    QueueBound = 6
    Initially <- MCInitially
    MaxEvents = 2
PROPERTIES
    EnumerationCompletes
CHECK_DEADLOCK FALSE
