\* The program ends unless the retry of an enumeration blocks.
SPECIFICATION Spec
CONSTANTS
    Interfaces = {i1, i2}
    MaxLoop = 5
    WordSize = 8
INVARIANTS
    EnumeratesNTimes
PROPERTIES
    ExitsAfterEnumeration
CHECK_DEADLOCK FALSE
