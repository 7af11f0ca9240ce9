\* A message stops being handled once it is decoded.
SPECIFICATION Spec
CONSTANTS
    eth0 = eth0
    lo = lo
    Ips <- MCIps
    Given <- MCGiven
    Labels = {eth0}
    Protocols = {lo}
    Bits = {0, 7, 11, 12}
    RtnlScopes = {0, 253, 201}
    None = none
INVARIANTS
    DecodedIsGiven
    EveryAttributeIsCounted
    ClassesArePrefixes
    ClassesAreDisjoint
    OrderIsTotal
CHECK_DEADLOCK FALSE
