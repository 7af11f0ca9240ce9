\* Every sequence of up to MaxCalls calls of one tracker.
SPECIFICATION Spec
CONSTANTS
    n0 = n0
    n1 = n1
    lf0 = lf0
    lf1 = lf1
    unknown = unknown
    up = up
    m0 = m0
    m1 = m1
    gw = gw
    none = none
    any = any
    v4 = v4
    v6 = v6
    a1 = a1
    a2 = a2
    Names <- MCNames
    EmptyName = n0
    LinkFlagSets <- MCLinkFlagSets
    NoLinkFlags = lf0
    OperationalStates <- MCOperationalStates
    Unknown = unknown
    MacAddresses <- MCMacAddresses
    ZeroMac = m0
    Gateways <- MCGateways
    NoGateway = none
    AnyAddress = any
    Ips <- MCIps
    IPv4 <- MCIPv4
    AddressAttributes <- MCAddressAttributes
    CountStats = TRUE
    MaxCalls = 6
INVARIANTS
    TypeOK
    UnflaggedMeansSeen
    FlagsBalance
    AddressesBalance
PROPERTIES
    GatewayGoesWithLastIPv4
CHECK_DEADLOCK FALSE
