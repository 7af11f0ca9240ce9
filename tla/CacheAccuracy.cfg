SPECIFICATION Spec
CONSTANTS
    n0 = n0
    n1 = n1
    n2 = n2
    al = al
    lf0 = lf0
    lf1 = lf1
    unknown = unknown
    up = up
    m0 = m0
    none = none
    any = any
    v4 = v4
    w4 = w4
    v6 = v6
    a1 = a1
    a2 = a2
    noattr = noattr
    Names = {n0, n1, n2, al}
    EmptyName = n0
    LinkFlagSets = {lf0, lf1}
    NoLinkFlags = lf0
    OperationalStates = {unknown, up}
    Unknown = unknown
    MacAddresses = {m0}
    ZeroMac = m0
    Gateways = {g1, g2}
    NoGateway = none
    AnyAddress = any
    Ips = {v4, w4, v6}
    IPv4 = {v4, w4}
    AddressAttributes = {a1, a2}
    CountStats = FALSE
    NoAttr = noattr
    LinkMessages <- MCLinkMessages
    DownFlags = {lf0}
    Aliases = {al}
    QueueBound = 2
    MaxChanges = 6
INVARIANTS
    NothingIsMissing
    OnlySupersededLinger
    ShownGatewayIsRoute
    GatewayMissesOnlyAfterDeletion
    LinkIsCurrent
CHECK_DEADLOCK FALSE
