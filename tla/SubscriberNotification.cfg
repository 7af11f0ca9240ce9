\* Every interleaving of messages, callbacks and calls made from callbacks.
SPECIFICATION Spec
CONSTANTS
    n0 = n0
    n1 = n1
    n2 = n2
    lf0 = lf0
    unknown = unknown
    up = up
    m0 = m0
    gw = gw
    none = none
    any = any
    v4 = v4
    a1 = a1
    s1 = s1
    s2 = s2
    s3 = s3
    noattr = noattr
    Names <- MCNames
    EmptyName = n0
    LinkFlagSets <- MCLinkFlagSets
    NoLinkFlags = lf0
    OperationalStates <- MCOperationalStates
    Unknown = unknown
    MacAddresses <- MCMacAddresses
    ZeroMac = m0
    Gateways <- MCGateways
    NoGateway = none
    AnyAddress = any
    Ips <- MCIps
    IPv4 <- MCIps
    AddressAttributes <- MCAddressAttributes
    CountStats = FALSE
    Indices <- MCIndices
    Subscribers = {s1, s2}
    Null = Null
    NoAttr = noattr
    LinkMessages <- MCLinkMessages
    Labels <- MCLabels
    PreferredFamily = "any"
    MayInvalidate = TRUE
    MaxMessages = 3
INVARIANTS
    TypeOK
    NoLostNotification
    KnownBeforeChanges
    NoGhostInterface
    QuietMeansDelivered
PROPERTIES
    IsChangeFeed
SYMMETRY Symmetry
CHECK_DEADLOCK FALSE
