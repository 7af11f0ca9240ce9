----------------------------- MODULE TrackerOps -----------------------------
(***************************************************************************)
(* The operations of NetworkInterfaceStatusTracker as pure operators: each *)
(* takes a tracker and returns the tracker the method leaves behind.  The  *)
(* module has no state of its own; StatusTracker exercises one tracker,    *)
(* SubscriberNotification keeps one for every interface in the cache.      *)
(*                                                                         *)
(* A tracker's seven observable attributes are kept in one function,       *)
(* indexed by the ChangedFlag that announces a change of the attribute.    *)
(* Addresses, names and flag sets are opaque values: the code only copies  *)
(* them, compares them and asks for the family or for all zeroes.          *)
(***************************************************************************)
EXTENDS Naturals, FiniteSets

CONSTANTS
    Names,              \* interface names, the empty one included
    EmptyName,          \* the name of a tracker no message has named yet
    LinkFlagSets,       \* values of the LinkFlags bit set
    NoLinkFlags,        \* the empty bit set
    OperationalStates,  \* values of IFLA_OPERSTATE
    Unknown,            \* OperationalState::Unknown
    MacAddresses,       \* ethernet addresses
    ZeroMac,            \* 00:00:00:00:00:00
    Gateways,           \* IPv4 gateways a route can name
    NoGateway,          \* std::nullopt
    AnyAddress,         \* 0.0.0.0, a default constructed ip::Address
    Ips,                \* ip addresses an interface can have
    IPv4,               \* those of them that are IPv4
    AddressAttributes,  \* the rest of a network::Address (flags, scope, ...)
    CountStats          \* whether the nerd statistics are kept

ASSUME ValueAssumption ==
    /\ EmptyName \in Names
    /\ NoLinkFlags \in LinkFlagSets
    /\ Unknown \in OperationalStates
    /\ ZeroMac \in MacAddresses
    /\ NoGateway \notin Gateways /\ AnyAddress \notin Gateways
    /\ NoGateway # AnyAddress
    /\ IPv4 \subseteq Ips
    /\ IsFiniteSet(Ips) /\ IsFiniteSet(AddressAttributes)
    /\ CountStats \in BOOLEAN

ChangedFlag == {"Name", "LinkFlags", "OperationalState", "MacAddress",
                "BroadcastAddress", "GatewayAddress", "NetworkAddresses"}

Counter == {"nameChanges", "linkFlagChanges", "operationalStateChanges",
            "macAddressChanges", "broadcastAddressChanges",
            "gatewayAddressChanges", "gatewayAddressClears",
            "networkAddressesNoChangeUpdates", "networkAddressesAdded",
            "networkAddressesRemoved", "changedFlagChanges",
            "changedFlagClears"}

\* A network::Address is equal to another one when ALL its fields are.
Address == [ip : Ips, attributes : AddressAttributes]

ValuesOf(f) ==
    CASE f = "Name"             -> Names
      [] f = "LinkFlags"        -> LinkFlagSets
      [] f = "OperationalState" -> OperationalStates
      [] f = "MacAddress"       -> MacAddresses
      [] f = "BroadcastAddress" -> MacAddresses
      [] f = "GatewayAddress"   -> Gateways \cup {NoGateway, AnyAddress}
      [] f = "NetworkAddresses" -> SUBSET Address

DefaultOf(f) ==
    CASE f = "Name"             -> EmptyName
      [] f = "LinkFlags"        -> NoLinkFlags
      [] f = "OperationalState" -> Unknown
      [] f = "MacAddress"       -> ZeroMac
      [] f = "BroadcastAddress" -> ZeroMac
      [] f = "GatewayAddress"   -> NoGateway
      [] f = "NetworkAddresses" -> {}

DefaultValue == [f \in ChangedFlag |-> DefaultOf(f)]

DefaultTracker == [value     |-> DefaultValue,
                   changed   |-> {},
                   nerdstats |-> [c \in Counter |-> 0]]

IsValue(v) == /\ v = [f \in ChangedFlag |-> v[f]]
              /\ \A f \in ChangedFlag : v[f] \in ValuesOf(f)

IsTracker(t) ==
    /\ t = [value |-> t.value, changed |-> t.changed, nerdstats |-> t.nerdstats]
    /\ IsValue(t.value)
    /\ t.changed \subseteq ChangedFlag
    /\ t.nerdstats \in [Counter -> Nat]

-----------------------------------------------------------------------------

Count(t, counter, n) ==
    IF CountStats THEN [t EXCEPT !.nerdstats[counter] = @ + n] ELSE t

\* Mutant: the counter also moves when the flag is already set.
TouchCountsTwice(t, f) ==
    Count([t EXCEPT !.changed = @ \cup {f}], "changedFlagChanges", 1)

Touch(t, f) ==
    IF f \in t.changed
    THEN t
    ELSE Count([t EXCEPT !.changed = @ \cup {f}], "changedFlagChanges", 1)

\* Mutant: the value is stored, the flag is not raised.
AssignUnflagged(t, f, v, counter) == Count([t EXCEPT !.value[f] = v], counter, 1)

\* What every setter does once it has found that it has something to do.
Assign(t, f, v, counter) == Count(Touch([t EXCEPT !.value[f] = v], f), counter, 1)

Set(t, f, v, counter) ==
    IF t.value[f] # v THEN Assign(t, f, v, counter) ELSE t

SetName(t, name) == Set(t, "Name", name, "nameChanges")

SetOperationalState(t, state) ==
    Set(t, "OperationalState", state, "operationalStateChanges")

\* The all zero address is announced even when it is what the tracker holds.
SetEthernet(t, f, address, counter) ==
    IF t.value[f] # address \/ address = ZeroMac
    THEN Assign(t, f, address, counter)
    ELSE t

SetMacAddress(t, address) ==
    SetEthernet(t, "MacAddress", address, "macAddressChanges")

SetBroadcastAddress(t, address) ==
    SetEthernet(t, "BroadcastAddress", address, "broadcastAddressChanges")

UpdateLinkFlags(t, flags) == Set(t, "LinkFlags", flags, "linkFlagChanges")

SetGatewayAddress(t, gateway) ==
    Set(t, "GatewayAddress", gateway, "gatewayAddressChanges")

\* Mutant: the optional is reset where the code stores a default address in it.
ClearGatewayToNothing(t) ==
    IF t.value["GatewayAddress"] # NoGateway
    THEN Assign(t, "GatewayAddress", NoGateway, "gatewayAddressClears")
    ELSE t

\* A cleared gateway is 0.0.0.0, and clearing it again announces it again.
ClearGatewayAddress(t) ==
    IF t.value["GatewayAddress"] # NoGateway
    THEN Assign(t, "GatewayAddress", AnyAddress, "gatewayAddressClears")
    ELSE t

NetworkAddresses(t) == t.value["NetworkAddresses"]

AddNetworkAddress(t, address) ==
    IF address \in NetworkAddresses(t)
    THEN Count(t, "networkAddressesNoChangeUpdates", 1)
    ELSE Assign(t, "NetworkAddresses", NetworkAddresses(t) \cup {address},
                "networkAddressesAdded")

HasIPv4(addresses) == \E a \in addresses : a.ip \in IPv4

\* Mutant: the gateway survives the last IPv4 address.
RemoveKeepsGateway(t, address) ==
    IF address \in NetworkAddresses(t)
    THEN Assign(t, "NetworkAddresses", NetworkAddresses(t) \ {address},
                "networkAddressesRemoved")
    ELSE t

\* Mutant: a removal that finds nothing is counted.
RemoveCountsUnknown(t, address) ==
    Assign(t, "NetworkAddresses", NetworkAddresses(t) \ {address},
           "networkAddressesRemoved")

\* Mutant: an address is looked for in the IPv4 part of the set only.
RemoveOnlyIPv4(t, address) ==
    IF address \in NetworkAddresses(t) /\ address.ip \in IPv4
    THEN LET left    == NetworkAddresses(t) \ {address}
             removed == Assign(t, "NetworkAddresses", left, "networkAddressesRemoved")
         IN  IF HasIPv4(left) THEN removed ELSE ClearGatewayAddress(removed)
    ELSE t

\* Mutant: the gateway goes with any IPv4 address.
RemoveClearsGateway(t, address) ==
    IF address \in NetworkAddresses(t)
    THEN LET left    == NetworkAddresses(t) \ {address}
             removed == Assign(t, "NetworkAddresses", left, "networkAddressesRemoved")
         IN  IF address.ip \in IPv4 THEN ClearGatewayAddress(removed) ELSE removed
    ELSE t

RemoveNetworkAddress(t, address) ==
    IF address \in NetworkAddresses(t)
    THEN LET left    == NetworkAddresses(t) \ {address}
             removed == Assign(t, "NetworkAddresses", left, "networkAddressesRemoved")
         IN  IF HasIPv4(left) THEN removed ELSE ClearGatewayAddress(removed)
    ELSE t

ClearFlag(t, f) ==
    IF f \in t.changed
    THEN Count([t EXCEPT !.changed = @ \ {f}], "changedFlagClears", 1)
    ELSE t

ClearChangedFlags(t) ==
    Count([t EXCEPT !.changed = {}], "changedFlagClears", Cardinality(t.changed))
=============================================================================
