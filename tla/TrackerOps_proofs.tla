-------------------------- MODULE TrackerOps_proofs --------------------------
(***************************************************************************)
(* What the operations of a tracker preserve: it stays well formed, and a  *)
(* value changes only together with its flag.  And what each of them does  *)
(* to the values.                                                          *)
(***************************************************************************)
EXTENDS TrackerOps, FiniteSetTheorems, TLAPS

\* From t to u no flag is lowered, and what changed has its flag raised.
Announced(t, u) ==
    /\ t.changed \subseteq u.changed
    /\ \A f \in ChangedFlag \ u.changed : u.value[f] = t.value[f]

\* A default constructed tracker is well formed, with nothing to announce.
LEMMA DefaultType == /\ IsTracker(DefaultTracker)
                     /\ IsValue(DefaultValue)
                     /\ DefaultTracker.value = DefaultValue
                     /\ DefaultTracker.changed = {}
<1>1. IsValue(DefaultValue)
  <2>1. DefaultValue = [f \in ChangedFlag |-> DefaultValue[f]]
    BY DEF DefaultValue
  <2>2. ASSUME NEW f \in ChangedFlag PROVE DefaultValue[f] \in ValuesOf(f)
    <3>1. DefaultValue[f] = DefaultOf(f)
      BY <2>2 DEF DefaultValue
    <3>2. DefaultOf(f) \in ValuesOf(f)
      BY <2>2, ValueAssumption DEF DefaultOf, ValuesOf, ChangedFlag
    <3> QED BY <3>1, <3>2
  <2> QED BY <2>1, <2>2 DEF IsValue
<1> QED BY <1>1 DEF IsTracker, DefaultTracker

\* The statistics touch neither the values nor the flags.
LEMMA CountType ==
    ASSUME NEW t, IsTracker(t), NEW c \in Counter, NEW n \in Nat
    PROVE  /\ IsTracker(Count(t, c, n))
           /\ Count(t, c, n).value = t.value
           /\ Count(t, c, n).changed = t.changed
<1>1. CASE CountStats
  <2> DEFINE u == [t EXCEPT !.nerdstats[c] = @ + n]
  <2>1. u = [value |-> t.value, changed |-> t.changed,
             nerdstats |-> [t.nerdstats EXCEPT ![c] = @ + n]]
    BY DEF IsTracker
  <2>2. [t.nerdstats EXCEPT ![c] = @ + n] \in [Counter -> Nat]
    BY DEF IsTracker
  <2> QED BY <1>1, <2>1, <2>2 DEF IsTracker, Count
<1>2. CASE ~CountStats
  BY <1>2 DEF Count
<1> QED BY <1>1, <1>2

\* touch raises the flag and does nothing else.
LEMMA TouchType ==
    ASSUME NEW t, IsTracker(t), NEW f \in ChangedFlag
    PROVE  /\ IsTracker(Touch(t, f))
           /\ Touch(t, f).value = t.value
           /\ Touch(t, f).changed = t.changed \cup {f}
<1> DEFINE u == [t EXCEPT !.changed = @ \cup {f}]
<1>1. u = [value |-> t.value, changed |-> t.changed \cup {f},
           nerdstats |-> t.nerdstats]
  BY DEF IsTracker
<1>2. IsTracker(u)
  BY <1>1 DEF IsTracker
<1>3. "changedFlagChanges" \in Counter
  BY DEF Counter
<1> HIDE DEF u
<1>4. /\ IsTracker(Count(u, "changedFlagChanges", 1))
      /\ Count(u, "changedFlagChanges", 1).value = u.value
      /\ Count(u, "changedFlagChanges", 1).changed = u.changed
  BY <1>2, <1>3, CountType
<1>5. CASE f \in t.changed
  BY <1>5 DEF Touch
<1>6. CASE f \notin t.changed
  <2>1. Touch(t, f) = Count(u, "changedFlagChanges", 1)
    BY <1>6 DEF Touch, u
  <2> QED BY <2>1, <1>1, <1>4
<1> QED BY <1>5, <1>6

\* What a setter does, once it does something: store, and raise the flag.
LEMMA AssignType ==
    ASSUME NEW t, IsTracker(t), NEW f \in ChangedFlag, NEW v \in ValuesOf(f),
           NEW c \in Counter
    PROVE  /\ IsTracker(Assign(t, f, v, c))
           /\ Assign(t, f, v, c).value = [t.value EXCEPT ![f] = v]
           /\ Assign(t, f, v, c).changed = t.changed \cup {f}
           /\ Announced(t, Assign(t, f, v, c))
<1> DEFINE u == [t EXCEPT !.value[f] = v]
<1>1. u = [value |-> [t.value EXCEPT ![f] = v], changed |-> t.changed,
           nerdstats |-> t.nerdstats]
  BY DEF IsTracker
<1>2. IsValue([t.value EXCEPT ![f] = v])
  BY DEF IsTracker, IsValue
<1>3. IsTracker(u)
  BY <1>1, <1>2 DEF IsTracker
<1> HIDE DEF u
<1>4. /\ IsTracker(Touch(u, f))
      /\ Touch(u, f).value = u.value
      /\ Touch(u, f).changed = u.changed \cup {f}
  BY <1>3, TouchType
<1>5. /\ IsTracker(Assign(t, f, v, c))
      /\ Assign(t, f, v, c).value = Touch(u, f).value
      /\ Assign(t, f, v, c).changed = Touch(u, f).changed
  BY <1>4, CountType DEF Assign, u
<1>6. \A g \in ChangedFlag \ {f} : [t.value EXCEPT ![f] = v][g] = t.value[g]
  BY DEF IsTracker, IsValue
<1> QED BY <1>1, <1>4, <1>5, <1>6 DEF Announced

\* Doing nothing announces everything.
LEMMA SameAnnounced == ASSUME NEW t PROVE Announced(t, t)
BY DEF Announced

\* Two calls in a row announce what each of them announces.
LEMMA AnnouncedTransitive ==
    ASSUME NEW t, NEW u, NEW w, Announced(t, u), Announced(u, w)
    PROVE  Announced(t, w)
BY DEF Announced

\* The setters that compare first.
LEMMA SetType ==
    ASSUME NEW t, IsTracker(t), NEW f \in ChangedFlag, NEW v \in ValuesOf(f),
           NEW c \in Counter
    PROVE  IsTracker(Set(t, f, v, c)) /\ Announced(t, Set(t, f, v, c))
BY AssignType, SameAnnounced DEF Set

\* The setters of ethernet addresses, which announce zeroes every time.
LEMMA SetEthernetType ==
    ASSUME NEW t, IsTracker(t), NEW f \in ChangedFlag, NEW v \in ValuesOf(f),
           NEW c \in Counter
    PROVE  /\ IsTracker(SetEthernet(t, f, v, c))
           /\ Announced(t, SetEthernet(t, f, v, c))
BY AssignType, SameAnnounced DEF SetEthernet

\* All single-value setters, under the names the message handlers use.
LEMMA SettersType ==
    ASSUME NEW t, IsTracker(t)
    PROVE  /\ \A n \in Names : /\ IsTracker(SetName(t, n))
                               /\ Announced(t, SetName(t, n))
           /\ \A o \in OperationalStates : /\ IsTracker(SetOperationalState(t, o))
                                           /\ Announced(t, SetOperationalState(t, o))
           /\ \A m \in MacAddresses : /\ IsTracker(SetMacAddress(t, m))
                                      /\ Announced(t, SetMacAddress(t, m))
                                      /\ IsTracker(SetBroadcastAddress(t, m))
                                      /\ Announced(t, SetBroadcastAddress(t, m))
           /\ \A l \in LinkFlagSets : /\ IsTracker(UpdateLinkFlags(t, l))
                                      /\ Announced(t, UpdateLinkFlags(t, l))
           /\ \A g \in Gateways : /\ IsTracker(SetGatewayAddress(t, g))
                                  /\ Announced(t, SetGatewayAddress(t, g))
<1>1. /\ ChangedFlag = {"Name", "LinkFlags", "OperationalState", "MacAddress",
                        "BroadcastAddress", "GatewayAddress", "NetworkAddresses"}
      /\ {"nameChanges", "linkFlagChanges", "operationalStateChanges",
          "macAddressChanges", "broadcastAddressChanges",
          "gatewayAddressChanges"} \subseteq Counter
  BY DEF ChangedFlag, Counter
<1>2. ASSUME NEW n \in Names
      PROVE  IsTracker(SetName(t, n)) /\ Announced(t, SetName(t, n))
  BY <1>1, SetType DEF SetName, ValuesOf
<1>3. ASSUME NEW o \in OperationalStates
      PROVE  IsTracker(SetOperationalState(t, o)) /\ Announced(t, SetOperationalState(t, o))
  BY <1>1, SetType DEF SetOperationalState, ValuesOf
<1>4. ASSUME NEW m \in MacAddresses
      PROVE  IsTracker(SetMacAddress(t, m)) /\ Announced(t, SetMacAddress(t, m))
  BY <1>1, SetEthernetType DEF SetMacAddress, ValuesOf
<1>5. ASSUME NEW m \in MacAddresses
      PROVE  /\ IsTracker(SetBroadcastAddress(t, m))
             /\ Announced(t, SetBroadcastAddress(t, m))
  BY <1>1, SetEthernetType DEF SetBroadcastAddress, ValuesOf
<1>6. ASSUME NEW l \in LinkFlagSets
      PROVE  IsTracker(UpdateLinkFlags(t, l)) /\ Announced(t, UpdateLinkFlags(t, l))
  BY <1>1, SetType DEF UpdateLinkFlags, ValuesOf
<1>7. ASSUME NEW g \in Gateways
      PROVE  IsTracker(SetGatewayAddress(t, g)) /\ Announced(t, SetGatewayAddress(t, g))
  BY <1>1, SetType DEF SetGatewayAddress, ValuesOf
<1> QED BY <1>2, <1>3, <1>4, <1>5, <1>6, <1>7

\* clearGatewayAddress
LEMMA ClearGatewayType ==
    ASSUME NEW t, IsTracker(t)
    PROVE  /\ IsTracker(ClearGatewayAddress(t))
           /\ Announced(t, ClearGatewayAddress(t))
<1>1. /\ "GatewayAddress" \in ChangedFlag
      /\ AnyAddress \in ValuesOf("GatewayAddress")
      /\ "gatewayAddressClears" \in Counter
  BY DEF ChangedFlag, ValuesOf, Counter
<1> QED BY <1>1, AssignType, SameAnnounced DEF ClearGatewayAddress

\* addNetworkAddress and removeNetworkAddress, the latter with the gateway it
\* may clear.
LEMMA AddressesType ==
    ASSUME NEW t, IsTracker(t), NEW a \in Address
    PROVE  /\ IsTracker(AddNetworkAddress(t, a))
           /\ Announced(t, AddNetworkAddress(t, a))
           /\ IsTracker(RemoveNetworkAddress(t, a))
           /\ Announced(t, RemoveNetworkAddress(t, a))
<1>1. /\ "NetworkAddresses" \in ChangedFlag
      /\ ValuesOf("NetworkAddresses") = SUBSET Address
      /\ {"networkAddressesNoChangeUpdates", "networkAddressesAdded",
          "networkAddressesRemoved"} \subseteq Counter
  BY DEF ChangedFlag, ValuesOf, Counter
<1>2. NetworkAddresses(t) \subseteq Address
  BY <1>1 DEF IsTracker, IsValue, NetworkAddresses
<1>3. IsTracker(AddNetworkAddress(t, a)) /\ Announced(t, AddNetworkAddress(t, a))
  <2>1. CASE a \in NetworkAddresses(t)
    BY <2>1, <1>1, CountType DEF AddNetworkAddress, Announced
  <2>2. CASE a \notin NetworkAddresses(t)
    BY <2>2, <1>1, <1>2, AssignType DEF AddNetworkAddress
  <2> QED BY <2>1, <2>2
<1>4. IsTracker(RemoveNetworkAddress(t, a)) /\ Announced(t, RemoveNetworkAddress(t, a))
  <2> DEFINE left    == NetworkAddresses(t) \ {a}
             removed == Assign(t, "NetworkAddresses", left, "networkAddressesRemoved")
  <2>1. IsTracker(removed) /\ Announced(t, removed)
    BY <1>1, <1>2, AssignType
  <2>2. RemoveNetworkAddress(t, a) \in {t, removed, ClearGatewayAddress(removed)}
    BY DEF RemoveNetworkAddress
  <2> HIDE DEF removed
  <2>3. /\ IsTracker(ClearGatewayAddress(removed))
        /\ Announced(t, ClearGatewayAddress(removed))
    BY <2>1, ClearGatewayType, AnnouncedTransitive
  <2> QED BY <2>1, <2>2, <2>3, SameAnnounced
<1> QED BY <1>3, <1>4

\* There are seven flags.
LEMMA FlagsFinite == IsFiniteSet(ChangedFlag)
<1>1. ChangedFlag = {"Name"} \cup ({"LinkFlags"} \cup ({"OperationalState"} \cup
        ({"MacAddress"} \cup ({"BroadcastAddress"} \cup
        ({"GatewayAddress"} \cup {"NetworkAddresses"})))))
  BY DEF ChangedFlag
<1> QED BY <1>1, FS_Singleton, FS_Union

\* clearFlag and clearChangedFlags lower flags and leave the values alone.
LEMMA ClearType ==
    ASSUME NEW t, IsTracker(t)
    PROVE  /\ IsTracker(ClearChangedFlags(t))
           /\ ClearChangedFlags(t).value = t.value
           /\ ClearChangedFlags(t).changed = {}
           /\ \A f \in ChangedFlag :
                /\ IsTracker(ClearFlag(t, f))
                /\ ClearFlag(t, f).value = t.value
                /\ ClearFlag(t, f).changed = t.changed \ {f}
<1>1. "changedFlagClears" \in Counter
  BY DEF Counter
<1>2. Cardinality(t.changed) \in Nat
  BY FlagsFinite, FS_Subset, FS_CardinalityType DEF IsTracker
<1>3. ASSUME NEW left \in SUBSET ChangedFlag
      PROVE  LET u == [t EXCEPT !.changed = left]
             IN  /\ IsTracker(u)
                 /\ u.value = t.value /\ u.changed = left
  BY DEF IsTracker
<1>4. /\ IsTracker(ClearChangedFlags(t))
      /\ ClearChangedFlags(t).value = t.value
      /\ ClearChangedFlags(t).changed = {}
  <2> DEFINE u == [t EXCEPT !.changed = {}]
  <2>1. IsTracker(u) /\ u.value = t.value /\ u.changed = {}
    BY <1>3
  <2>2. ClearChangedFlags(t) = Count(u, "changedFlagClears", Cardinality(t.changed))
    BY DEF ClearChangedFlags
  <2> HIDE DEF u
  <2> QED BY <2>1, <2>2, <1>1, <1>2, CountType
<1>5. ASSUME NEW f \in ChangedFlag
      PROVE  /\ IsTracker(ClearFlag(t, f))
             /\ ClearFlag(t, f).value = t.value
             /\ ClearFlag(t, f).changed = t.changed \ {f}
  <2> DEFINE u == [t EXCEPT !.changed = @ \ {f}]
  <2>1. IsTracker(u) /\ u.value = t.value /\ u.changed = t.changed \ {f}
    BY DEF IsTracker
  <2>2. ClearFlag(t, f) = IF f \in t.changed THEN Count(u, "changedFlagClears", 1)
                          ELSE t
    BY DEF ClearFlag
  <2> HIDE DEF u
  <2> QED BY <2>1, <2>2, <1>1, CountType
<1> QED BY <1>4, <1>5

-----------------------------------------------------------------------------
(* What the operations leave in the attributes.                            *)

\* u differs from t at most in the attribute f, which is v.
OnlySets(t, u, f, v) ==
    /\ IsTracker(u) /\ u.value[f] = v
    /\ \A g \in ChangedFlag \ {f} : u.value[g] = t.value[g]

\* The setters, whether they find something to do or not.
LEMMA SetValues ==
    ASSUME NEW t, IsTracker(t), NEW f \in ChangedFlag, NEW v \in ValuesOf(f),
           NEW c \in Counter
    PROVE  /\ OnlySets(t, Assign(t, f, v, c), f, v)
           /\ OnlySets(t, Set(t, f, v, c), f, v)
           /\ OnlySets(t, SetEthernet(t, f, v, c), f, v)
<1>1. OnlySets(t, Assign(t, f, v, c), f, v)
  <2>1. /\ IsTracker(Assign(t, f, v, c))
        /\ Assign(t, f, v, c).value = [t.value EXCEPT ![f] = v]
    BY AssignType
  <2>2. t.value = [g \in ChangedFlag |-> t.value[g]]
    BY DEF IsTracker, IsValue
  <2> QED BY <2>1, <2>2 DEF OnlySets
<1>2. t.value[f] = v => OnlySets(t, t, f, v)
  BY DEF OnlySets
<1> QED BY <1>1, <1>2 DEF Set, SetEthernet

\* The setters by name.
LEMMA SettersValues ==
    ASSUME NEW t, IsTracker(t)
    PROVE  /\ \A n \in Names : OnlySets(t, SetName(t, n), "Name", n)
           /\ \A o \in OperationalStates :
                OnlySets(t, SetOperationalState(t, o), "OperationalState", o)
           /\ \A m \in MacAddresses :
                /\ OnlySets(t, SetMacAddress(t, m), "MacAddress", m)
                /\ OnlySets(t, SetBroadcastAddress(t, m), "BroadcastAddress", m)
           /\ \A l \in LinkFlagSets : OnlySets(t, UpdateLinkFlags(t, l), "LinkFlags", l)
           /\ \A g \in Gateways : OnlySets(t, SetGatewayAddress(t, g), "GatewayAddress", g)
<1>1. /\ {"Name", "OperationalState", "MacAddress", "BroadcastAddress", "LinkFlags",
          "GatewayAddress"} \subseteq ChangedFlag
      /\ {"nameChanges", "operationalStateChanges", "macAddressChanges",
          "broadcastAddressChanges", "linkFlagChanges", "gatewayAddressChanges"}
            \subseteq Counter
  BY DEF ChangedFlag, Counter
<1>2. /\ ValuesOf("Name") = Names /\ ValuesOf("OperationalState") = OperationalStates
      /\ ValuesOf("MacAddress") = MacAddresses /\ ValuesOf("LinkFlags") = LinkFlagSets
      /\ ValuesOf("BroadcastAddress") = MacAddresses
      /\ Gateways \subseteq ValuesOf("GatewayAddress")
  BY DEF ValuesOf
<1>3. \A n \in Names : OnlySets(t, SetName(t, n), "Name", n)
  BY <1>1, <1>2, SetValues DEF SetName
<1>4. \A o \in OperationalStates :
         OnlySets(t, SetOperationalState(t, o), "OperationalState", o)
  BY <1>1, <1>2, SetValues DEF SetOperationalState
<1>5. \A m \in MacAddresses : OnlySets(t, SetMacAddress(t, m), "MacAddress", m)
  BY <1>1, <1>2, SetValues DEF SetMacAddress
<1>6. \A m \in MacAddresses : OnlySets(t, SetBroadcastAddress(t, m), "BroadcastAddress", m)
  BY <1>1, <1>2, SetValues DEF SetBroadcastAddress
<1>7. \A l \in LinkFlagSets : OnlySets(t, UpdateLinkFlags(t, l), "LinkFlags", l)
  BY <1>1, <1>2, SetValues DEF UpdateLinkFlags
<1>8. \A g \in Gateways : OnlySets(t, SetGatewayAddress(t, g), "GatewayAddress", g)
  BY <1>1, <1>2, SetValues DEF SetGatewayAddress
<1> QED BY <1>3, <1>4, <1>5, <1>6, <1>7, <1>8

\* A gateway that has been cleared is none of the gateways.
LEMMA ClearGatewayValues ==
    ASSUME NEW t, IsTracker(t)
    PROVE  \E g \in {NoGateway, AnyAddress} :
              OnlySets(t, ClearGatewayAddress(t), "GatewayAddress", g)
<1>1. /\ "GatewayAddress" \in ChangedFlag
      /\ AnyAddress \in ValuesOf("GatewayAddress")
      /\ "gatewayAddressClears" \in Counter
  BY DEF ChangedFlag, ValuesOf, Counter
<1>2. CASE t.value["GatewayAddress"] # NoGateway
  BY <1>1, <1>2, SetValues DEF ClearGatewayAddress
<1>3. CASE t.value["GatewayAddress"] = NoGateway
  <2>1. ClearGatewayAddress(t) = t
    BY <1>3 DEF ClearGatewayAddress
  <2> QED BY <1>3, <2>1 DEF OnlySets
<1> QED BY <1>2, <1>3

\* An address more.
LEMMA AddAddressValues ==
    ASSUME NEW t, IsTracker(t), NEW a \in Address
    PROVE  OnlySets(t, AddNetworkAddress(t, a), "NetworkAddresses",
                    NetworkAddresses(t) \cup {a})
<1>1. /\ "NetworkAddresses" \in ChangedFlag
      /\ ValuesOf("NetworkAddresses") = SUBSET Address
      /\ {"networkAddressesNoChangeUpdates", "networkAddressesAdded"} \subseteq Counter
  BY DEF ChangedFlag, ValuesOf, Counter
<1>2. NetworkAddresses(t) \cup {a} \in ValuesOf("NetworkAddresses")
  BY <1>1 DEF IsTracker, IsValue, NetworkAddresses
<1>3. CASE a \notin NetworkAddresses(t)
  BY <1>1, <1>2, <1>3, SetValues DEF AddNetworkAddress
<1>4. CASE a \in NetworkAddresses(t)
  <2>1. /\ IsTracker(AddNetworkAddress(t, a))
        /\ AddNetworkAddress(t, a).value = t.value
    BY <1>1, <1>4, CountType DEF AddNetworkAddress
  <2>2. NetworkAddresses(t) \cup {a} = NetworkAddresses(t)
    BY <1>4
  <2> QED BY <2>1, <2>2 DEF OnlySets, NetworkAddresses
<1> QED BY <1>3, <1>4

\* What a removal leaves: the gateway goes when no IPv4 address is left.
LEMMA RemoveAddressValues ==
    ASSUME NEW t, IsTracker(t), NEW a \in NetworkAddresses(t)
    PROVE  LET u == RemoveNetworkAddress(t, a)
               left == NetworkAddresses(t) \ {a}
           IN  /\ IsTracker(u) /\ NetworkAddresses(u) = left
               /\ \A g \in ChangedFlag \ {"NetworkAddresses", "GatewayAddress"} :
                     u.value[g] = t.value[g]
               /\ HasIPv4(left) => u.value["GatewayAddress"] = t.value["GatewayAddress"]
               /\ ~HasIPv4(left) => u.value["GatewayAddress"] \in {NoGateway, AnyAddress}
<1> DEFINE left == NetworkAddresses(t) \ {a}
           w == Assign(t, "NetworkAddresses", left, "networkAddressesRemoved")
           u == RemoveNetworkAddress(t, a)
<1>1. /\ {"NetworkAddresses", "GatewayAddress"} \subseteq ChangedFlag
      /\ ValuesOf("NetworkAddresses") = SUBSET Address
      /\ "networkAddressesRemoved" \in Counter
  BY DEF ChangedFlag, ValuesOf, Counter
<1>2. left \in ValuesOf("NetworkAddresses")
  BY <1>1 DEF IsTracker, IsValue, NetworkAddresses
<1>3. u = IF HasIPv4(left) THEN w ELSE ClearGatewayAddress(w)
  BY DEF RemoveNetworkAddress
<1> HIDE DEF left
<1>4. OnlySets(t, w, "NetworkAddresses", left)
  BY <1>1, <1>2, SetValues
<1> HIDE DEF w, u
<1>5. CASE HasIPv4(left)
  BY <1>1, <1>3, <1>4, <1>5 DEF OnlySets, NetworkAddresses, u, left
<1>6. CASE ~HasIPv4(left)
  <2>1. PICK g \in {NoGateway, AnyAddress} : OnlySets(w, u, "GatewayAddress", g)
    BY <1>3, <1>4, <1>6, ClearGatewayValues DEF OnlySets
  <2> QED BY <1>1, <1>4, <1>6, <2>1 DEF OnlySets, NetworkAddresses, u, left
<1> QED BY <1>5, <1>6
=============================================================================
