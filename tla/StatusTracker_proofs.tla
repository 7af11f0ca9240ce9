------------------------- MODULE StatusTracker_proofs -------------------------
(***************************************************************************)
(* One tracker is always well formed, its flags never hide a change from a *)
(* reader that follows them, its gateway goes with the last IPv4 address,  *)
(* and its counters balance, for every set of values.                      *)
(***************************************************************************)
EXTENDS StatusTracker, TrackerOps_proofs

\* A setter announces what it changes, hence keeps the reader's invariant.
LEMMA SetterKeeps ==
    ASSUME WellFormed, UnflaggedMeansSeen, NEW t, IsTracker(t), Announced(tracker, t),
           Setter(t)
    PROVE  WellFormed' /\ UnflaggedMeansSeen'
<1>1. tracker' = t /\ seen' = seen /\ calls' = calls + 1
  BY DEF Setter, Call
<1>2. WellFormed'
  BY <1>1 DEF WellFormed
<1>3. UnflaggedMeansSeen'
  BY <1>1 DEF UnflaggedMeansSeen, Announced
<1> QED BY <1>2, <1>3

\* The flags clearFlag and clearChangedFlags lower are those the reader has
\* just looked at.
LEMMA ClearFlagKeeps ==
    ASSUME WellFormed, UnflaggedMeansSeen, NEW f \in ChangedFlag,
           Call(ClearFlag(tracker, f)),
           seen' = [seen EXCEPT ![f] = IF f \in tracker.changed
                                       THEN tracker.value[f] ELSE @]
    PROVE  WellFormed' /\ UnflaggedMeansSeen'
<1>1. tracker' = ClearFlag(tracker, f) /\ calls' = calls + 1
  BY DEF Call
<1>2. /\ IsTracker(tracker')
      /\ tracker'.value = tracker.value
      /\ tracker'.changed = tracker.changed \ {f}
  BY <1>1, ClearType DEF WellFormed
<1>3. seen = [g \in ChangedFlag |-> seen[g]] /\ tracker.value[f] \in ValuesOf(f)
  BY DEF WellFormed, IsTracker, IsValue
<1>4. IsValue(seen')
  BY <1>3 DEF WellFormed, IsValue
<1>5. \A g \in ChangedFlag \ tracker'.changed : seen'[g] = tracker'.value[g]
  BY <1>2, <1>3 DEF UnflaggedMeansSeen
<1> QED BY <1>1, <1>2, <1>4, <1>5 DEF WellFormed, UnflaggedMeansSeen

\* clearChangedFlags shows the reader every flagged value before it clears.
LEMMA ClearChangedFlagsKeeps ==
    ASSUME WellFormed, UnflaggedMeansSeen, CallClearChangedFlags
    PROVE  WellFormed' /\ UnflaggedMeansSeen'
<1>1. tracker' = ClearChangedFlags(tracker) /\ calls' = calls + 1
  BY DEF Call, CallClearChangedFlags
<1>2. /\ IsTracker(tracker')
      /\ tracker'.value = tracker.value
  BY <1>1, ClearType DEF WellFormed
<1>3. \A g \in ChangedFlag : seen'[g] = tracker.value[g]
  BY DEF CallClearChangedFlags, UnflaggedMeansSeen
<1>4. seen' = [g \in ChangedFlag |-> seen'[g]]
  BY DEF CallClearChangedFlags
<1>5. IsValue(seen')
  BY <1>3, <1>4 DEF WellFormed, IsTracker, IsValue
<1> QED BY <1>1, <1>2, <1>3, <1>5 DEF WellFormed, UnflaggedMeansSeen

\* The two invariants are inductive together.
LEMMA Inductive ==
    ASSUME WellFormed, UnflaggedMeansSeen, [Next]_vars
    PROVE  WellFormed' /\ UnflaggedMeansSeen'
<1>1. IsTracker(tracker)
  BY DEF WellFormed
<1>2. CASE CallSetName
  BY <1>1, <1>2, SettersType, SetterKeeps DEF CallSetName
<1>3. CASE CallSetOperationalState
  BY <1>1, <1>3, SettersType, SetterKeeps DEF CallSetOperationalState
<1>4. CASE CallSetMacAddress
  BY <1>1, <1>4, SettersType, SetterKeeps DEF CallSetMacAddress
<1>5. CASE CallSetBroadcastAddress
  BY <1>1, <1>5, SettersType, SetterKeeps DEF CallSetBroadcastAddress
<1>6. CASE CallUpdateLinkFlags
  BY <1>1, <1>6, SettersType, SetterKeeps DEF CallUpdateLinkFlags
<1>7. CASE CallSetGatewayAddress
  BY <1>1, <1>7, SettersType, SetterKeeps DEF CallSetGatewayAddress
<1>8. CASE CallClearGatewayAddress
  BY <1>1, <1>8, ClearGatewayType, SetterKeeps DEF CallClearGatewayAddress
<1>9. CASE CallAddNetworkAddress
  BY <1>1, <1>9, AddressesType, SetterKeeps DEF CallAddNetworkAddress
<1>10. CASE CallRemoveNetworkAddress
  BY <1>1, <1>10, AddressesType, SetterKeeps DEF CallRemoveNetworkAddress
<1>11. CASE CallClearFlag
  BY <1>11, ClearFlagKeeps DEF CallClearFlag
<1>12. CASE CallClearChangedFlags
  BY <1>12, ClearChangedFlagsKeeps
<1>13. CASE UNCHANGED vars
  BY <1>13 DEF vars, WellFormed, UnflaggedMeansSeen
<1> QED BY <1>2, <1>3, <1>4, <1>5, <1>6, <1>7, <1>8, <1>9, <1>10, <1>11, <1>12,
           <1>13 DEF Next

\* The tracker is well formed in every reachable state, and an attribute whose
\* flag is clear is as the reader saw it: touch is never forgotten.
THEOREM TrackerCorrect == Spec => [](WellFormed /\ UnflaggedMeansSeen)
<1>1. Init => WellFormed /\ UnflaggedMeansSeen
  BY DefaultType DEF Init, WellFormed, UnflaggedMeansSeen
<1>2. WellFormed /\ UnflaggedMeansSeen /\ [Next]_vars => WellFormed' /\ UnflaggedMeansSeen'
  BY Inductive
<1> QED BY <1>1, <1>2, PTL DEF Spec

-----------------------------------------------------------------------------

\* The change of the gateway is announced only with an address (TypeOK).
AnnouncedAsAddress(t) ==
    "GatewayAddress" \in t.changed => t.value["GatewayAddress"] # NoGateway

\* A store keeps that, unless it empties the gateway.
LEMMA AssignAnnounces ==
    ASSUME NEW t, IsTracker(t), AnnouncedAsAddress(t),
           NEW f \in ChangedFlag, NEW v \in ValuesOf(f), NEW c \in Counter,
           f = "GatewayAddress" => v # NoGateway
    PROVE  AnnouncedAsAddress(Assign(t, f, v, c))
<1> DEFINE u == Assign(t, f, v, c)
<1>1. /\ u.value = [t.value EXCEPT ![f] = v]
      /\ u.changed = t.changed \cup {f}
  BY AssignType
<1>2. "GatewayAddress" \in ChangedFlag
  BY DEF ChangedFlag
<1>3. u.value["GatewayAddress"] =
          IF f = "GatewayAddress" THEN v ELSE t.value["GatewayAddress"]
  BY <1>1, <1>2 DEF IsTracker, IsValue
<1> HIDE DEF u
<1>4. AnnouncedAsAddress(u)
  BY <1>1, <1>3 DEF AnnouncedAsAddress
<1> QED BY <1>4 DEF u

\* So do the two setters built from it.
LEMMA SetAnnounces ==
    ASSUME NEW t, IsTracker(t), AnnouncedAsAddress(t),
           NEW f \in ChangedFlag, NEW v \in ValuesOf(f), NEW c \in Counter,
           f = "GatewayAddress" => v # NoGateway
    PROVE  /\ AnnouncedAsAddress(Set(t, f, v, c))
           /\ AnnouncedAsAddress(SetEthernet(t, f, v, c))
BY AssignAnnounces DEF Set, SetEthernet

\* Clearing the gateway stores 0.0.0.0.
LEMMA ClearGatewayAnnounces ==
    ASSUME NEW t, IsTracker(t), AnnouncedAsAddress(t)
    PROVE  AnnouncedAsAddress(ClearGatewayAddress(t))
<1>1. /\ "GatewayAddress" \in ChangedFlag /\ "gatewayAddressClears" \in Counter
      /\ AnyAddress \in ValuesOf("GatewayAddress") /\ AnyAddress # NoGateway
  BY ValueAssumption DEF ChangedFlag, Counter, ValuesOf
<1> QED BY <1>1, AssignAnnounces DEF ClearGatewayAddress

\* The setters of one attribute.
LEMMA SettersAnnounce ==
    ASSUME NEW t, IsTracker(t), AnnouncedAsAddress(t)
    PROVE  /\ \A n \in Names : AnnouncedAsAddress(SetName(t, n))
           /\ \A o \in OperationalStates : AnnouncedAsAddress(SetOperationalState(t, o))
           /\ \A m \in MacAddresses : AnnouncedAsAddress(SetMacAddress(t, m))
           /\ \A m \in MacAddresses : AnnouncedAsAddress(SetBroadcastAddress(t, m))
           /\ \A l \in LinkFlagSets : AnnouncedAsAddress(UpdateLinkFlags(t, l))
           /\ \A g \in Gateways : AnnouncedAsAddress(SetGatewayAddress(t, g))
<1>1. /\ {"Name", "LinkFlags", "OperationalState", "MacAddress",
          "BroadcastAddress", "GatewayAddress"} \subseteq ChangedFlag
      /\ {"nameChanges", "linkFlagChanges", "operationalStateChanges",
          "macAddressChanges", "broadcastAddressChanges",
          "gatewayAddressChanges"} \subseteq Counter
  BY DEF ChangedFlag, Counter
<1>2. ASSUME NEW n \in Names PROVE AnnouncedAsAddress(SetName(t, n))
  BY <1>1, SetAnnounces DEF SetName, ValuesOf
<1>3. ASSUME NEW o \in OperationalStates
      PROVE  AnnouncedAsAddress(SetOperationalState(t, o))
  BY <1>1, SetAnnounces DEF SetOperationalState, ValuesOf
<1>4. ASSUME NEW m \in MacAddresses PROVE AnnouncedAsAddress(SetMacAddress(t, m))
  BY <1>1, SetAnnounces DEF SetMacAddress, ValuesOf
<1>5. ASSUME NEW m \in MacAddresses PROVE AnnouncedAsAddress(SetBroadcastAddress(t, m))
  BY <1>1, SetAnnounces DEF SetBroadcastAddress, ValuesOf
<1>6. ASSUME NEW l \in LinkFlagSets PROVE AnnouncedAsAddress(UpdateLinkFlags(t, l))
  BY <1>1, SetAnnounces DEF UpdateLinkFlags, ValuesOf
<1>7. ASSUME NEW g \in Gateways PROVE AnnouncedAsAddress(SetGatewayAddress(t, g))
  <2>1. g \in ValuesOf("GatewayAddress") /\ g # NoGateway
    BY ValueAssumption DEF ValuesOf
  <2> QED BY <2>1, <1>1, SetAnnounces DEF SetGatewayAddress
<1> QED BY <1>2, <1>3, <1>4, <1>5, <1>6, <1>7

\* An address that comes or goes: the last IPv4 address takes the gateway with
\* it, announced as 0.0.0.0.
LEMMA AddressesAnnounce ==
    ASSUME NEW t, IsTracker(t), AnnouncedAsAddress(t), NEW a \in Address
    PROVE  /\ AnnouncedAsAddress(AddNetworkAddress(t, a))
           /\ AnnouncedAsAddress(RemoveNetworkAddress(t, a))
<1> DEFINE more == NetworkAddresses(t) \cup {a}
           left == NetworkAddresses(t) \ {a}
           removed == Assign(t, "NetworkAddresses", left, "networkAddressesRemoved")
<1>1. /\ "NetworkAddresses" \in ChangedFlag
      /\ {"networkAddressesRemoved", "networkAddressesAdded",
          "networkAddressesNoChangeUpdates"} \subseteq Counter
      /\ ValuesOf("NetworkAddresses") = SUBSET Address
  BY DEF ChangedFlag, Counter, ValuesOf
<1>2. NetworkAddresses(t) \in SUBSET Address
  BY <1>1 DEF IsTracker, IsValue, NetworkAddresses
<1>3. more \in ValuesOf("NetworkAddresses") /\ left \in ValuesOf("NetworkAddresses")
  BY <1>1, <1>2
<1> HIDE DEF more, left
<1>4. /\ AnnouncedAsAddress(Assign(t, "NetworkAddresses", more, "networkAddressesAdded"))
      /\ AnnouncedAsAddress(removed)
      /\ IsTracker(removed)
  BY <1>1, <1>3, AssignAnnounces, AssignType
<1>5. AnnouncedAsAddress(Count(t, "networkAddressesNoChangeUpdates", 1))
  BY <1>1, CountType DEF AnnouncedAsAddress
<1> HIDE DEF removed
<1>6. AnnouncedAsAddress(ClearGatewayAddress(removed))
  BY <1>4, ClearGatewayAnnounces
<1>7. AnnouncedAsAddress(AddNetworkAddress(t, a))
  BY <1>4, <1>5 DEF AddNetworkAddress, more
<1>8. AnnouncedAsAddress(RemoveNetworkAddress(t, a))
  BY <1>4, <1>6 DEF RemoveNetworkAddress, removed, left
<1> QED BY <1>7, <1>8

\* clearFlag and clearChangedFlags announce nothing.
LEMMA ClearAnnounces ==
    ASSUME NEW t, IsTracker(t), AnnouncedAsAddress(t)
    PROVE  /\ AnnouncedAsAddress(ClearChangedFlags(t))
           /\ \A f \in ChangedFlag : AnnouncedAsAddress(ClearFlag(t, f))
BY ClearType DEF AnnouncedAsAddress

\* Every call keeps what the flag of the gateway says.
LEMMA CallAnnounces ==
    ASSUME IsTracker(tracker), AnnouncedAsAddress(tracker), [Next]_vars
    PROVE  AnnouncedAsAddress(tracker')
<1>1. CASE CallSetName
  BY <1>1, SettersAnnounce DEF CallSetName, Setter, Call
<1>2. CASE CallSetOperationalState
  BY <1>2, SettersAnnounce DEF CallSetOperationalState, Setter, Call
<1>3. CASE CallSetMacAddress
  BY <1>3, SettersAnnounce DEF CallSetMacAddress, Setter, Call
<1>4. CASE CallSetBroadcastAddress
  BY <1>4, SettersAnnounce DEF CallSetBroadcastAddress, Setter, Call
<1>5. CASE CallUpdateLinkFlags
  BY <1>5, SettersAnnounce DEF CallUpdateLinkFlags, Setter, Call
<1>6. CASE CallSetGatewayAddress
  BY <1>6, SettersAnnounce DEF CallSetGatewayAddress, Setter, Call
<1>7. CASE CallClearGatewayAddress
  BY <1>7, ClearGatewayAnnounces DEF CallClearGatewayAddress, Setter, Call
<1>8. CASE CallAddNetworkAddress
  BY <1>8, AddressesAnnounce DEF CallAddNetworkAddress, Setter, Call
<1>9. CASE CallRemoveNetworkAddress
  BY <1>9, AddressesAnnounce DEF CallRemoveNetworkAddress, Setter, Call
<1>10. CASE CallClearFlag
  BY <1>10, ClearAnnounces DEF CallClearFlag, Call
<1>11. CASE CallClearChangedFlags
  BY <1>11, ClearAnnounces DEF CallClearChangedFlags, Call
<1>12. CASE UNCHANGED vars
  BY <1>12 DEF vars
<1> QED BY <1>1, <1>2, <1>3, <1>4, <1>5, <1>6, <1>7, <1>8, <1>9, <1>10, <1>11,
           <1>12 DEF Next

\* A tracker never holds a value of another kind, and a change of its gateway
\* is never announced without an address: a lost gateway is 0.0.0.0.
THEOREM TrackerTypes == Spec => []TypeOK
<1>1. Init => AnnouncedAsAddress(tracker)
  BY DEF Init, DefaultTracker, AnnouncedAsAddress
<1>2. WellFormed /\ AnnouncedAsAddress(tracker) /\ [Next]_vars
        => AnnouncedAsAddress(tracker)'
  BY CallAnnounces DEF WellFormed, AnnouncedAsAddress
<1>3. WellFormed /\ AnnouncedAsAddress(tracker) => TypeOK
  BY DEF TypeOK, AnnouncedAsAddress
<1>4. Spec => []WellFormed
  BY TrackerCorrect, PTL
<1> QED BY <1>1, <1>2, <1>3, <1>4, PTL DEF Spec

-----------------------------------------------------------------------------

\* From t to u the addresses stay as they are.
SameAddresses(t, u) == NetworkAddresses(u) = NetworkAddresses(t)

\* No operation but the two about addresses touches the addresses.
LEMMA AddressFrame ==
    ASSUME NEW t, IsTracker(t)
    PROVE  /\ \A n \in Names : SameAddresses(t, SetName(t, n))
           /\ \A o \in OperationalStates : SameAddresses(t, SetOperationalState(t, o))
           /\ \A m \in MacAddresses : /\ SameAddresses(t, SetMacAddress(t, m))
                                      /\ SameAddresses(t, SetBroadcastAddress(t, m))
           /\ \A l \in LinkFlagSets : SameAddresses(t, UpdateLinkFlags(t, l))
           /\ \A g \in Gateways : SameAddresses(t, SetGatewayAddress(t, g))
           /\ SameAddresses(t, ClearGatewayAddress(t))
           /\ SameAddresses(t, ClearChangedFlags(t))
           /\ \A f \in ChangedFlag : SameAddresses(t, ClearFlag(t, f))
<1>1. ASSUME NEW f \in ChangedFlag \ {"NetworkAddresses"}, NEW v \in ValuesOf(f),
             NEW c \in Counter
      PROVE  /\ SameAddresses(t, Assign(t, f, v, c))
             /\ SameAddresses(t, Set(t, f, v, c))
             /\ SameAddresses(t, SetEthernet(t, f, v, c))
  <2>1. "NetworkAddresses" \in ChangedFlag
    BY DEF ChangedFlag
  <2>2. [t.value EXCEPT ![f] = v]["NetworkAddresses"] = t.value["NetworkAddresses"]
    BY <2>1 DEF IsTracker, IsValue
  <2>3. Assign(t, f, v, c).value = [t.value EXCEPT ![f] = v]
    BY AssignType, f \in ChangedFlag
  <2>4. SameAddresses(t, Assign(t, f, v, c))
    BY <2>2, <2>3 DEF SameAddresses, NetworkAddresses
  <2> QED BY <2>4 DEF Set, SetEthernet, SameAddresses
<1>2. /\ {"Name", "LinkFlags", "OperationalState", "MacAddress",
          "BroadcastAddress", "GatewayAddress"}
            \subseteq ChangedFlag \ {"NetworkAddresses"}
      /\ {"nameChanges", "linkFlagChanges", "operationalStateChanges",
          "macAddressChanges", "broadcastAddressChanges",
          "gatewayAddressChanges", "gatewayAddressClears"} \subseteq Counter
  BY DEF ChangedFlag, Counter
<1>3. ASSUME NEW n \in Names PROVE SameAddresses(t, SetName(t, n))
  BY <1>1, <1>2 DEF SetName, ValuesOf
<1>4. ASSUME NEW o \in OperationalStates
      PROVE  SameAddresses(t, SetOperationalState(t, o))
  BY <1>1, <1>2 DEF SetOperationalState, ValuesOf
<1>5. ASSUME NEW m \in MacAddresses PROVE SameAddresses(t, SetMacAddress(t, m))
  BY <1>1, <1>2 DEF SetMacAddress, ValuesOf
<1>6. ASSUME NEW m \in MacAddresses PROVE SameAddresses(t, SetBroadcastAddress(t, m))
  BY <1>1, <1>2 DEF SetBroadcastAddress, ValuesOf
<1>7. ASSUME NEW l \in LinkFlagSets PROVE SameAddresses(t, UpdateLinkFlags(t, l))
  BY <1>1, <1>2 DEF UpdateLinkFlags, ValuesOf
<1>8. ASSUME NEW g \in Gateways PROVE SameAddresses(t, SetGatewayAddress(t, g))
  BY <1>1, <1>2 DEF SetGatewayAddress, ValuesOf
<1>9. SameAddresses(t, ClearGatewayAddress(t))
  <2>1. AnyAddress \in ValuesOf("GatewayAddress")
    BY DEF ValuesOf
  <2> QED BY <2>1, <1>1, <1>2 DEF ClearGatewayAddress, SameAddresses
<1>10. /\ SameAddresses(t, ClearChangedFlags(t))
       /\ \A f \in ChangedFlag : SameAddresses(t, ClearFlag(t, f))
  BY ClearType DEF SameAddresses, NetworkAddresses
<1> QED BY <1>3, <1>4, <1>5, <1>6, <1>7, <1>8, <1>9, <1>10

\* A removal that leaves no IPv4 address has cleared the gateway and raised
\* both flags.
LEMMA RemovalClearsGateway ==
    ASSUME NEW t, IsTracker(t), NEW a \in Address,
           a \in NetworkAddresses(t),
           ~HasIPv4(NetworkAddresses(RemoveNetworkAddress(t, a)))
    PROVE  LET u == RemoveNetworkAddress(t, a)
           IN  /\ u.value["GatewayAddress"] \notin Gateways
               /\ t.value["GatewayAddress"] # NoGateway
                    => {"GatewayAddress", "NetworkAddresses"} \subseteq u.changed
<1> DEFINE left    == NetworkAddresses(t) \ {a}
           removed == Assign(t, "NetworkAddresses", left, "networkAddressesRemoved")
           cleared == ClearGatewayAddress(removed)
<1>1. /\ "NetworkAddresses" \in ChangedFlag /\ "GatewayAddress" \in ChangedFlag
      /\ "networkAddressesRemoved" \in Counter /\ "gatewayAddressClears" \in Counter
      /\ ValuesOf("NetworkAddresses") = SUBSET Address
      /\ ValuesOf("GatewayAddress") = Gateways \cup {NoGateway, AnyAddress}
  BY DEF ChangedFlag, Counter, ValuesOf
<1>2. left \in ValuesOf("NetworkAddresses")
  BY <1>1 DEF IsTracker, IsValue, NetworkAddresses
<1>3. /\ IsTracker(removed)
      /\ removed.value = [t.value EXCEPT !["NetworkAddresses"] = left]
      /\ removed.changed = t.changed \cup {"NetworkAddresses"}
  <2> HIDE DEF left
  <2> QED BY <1>1, <1>2, AssignType
<1>4. RemoveNetworkAddress(t, a) = IF HasIPv4(left) THEN removed ELSE cleared
  BY DEF RemoveNetworkAddress
<1>5. NetworkAddresses(removed) = left /\ removed.value["GatewayAddress"] = t.value["GatewayAddress"]
  BY <1>1, <1>3 DEF IsTracker, IsValue, NetworkAddresses
<1> HIDE DEF removed
<1>6. RemoveNetworkAddress(t, a) = cleared /\ ~HasIPv4(left)
  BY <1>4, <1>5
<1>7. CASE removed.value["GatewayAddress"] = NoGateway
  <2>1. cleared = removed
    BY <1>7 DEF ClearGatewayAddress
  <2> QED BY <2>1, <1>5, <1>6, <1>7, ValueAssumption
<1>8. CASE removed.value["GatewayAddress"] # NoGateway
  <2>1. cleared = Assign(removed, "GatewayAddress", AnyAddress, "gatewayAddressClears")
    BY <1>8 DEF ClearGatewayAddress
  <2>4. IsTracker(removed) /\ AnyAddress \in ValuesOf("GatewayAddress")
    BY <1>1, <1>3
  <2>2. /\ cleared.value = [removed.value EXCEPT !["GatewayAddress"] = AnyAddress]
        /\ cleared.changed = removed.changed \cup {"GatewayAddress"}
    <3> HIDE DEF cleared
    <3>1. "GatewayAddress" \in ChangedFlag /\ "gatewayAddressClears" \in Counter
      BY <1>1
    <3> QED BY <2>1, <2>4, <3>1, AssignType
  <2>3. cleared.value["GatewayAddress"] = AnyAddress
    BY <2>2, <1>1, <1>3 DEF IsTracker, IsValue
  <2> QED BY <2>2, <2>3, <1>3, <1>6, ValueAssumption
<1> QED BY <1>7, <1>8

\* A call keeps the addresses, adds one, or is a removal; only the last one can
\* leave fewer.
LEMMA GatewayStep ==
    ASSUME WellFormed, [Next]_vars,
           NetworkAddresses(tracker) # NetworkAddresses(tracker)',
           NetworkAddresses(tracker)' \subseteq NetworkAddresses(tracker)
    PROVE  \E a \in NetworkAddresses(tracker) :
              a \in Address /\ tracker' = RemoveNetworkAddress(tracker, a)
<1>1. IsTracker(tracker)
  BY DEF WellFormed
<1>2. NetworkAddresses(tracker)' = NetworkAddresses(tracker')
  BY DEF NetworkAddresses
<1>3. ~SameAddresses(tracker, tracker')
  BY <1>2 DEF SameAddresses
<1>4. ASSUME NEW a \in Address, tracker' = AddNetworkAddress(tracker, a)
      PROVE  FALSE
  <2>1. /\ "NetworkAddresses" \in ChangedFlag
        /\ "networkAddressesNoChangeUpdates" \in Counter
        /\ "networkAddressesAdded" \in Counter
        /\ ValuesOf("NetworkAddresses") = SUBSET Address
    BY DEF ChangedFlag, Counter, ValuesOf
  <2> DEFINE more == NetworkAddresses(tracker) \cup {a}
  <2>2. more \in ValuesOf("NetworkAddresses")
    BY <1>1, <2>1 DEF IsTracker, IsValue, NetworkAddresses
  <2>3. CASE a \in NetworkAddresses(tracker)
    <3>1. tracker'.value = tracker.value
      BY <1>1, <1>4, <2>1, <2>3, CountType DEF AddNetworkAddress
    <3> QED BY <3>1, <1>3 DEF SameAddresses, NetworkAddresses
  <2>4. CASE a \notin NetworkAddresses(tracker)
    <3>1. tracker' = Assign(tracker, "NetworkAddresses", more, "networkAddressesAdded")
      BY <1>4, <2>4 DEF AddNetworkAddress
    <3> HIDE DEF more
    <3>2. tracker'.value = [tracker.value EXCEPT !["NetworkAddresses"] = more]
      BY <1>1, <2>1, <2>2, <3>1, AssignType
    <3>3. NetworkAddresses(tracker') = more
      BY <1>1, <2>1, <3>2 DEF IsTracker, IsValue, NetworkAddresses
    <3> QED BY <1>2, <2>4, <3>3 DEF more
  <2> QED BY <2>3, <2>4
<1>5. ASSUME NEW a \in Address, tracker' = RemoveNetworkAddress(tracker, a)
      PROVE  a \in NetworkAddresses(tracker)
  <2>1. CASE a \notin NetworkAddresses(tracker)
    BY <1>3, <1>5, <2>1 DEF RemoveNetworkAddress, SameAddresses
  <2> QED BY <2>1
<1>6. CASE CallSetName
  BY <1>1, <1>3, <1>6, AddressFrame DEF CallSetName, Setter, Call
<1>7. CASE CallSetOperationalState
  BY <1>1, <1>3, <1>7, AddressFrame DEF CallSetOperationalState, Setter, Call
<1>8. CASE CallSetMacAddress
  BY <1>1, <1>3, <1>8, AddressFrame DEF CallSetMacAddress, Setter, Call
<1>9. CASE CallSetBroadcastAddress
  BY <1>1, <1>3, <1>9, AddressFrame DEF CallSetBroadcastAddress, Setter, Call
<1>10. CASE CallUpdateLinkFlags
  BY <1>1, <1>3, <1>10, AddressFrame DEF CallUpdateLinkFlags, Setter, Call
<1>11. CASE CallSetGatewayAddress
  BY <1>1, <1>3, <1>11, AddressFrame DEF CallSetGatewayAddress, Setter, Call
<1>12. CASE CallClearGatewayAddress
  BY <1>1, <1>3, <1>12, AddressFrame DEF CallClearGatewayAddress, Setter, Call
<1>13. CASE CallAddNetworkAddress
  BY <1>4, <1>13 DEF CallAddNetworkAddress, Setter, Call
<1>14. CASE CallRemoveNetworkAddress
  BY <1>5, <1>14 DEF CallRemoveNetworkAddress, Setter, Call
<1>15. CASE CallClearFlag
  BY <1>1, <1>3, <1>15, AddressFrame DEF CallClearFlag, Call
<1>16. CASE CallClearChangedFlags
  BY <1>1, <1>3, <1>16, AddressFrame DEF CallClearChangedFlags, Call
<1>17. CASE UNCHANGED vars
  BY <1>3, <1>17 DEF vars, SameAddresses
<1> QED BY <1>6, <1>7, <1>8, <1>9, <1>10, <1>11, <1>12, <1>13, <1>14, <1>15,
           <1>16, <1>17 DEF Next

\* In no behaviour does a gateway outlive the last IPv4 address, and its loss
\* is announced with the loss of the address.
THEOREM GatewayFollowsAddresses == Spec => GatewayGoesWithLastIPv4
<1> DEFINE Step ==
        /\ NetworkAddresses(tracker) # NetworkAddresses(tracker)'
        /\ NetworkAddresses(tracker)' \subseteq NetworkAddresses(tracker)
        /\ ~HasIPv4(NetworkAddresses(tracker)')
        => /\ tracker'.value["GatewayAddress"] \notin Gateways
           /\ tracker.value["GatewayAddress"] # NoGateway
                => {"GatewayAddress", "NetworkAddresses"} \subseteq tracker'.changed
<1>1. WellFormed /\ [Next]_vars => [Step]_vars
  <2> SUFFICES ASSUME WellFormed, [Next]_vars,
                      NetworkAddresses(tracker) # NetworkAddresses(tracker)',
                      NetworkAddresses(tracker)' \subseteq NetworkAddresses(tracker),
                      ~HasIPv4(NetworkAddresses(tracker)')
               PROVE  /\ tracker'.value["GatewayAddress"] \notin Gateways
                      /\ tracker.value["GatewayAddress"] # NoGateway
                           => {"GatewayAddress", "NetworkAddresses"}
                                \subseteq tracker'.changed
    OBVIOUS
  <2>1. PICK a \in NetworkAddresses(tracker) :
            a \in Address /\ tracker' = RemoveNetworkAddress(tracker, a)
    BY GatewayStep
  <2>2. NetworkAddresses(tracker)' = NetworkAddresses(RemoveNetworkAddress(tracker, a))
    BY <2>1 DEF NetworkAddresses
  <2> QED BY <2>1, <2>2, RemovalClearsGateway DEF WellFormed
<1>2. Spec => []WellFormed
  BY TrackerCorrect, PTL
<1> QED BY <1>1, <1>2, PTL DEF Spec, GatewayGoesWithLastIPv4

-----------------------------------------------------------------------------

\* What the two balances say of a tracker.
FlagCounts(t) ==
    t.nerdstats["changedFlagChanges"] =
        t.nerdstats["changedFlagClears"] + Cardinality(t.changed)

\* The addresses that are held have been added and not removed.
AddressCounts(t) ==
    t.nerdstats["networkAddressesAdded"] =
        t.nerdstats["networkAddressesRemoved"] + Cardinality(NetworkAddresses(t))

\* Both, if there are counters at all.
Balanced(t) == CountStats => FlagCounts(t) /\ AddressCounts(t)

\* The counters the balances are about.
BalanceCounter == {"changedFlagChanges", "changedFlagClears",
                   "networkAddressesAdded", "networkAddressesRemoved"}

\* The sets that are counted are finite.
LEMMA CountedFinite ==
    ASSUME NEW t, IsTracker(t)
    PROVE  IsFiniteSet(t.changed) /\ IsFiniteSet(NetworkAddresses(t))
<1>1. IsFiniteSet(t.changed)
  BY FlagsFinite, FS_Subset DEF IsTracker
<1>2. IsFiniteSet(Address)
  <2> DEFINE P == Ips \X AddressAttributes
             f == [p \in P |-> [ip |-> p[1], attributes |-> p[2]]]
  <2>1. IsFiniteSet(P)
    BY FS_Product, ValueAssumption
  <2>2. f \in [P -> Address]
    BY DEF Address
  <2>3. \A a \in Address : \E p \in P : f[p] = a
    <3> TAKE a \in Address
    <3>1. <<a.ip, a.attributes>> \in P
      BY DEF Address
    <3>2. f[<<a.ip, a.attributes>>] = a
      BY <3>1 DEF Address
    <3> QED BY <3>1, <3>2
  <2>4. f \in Surjection(P, Address)
    <3> HIDE DEF f, P
    <3> QED BY <2>2, <2>3 DEF Surjection
  <2> QED BY <2>1, <2>4, FS_Surjection
<1>3. NetworkAddresses(t) \subseteq Address
  BY DEF IsTracker, IsValue, NetworkAddresses, ChangedFlag, ValuesOf
<1> QED BY <1>1, <1>2, <1>3, FS_Subset

\* A counter moves by what is counted, and no other one does.
LEMMA CountEffect ==
    ASSUME NEW t, IsTracker(t), NEW c \in Counter, NEW n \in Nat, CountStats
    PROVE  \A d \in Counter : Count(t, c, n).nerdstats[d] =
                IF d = c THEN t.nerdstats[d] + n ELSE t.nerdstats[d]
<1> DEFINE u == [t EXCEPT !.nerdstats[c] = @ + n]
<1>1. u.nerdstats = [t.nerdstats EXCEPT ![c] = @ + n]
  BY DEF IsTracker
<1>2. Count(t, c, n) = u
  BY DEF Count
<1> HIDE DEF u
<1> QED BY <1>1, <1>2 DEF IsTracker

\* touch counts a flag exactly when it raises it.
LEMMA TouchEffect ==
    ASSUME NEW t, IsTracker(t), NEW f \in ChangedFlag, CountStats, FlagCounts(t)
    PROVE  /\ FlagCounts(Touch(t, f))
           /\ \A d \in Counter \ {"changedFlagChanges"} :
                    Touch(t, f).nerdstats[d] = t.nerdstats[d]
<1> DEFINE u == [t EXCEPT !.changed = @ \cup {f}]
<1>1. u = [value |-> t.value, changed |-> t.changed \cup {f},
           nerdstats |-> t.nerdstats]
  BY DEF IsTracker
<1>2. IsTracker(u)
  BY <1>1 DEF IsTracker
<1>3. {"changedFlagChanges", "changedFlagClears"} \subseteq Counter
  BY DEF Counter
<1>4. CASE f \in t.changed
  BY <1>4 DEF Touch
<1>5. CASE f \notin t.changed
  <2>1. u.nerdstats = t.nerdstats /\ u.changed = t.changed \cup {f}
    BY <1>1
  <2>2. Touch(t, f) = Count(u, "changedFlagChanges", 1)
    BY <1>5 DEF Touch
  <2> HIDE DEF u
  <2>3. \A d \in Counter : Touch(t, f).nerdstats[d] =
            IF d = "changedFlagChanges" THEN t.nerdstats[d] + 1 ELSE t.nerdstats[d]
    BY <1>2, <1>3, <2>1, <2>2, CountEffect
  <2>4. Touch(t, f).changed = t.changed \cup {f}
    BY TouchType
  <2>5. Cardinality(t.changed \cup {f}) = Cardinality(t.changed) + 1
    BY <1>5, CountedFinite, FS_AddElement
  <2>6. /\ Cardinality(t.changed) \in Nat
        /\ t.nerdstats["changedFlagChanges"] \in Nat
        /\ t.nerdstats["changedFlagClears"] \in Nat
    BY <1>3, CountedFinite, FS_CardinalityType DEF IsTracker
  <2>7. Touch(t, f).nerdstats["changedFlagChanges"] = t.nerdstats["changedFlagChanges"] + 1
    BY <2>3, <1>3
  <2>8. Touch(t, f).nerdstats["changedFlagClears"] = t.nerdstats["changedFlagClears"]
    BY <2>3, <1>3
  <2> QED BY <2>3, <2>4, <2>5, <2>6, <2>7, <2>8 DEF FlagCounts
<1> QED BY <1>4, <1>5

\* A setter counts itself, and the flag as touch does.
LEMMA AssignEffect ==
    ASSUME NEW t, IsTracker(t), NEW f \in ChangedFlag, NEW v \in ValuesOf(f),
           NEW c \in Counter \ {"changedFlagChanges", "changedFlagClears"},
           CountStats, FlagCounts(t)
    PROVE  /\ FlagCounts(Assign(t, f, v, c))
           /\ \A d \in Counter \ {"changedFlagChanges"} :
                    Assign(t, f, v, c).nerdstats[d] =
                        IF d = c THEN t.nerdstats[d] + 1 ELSE t.nerdstats[d]
<1> DEFINE u == [t EXCEPT !.value[f] = v]
<1>1. u = [value |-> [t.value EXCEPT ![f] = v], changed |-> t.changed,
           nerdstats |-> t.nerdstats]
  BY DEF IsTracker
<1>2. IsValue([t.value EXCEPT ![f] = v])
  BY DEF IsTracker, IsValue
<1>3. IsTracker(u)
  BY <1>1, <1>2 DEF IsTracker
<1>4. u.changed = t.changed /\ u.nerdstats = t.nerdstats /\ FlagCounts(u)
  BY <1>1 DEF FlagCounts
<1>5. Assign(t, f, v, c) = Count(Touch(u, f), c, 1)
  BY DEF Assign
<1> HIDE DEF u
<1>6. IsTracker(Touch(u, f))
  BY <1>3, TouchType
<1>7. /\ FlagCounts(Touch(u, f))
      /\ \A d \in Counter \ {"changedFlagChanges"} :
                Touch(u, f).nerdstats[d] = t.nerdstats[d]
  BY <1>3, <1>4, TouchEffect
<1>8. \A d \in Counter : Assign(t, f, v, c).nerdstats[d] =
            IF d = c THEN Touch(u, f).nerdstats[d] + 1 ELSE Touch(u, f).nerdstats[d]
  BY <1>5, <1>6, CountEffect
<1>9. Assign(t, f, v, c).changed = Touch(u, f).changed
  BY <1>5, <1>6, CountType
<1>10. {"changedFlagChanges", "changedFlagClears"} \subseteq Counter
  BY DEF Counter
<1>11. FlagCounts(Assign(t, f, v, c))
  BY <1>7, <1>8, <1>9, <1>10 DEF FlagCounts
<1> QED BY <1>7, <1>8, <1>11

\* A setter of anything but the addresses keeps the balances.
LEMMA AssignBalanced ==
    ASSUME NEW t, IsTracker(t), Balanced(t),
           NEW f \in ChangedFlag \ {"NetworkAddresses"}, NEW v \in ValuesOf(f),
           NEW c \in Counter \ BalanceCounter
    PROVE  /\ Balanced(Assign(t, f, v, c))
           /\ Balanced(Set(t, f, v, c))
           /\ Balanced(SetEthernet(t, f, v, c))
<1>1. ASSUME CountStats
      PROVE  FlagCounts(Assign(t, f, v, c)) /\ AddressCounts(Assign(t, f, v, c))
  <2>1. /\ FlagCounts(Assign(t, f, v, c))
        /\ \A d \in Counter \ {"changedFlagChanges"} :
                Assign(t, f, v, c).nerdstats[d] =
                    IF d = c THEN t.nerdstats[d] + 1 ELSE t.nerdstats[d]
    BY <1>1, AssignEffect DEF Balanced, BalanceCounter
  <2>2. {"networkAddressesAdded", "networkAddressesRemoved"}
            \subseteq Counter \ {"changedFlagChanges", c}
    BY DEF Counter, BalanceCounter
  <2>3. NetworkAddresses(Assign(t, f, v, c)) = NetworkAddresses(t)
    <3>1. Assign(t, f, v, c).value = [t.value EXCEPT ![f] = v]
      BY AssignType
    <3> QED BY <3>1 DEF NetworkAddresses, IsTracker, IsValue
  <2> QED BY <1>1, <2>1, <2>2, <2>3 DEF Balanced, AddressCounts
<1> QED BY <1>1 DEF Balanced, Set, SetEthernet

\* All single-value setters keep the balances.
LEMMA SettersBalanced ==
    ASSUME NEW t, IsTracker(t), Balanced(t)
    PROVE  /\ \A n \in Names : Balanced(SetName(t, n))
           /\ \A o \in OperationalStates : Balanced(SetOperationalState(t, o))
           /\ \A m \in MacAddresses : /\ Balanced(SetMacAddress(t, m))
                                      /\ Balanced(SetBroadcastAddress(t, m))
           /\ \A l \in LinkFlagSets : Balanced(UpdateLinkFlags(t, l))
           /\ \A g \in Gateways : Balanced(SetGatewayAddress(t, g))
           /\ Balanced(ClearGatewayAddress(t))
<1>1. /\ {"Name", "LinkFlags", "OperationalState", "MacAddress",
          "BroadcastAddress", "GatewayAddress"}
            \subseteq ChangedFlag \ {"NetworkAddresses"}
      /\ {"nameChanges", "linkFlagChanges", "operationalStateChanges",
          "macAddressChanges", "broadcastAddressChanges",
          "gatewayAddressChanges", "gatewayAddressClears"}
            \subseteq Counter \ BalanceCounter
  BY DEF ChangedFlag, Counter, BalanceCounter
<1>2. ASSUME NEW n \in Names PROVE Balanced(SetName(t, n))
  BY <1>1, AssignBalanced DEF SetName, ValuesOf
<1>3. ASSUME NEW o \in OperationalStates PROVE Balanced(SetOperationalState(t, o))
  BY <1>1, AssignBalanced DEF SetOperationalState, ValuesOf
<1>4. ASSUME NEW m \in MacAddresses PROVE Balanced(SetMacAddress(t, m))
  BY <1>1, AssignBalanced DEF SetMacAddress, ValuesOf
<1>5. ASSUME NEW m \in MacAddresses PROVE Balanced(SetBroadcastAddress(t, m))
  BY <1>1, AssignBalanced DEF SetBroadcastAddress, ValuesOf
<1>6. ASSUME NEW l \in LinkFlagSets PROVE Balanced(UpdateLinkFlags(t, l))
  BY <1>1, AssignBalanced DEF UpdateLinkFlags, ValuesOf
<1>7. ASSUME NEW g \in Gateways PROVE Balanced(SetGatewayAddress(t, g))
  BY <1>1, AssignBalanced DEF SetGatewayAddress, ValuesOf
<1>8. Balanced(ClearGatewayAddress(t))
  <2>1. AnyAddress \in ValuesOf("GatewayAddress")
    BY DEF ValuesOf
  <2> QED BY <2>1, <1>1, AssignBalanced DEF ClearGatewayAddress
<1> QED BY <1>2, <1>3, <1>4, <1>5, <1>6, <1>7, <1>8

\* addNetworkAddress and removeNetworkAddress count what they change: an
\* address that is held already or unknown is not counted as a change.
LEMMA AddressesBalanced ==
    ASSUME NEW t, IsTracker(t), Balanced(t), NEW a \in Address
    PROVE  Balanced(AddNetworkAddress(t, a)) /\ Balanced(RemoveNetworkAddress(t, a))
<1> DEFINE addresses == NetworkAddresses(t)
           added     == Assign(t, "NetworkAddresses", addresses \cup {a},
                               "networkAddressesAdded")
           removed   == Assign(t, "NetworkAddresses", addresses \ {a},
                               "networkAddressesRemoved")
<1>1. /\ "NetworkAddresses" \in ChangedFlag
      /\ ValuesOf("NetworkAddresses") = SUBSET Address
      /\ BalanceCounter \cup {"networkAddressesNoChangeUpdates"} \subseteq Counter
      /\ "networkAddressesNoChangeUpdates" \notin BalanceCounter
      /\ addresses \subseteq Address
  BY DEF ChangedFlag, ValuesOf, Counter, BalanceCounter, IsTracker, IsValue,
         NetworkAddresses
<1>2. /\ IsFiniteSet(addresses) /\ Cardinality(addresses) \in Nat
      /\ \A c \in Counter : t.nerdstats[c] \in Nat
  BY CountedFinite, FS_CardinalityType DEF IsTracker
<1>3. /\ {"networkAddressesAdded", "networkAddressesRemoved"}
            \subseteq Counter \ {"changedFlagChanges", "changedFlagClears"}
      /\ "networkAddressesAdded" # "networkAddressesRemoved"
  BY DEF Counter
<1>4. ASSUME NEW new \in SUBSET Address, NEW c \in {"networkAddressesAdded",
                                                    "networkAddressesRemoved"}
      PROVE  LET u == Assign(t, "NetworkAddresses", new, c)
             IN  /\ IsTracker(u)
                 /\ NetworkAddresses(u) = new
                 /\ CountStats =>
                      /\ FlagCounts(u)
                      /\ \A d \in {"networkAddressesAdded", "networkAddressesRemoved"} :
                           u.nerdstats[d] = IF d = c THEN t.nerdstats[d] + 1
                                                     ELSE t.nerdstats[d]
  <2> DEFINE u == Assign(t, "NetworkAddresses", new, c)
  <2>0. new \in ValuesOf("NetworkAddresses") /\ c \in Counter
    BY <1>1, <1>3
  <2>1. IsTracker(u) /\ u.value = [t.value EXCEPT !["NetworkAddresses"] = new]
    BY <1>1, <2>0, AssignType
  <2>2. NetworkAddresses(u) = new
    BY <1>1, <2>1 DEF NetworkAddresses, IsTracker, IsValue
  <2>3. ASSUME CountStats
        PROVE  /\ FlagCounts(u)
               /\ \A d \in Counter \ {"changedFlagChanges"} :
                    u.nerdstats[d] = IF d = c THEN t.nerdstats[d] + 1
                                              ELSE t.nerdstats[d]
    <3>1. FlagCounts(t)
      BY <2>3 DEF Balanced
    <3>2. c \in Counter \ {"changedFlagChanges", "changedFlagClears"}
      BY <1>3
    <3>3. "NetworkAddresses" \in ChangedFlag
      BY <1>1
    <3> HIDE DEF addresses, added, removed
    <3> QED BY ONLY IsTracker(t), <2>3, <3>1, <3>2, <3>3, <2>0, AssignEffect
  <2> QED BY <1>3, <2>1, <2>2, <2>3
<1>5. CASE a \in addresses
  <2>1. Balanced(Count(t, "networkAddressesNoChangeUpdates", 1))
    <3> DEFINE u == Count(t, "networkAddressesNoChangeUpdates", 1)
    <3>1. u.value = t.value /\ u.changed = t.changed
      BY <1>1, CountType
    <3>2. ASSUME CountStats
          PROVE  \A d \in BalanceCounter : u.nerdstats[d] = t.nerdstats[d]
      BY <1>1, <3>2, CountEffect
    <3> HIDE DEF u
    <3>3. Balanced(u)
      BY <3>1, <3>2 DEF Balanced, FlagCounts, AddressCounts, BalanceCounter,
                        NetworkAddresses
    <3> QED BY <3>3 DEF u
  <2>2. Balanced(AddNetworkAddress(t, a))
    BY <1>5, <2>1 DEF AddNetworkAddress
  <2>3. IsTracker(removed) /\ Balanced(removed)
    <3>1. Cardinality(addresses \ {a}) = Cardinality(addresses) - 1
      BY <1>2, <1>5, FS_RemoveElement
    <3>2. addresses \ {a} \in SUBSET Address
      BY <1>1
    <3>3. /\ IsTracker(removed)
          /\ NetworkAddresses(removed) = addresses \ {a}
          /\ CountStats =>
               /\ FlagCounts(removed)
               /\ removed.nerdstats["networkAddressesRemoved"]
                    = t.nerdstats["networkAddressesRemoved"] + 1
               /\ removed.nerdstats["networkAddressesAdded"]
                    = t.nerdstats["networkAddressesAdded"]
      BY <1>4, <3>2
    <3> HIDE DEF removed, addresses
    <3>4. CountStats => t.nerdstats["networkAddressesAdded"]
                = t.nerdstats["networkAddressesRemoved"] + Cardinality(addresses)
      BY DEF Balanced, AddressCounts, addresses
    <3> QED BY <1>2, <1>3, <3>1, <3>3, <3>4 DEF Balanced, AddressCounts
  <2>4. RemoveNetworkAddress(t, a) \in {removed, ClearGatewayAddress(removed)}
    BY <1>5 DEF RemoveNetworkAddress
  <2> HIDE DEF removed
  <2> QED BY <2>2, <2>3, <2>4, SettersBalanced
<1>6. CASE a \notin addresses
  <2>1. RemoveNetworkAddress(t, a) = t /\ AddNetworkAddress(t, a) = added
    BY <1>6 DEF RemoveNetworkAddress, AddNetworkAddress
  <2>2. Cardinality(addresses \cup {a}) = Cardinality(addresses) + 1
    BY <1>2, <1>6, FS_AddElement
  <2>3. addresses \cup {a} \in SUBSET Address
    BY <1>1
  <2>4. /\ NetworkAddresses(added) = addresses \cup {a}
        /\ CountStats =>
             /\ FlagCounts(added)
             /\ added.nerdstats["networkAddressesAdded"]
                  = t.nerdstats["networkAddressesAdded"] + 1
             /\ added.nerdstats["networkAddressesRemoved"]
                  = t.nerdstats["networkAddressesRemoved"]
    BY <1>4, <2>3
  <2> HIDE DEF added, addresses
  <2>5. CountStats => t.nerdstats["networkAddressesAdded"]
              = t.nerdstats["networkAddressesRemoved"] + Cardinality(addresses)
    BY DEF Balanced, AddressCounts, addresses
  <2> QED BY <1>2, <1>3, <2>1, <2>2, <2>4, <2>5 DEF Balanced, AddressCounts
<1> QED BY <1>5, <1>6

\* clearFlag and clearChangedFlags count the flags they lower.
LEMMA ClearBalanced ==
    ASSUME NEW t, IsTracker(t), Balanced(t)
    PROVE  /\ Balanced(ClearChangedFlags(t))
           /\ \A f \in ChangedFlag : Balanced(ClearFlag(t, f))
<1>1. BalanceCounter \subseteq Counter /\ "changedFlagClears" \in BalanceCounter
  BY DEF BalanceCounter, Counter
<1>2. /\ IsFiniteSet(t.changed) /\ Cardinality(t.changed) \in Nat
      /\ \A c \in Counter : t.nerdstats[c] \in Nat
  BY CountedFinite, FS_CardinalityType DEF IsTracker
<1>3. ASSUME NEW left \in SUBSET t.changed, NEW n \in Nat,
             Cardinality(t.changed) = Cardinality(left) + n,
             Cardinality(left) \in Nat
      PROVE  Balanced(Count([t EXCEPT !.changed = left], "changedFlagClears", n))
  <2> DEFINE u == [t EXCEPT !.changed = left]
             w == Count(u, "changedFlagClears", n)
  <2>1. u = [value |-> t.value, changed |-> left, nerdstats |-> t.nerdstats]
    BY DEF IsTracker
  <2>2. IsTracker(u)
    BY <2>1 DEF IsTracker
  <2>3. u.value = t.value /\ u.changed = left /\ u.nerdstats = t.nerdstats
    BY <2>1
  <2> HIDE DEF u
  <2>4. w.value = t.value /\ w.changed = left
    BY <1>1, <2>2, <2>3, CountType
  <2>5. ASSUME CountStats
        PROVE  \A d \in BalanceCounter : w.nerdstats[d] =
                 IF d = "changedFlagClears" THEN t.nerdstats[d] + n ELSE t.nerdstats[d]
    BY <1>1, <2>2, <2>3, <2>5, CountEffect
  <2> HIDE DEF w
  <2>6. ASSUME CountStats PROVE FlagCounts(w) /\ AddressCounts(w)
    <3>1. FlagCounts(t) /\ AddressCounts(t)
      BY <2>6 DEF Balanced
    <3>2. /\ w.nerdstats["changedFlagChanges"] = t.nerdstats["changedFlagChanges"]
          /\ w.nerdstats["changedFlagClears"] = t.nerdstats["changedFlagClears"] + n
          /\ w.nerdstats["networkAddressesAdded"] = t.nerdstats["networkAddressesAdded"]
          /\ w.nerdstats["networkAddressesRemoved"]
                = t.nerdstats["networkAddressesRemoved"]
      BY <2>5, <2>6 DEF BalanceCounter
    <3>3. t.nerdstats["changedFlagClears"] \in Nat
      BY <1>1, <1>2
    <3>4. FlagCounts(w)
      BY <1>3, <2>4, <3>1, <3>2, <3>3 DEF FlagCounts
    <3> QED BY <2>4, <3>1, <3>2, <3>4 DEF AddressCounts, NetworkAddresses
  <2>7. Balanced(w)
    BY <2>6 DEF Balanced
  <2> QED BY <2>7 DEF w, u
<1>4. Balanced(ClearChangedFlags(t))
  BY <1>2, <1>3, FS_EmptySet DEF ClearChangedFlags
<1>5. ASSUME NEW f \in ChangedFlag PROVE Balanced(ClearFlag(t, f))
  <2>1. CASE f \notin t.changed
    BY <2>1 DEF ClearFlag
  <2>2. CASE f \in t.changed
    <3>1. /\ Cardinality(t.changed \ {f}) = Cardinality(t.changed) - 1
          /\ IsFiniteSet(t.changed \ {f})
      BY <1>2, <2>2, FS_RemoveElement
    <3>2. Cardinality(t.changed \ {f}) \in Nat
      BY <3>1, FS_CardinalityType
    <3> DEFINE left == t.changed \ {f}
    <3>3. Balanced(Count([t EXCEPT !.changed = left], "changedFlagClears", 1))
      <4>1. left \in SUBSET t.changed /\ Cardinality(t.changed) = Cardinality(left) + 1
        BY <1>2, <3>1
      <4>2. Cardinality(left) \in Nat
        BY <3>2
      <4> HIDE DEF left
      <4> QED BY <1>3, <4>1, <4>2
    <3>4. ClearFlag(t, f) = Count([t EXCEPT !.changed = t.changed \ {f}],
                                  "changedFlagClears", 1)
      BY <2>2 DEF ClearFlag
    <3> QED BY <3>3, <3>4
  <2> QED BY <2>1, <2>2
<1> QED BY <1>4, <1>5

\* The two balances, from every step's keeping both.
LEMMA CountersBalance == Spec => [](FlagsBalance /\ AddressesBalance)
<1>1. Init => Balanced(tracker)
  <2> SUFFICES ASSUME Init PROVE Balanced(tracker)
    OBVIOUS
  <2>1. tracker.changed = {} /\ NetworkAddresses(tracker) = {}
    BY DEF Init, DefaultTracker, DefaultValue, DefaultOf, NetworkAddresses, ChangedFlag
  <2>2. \A c \in Counter : tracker.nerdstats[c] = 0
    BY DEF Init, DefaultTracker
  <2> QED BY <2>1, <2>2, FS_EmptySet
          DEF Balanced, FlagCounts, AddressCounts, Counter
<1>2. WellFormed /\ Balanced(tracker) /\ [Next]_vars => Balanced(tracker)'
  <2> SUFFICES ASSUME WellFormed, Balanced(tracker), [Next]_vars
               PROVE  Balanced(tracker')
    BY DEF Balanced, FlagCounts, AddressCounts, NetworkAddresses
  <2>1. IsTracker(tracker)
    BY DEF WellFormed
  <2>2. CASE CallSetName
    BY <2>1, <2>2, SettersBalanced DEF CallSetName, Setter, Call
  <2>3. CASE CallSetOperationalState
    BY <2>1, <2>3, SettersBalanced DEF CallSetOperationalState, Setter, Call
  <2>4. CASE CallSetMacAddress
    BY <2>1, <2>4, SettersBalanced DEF CallSetMacAddress, Setter, Call
  <2>5. CASE CallSetBroadcastAddress
    BY <2>1, <2>5, SettersBalanced DEF CallSetBroadcastAddress, Setter, Call
  <2>6. CASE CallUpdateLinkFlags
    BY <2>1, <2>6, SettersBalanced DEF CallUpdateLinkFlags, Setter, Call
  <2>7. CASE CallSetGatewayAddress
    BY <2>1, <2>7, SettersBalanced DEF CallSetGatewayAddress, Setter, Call
  <2>8. CASE CallClearGatewayAddress
    BY <2>1, <2>8, SettersBalanced DEF CallClearGatewayAddress, Setter, Call
  <2>9. CASE CallAddNetworkAddress
    BY <2>1, <2>9, AddressesBalanced DEF CallAddNetworkAddress, Setter, Call
  <2>10. CASE CallRemoveNetworkAddress
    BY <2>1, <2>10, AddressesBalanced DEF CallRemoveNetworkAddress, Setter, Call
  <2>11. CASE CallClearFlag
    BY <2>1, <2>11, ClearBalanced DEF CallClearFlag, Call
  <2>12. CASE CallClearChangedFlags
    BY <2>1, <2>12, ClearBalanced DEF CallClearChangedFlags, Call
  <2>13. CASE UNCHANGED vars
    BY <2>13 DEF vars
  <2> QED BY <2>2, <2>3, <2>4, <2>5, <2>6, <2>7, <2>8, <2>9, <2>10, <2>11, <2>12,
             <2>13 DEF Next
<1>3. Balanced(tracker) => FlagsBalance /\ AddressesBalance
  BY DEF Balanced, FlagCounts, AddressCounts, FlagsBalance, AddressesBalance
<1>4. Spec => []WellFormed
  BY TrackerCorrect, PTL
<1> QED BY <1>1, <1>2, <1>3, <1>4, PTL DEF Spec

\* However touch, clearFlag and clearChangedFlags interleave, the counters of
\* raised and cleared flags account for the flags that are raised.
THEOREM FlagsAreBalanced == Spec => []FlagsBalance
BY CountersBalance, PTL

\* However addresses come and go, known or not, the counters of added and
\* removed addresses account for the addresses that are held.
THEOREM AddressesAreBalanced == Spec => []AddressesBalance
BY CountersBalance, PTL
=============================================================================
