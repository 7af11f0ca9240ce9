---------------------------- MODULE StatusTracker ----------------------------
(***************************************************************************)
(* One NetworkInterfaceStatusTracker under every sequence of its calls, in *)
(* any order: the monitor's message handlers call the setters in the order *)
(* the kernel's messages dictate, and its notification round clears the    *)
(* flags.  `seen` is a history variable: what a reader of the tracker that *)
(* looks at an attribute only when its flag is set has seen last.          *)
(***************************************************************************)
EXTENDS TrackerOps

CONSTANT MaxCalls       \* bound on the length of a run

ASSUME CallsAssumption == MaxCalls \in Nat

VARIABLES tracker, seen, calls

vars == <<tracker, seen, calls>>

Init == /\ tracker = DefaultTracker
        /\ seen = DefaultValue
        /\ calls = 0

Call(result) == /\ calls < MaxCalls
                /\ tracker' = result
                /\ calls' = calls + 1

\* A call of a setter: it returns `result` and no reader looks.
Setter(result) == Call(result) /\ UNCHANGED seen

CallSetName == \E n \in Names : Setter(SetName(tracker, n))

CallSetOperationalState ==
    \E o \in OperationalStates : Setter(SetOperationalState(tracker, o))

CallSetMacAddress == \E m \in MacAddresses : Setter(SetMacAddress(tracker, m))

CallSetBroadcastAddress ==
    \E m \in MacAddresses : Setter(SetBroadcastAddress(tracker, m))

CallUpdateLinkFlags == \E l \in LinkFlagSets : Setter(UpdateLinkFlags(tracker, l))

CallSetGatewayAddress == \E g \in Gateways : Setter(SetGatewayAddress(tracker, g))

CallClearGatewayAddress == Setter(ClearGatewayAddress(tracker))

CallAddNetworkAddress == \E a \in Address : Setter(AddNetworkAddress(tracker, a))

CallRemoveNetworkAddress ==
    \E a \in Address : Setter(RemoveNetworkAddress(tracker, a))

CallClearFlag ==
    \E f \in ChangedFlag :
        /\ Call(ClearFlag(tracker, f))
        /\ seen' = [seen EXCEPT ![f] = IF f \in tracker.changed
                                       THEN tracker.value[f] ELSE @]

CallClearChangedFlags ==
    /\ Call(ClearChangedFlags(tracker))
    /\ seen' = [f \in ChangedFlag |-> IF f \in tracker.changed
                                      THEN tracker.value[f] ELSE seen[f]]

Next == \/ CallSetName
        \/ CallSetOperationalState
        \/ CallSetMacAddress
        \/ CallSetBroadcastAddress
        \/ CallUpdateLinkFlags
        \/ CallSetGatewayAddress
        \/ CallClearGatewayAddress
        \/ CallAddNetworkAddress
        \/ CallRemoveNetworkAddress
        \/ CallClearFlag
        \/ CallClearChangedFlags

Spec == Init /\ [][Next]_vars

-----------------------------------------------------------------------------

\* The tracker is well formed, and so is what its reader has seen.
WellFormed == /\ IsTracker(tracker)
              /\ IsValue(seen)
              /\ calls \in Nat

\* Types, and what the flag of the gateway says of its value: a change of the
\* gateway is announced only with an address.  A gateway that is lost is
\* announced as 0.0.0.0 (clearGatewayAddress, which removeNetworkAddress and
\* the route messages reach), never as nothing, in whatever order gateways,
\* addresses and clears come.
TypeOK == /\ WellFormed
          /\ "GatewayAddress" \in tracker.changed
                => tracker.value["GatewayAddress"] # NoGateway

\* A reader that follows the change flags is never out of date about an
\* attribute whose flag is clear: no call changes a value behind the flags
\* (the contract NetworkMonitor::notifyChanges relies on).
UnflaggedMeansSeen ==
    \A f \in ChangedFlag \ tracker.changed : seen[f] = tracker.value[f]

\* The statistics balance: every flag that was raised was cleared or is still
\* raised, however touch, clearFlag and clearChangedFlags interleave.
FlagsBalance ==
    CountStats =>
        tracker.nerdstats["changedFlagChanges"] =
            tracker.nerdstats["changedFlagClears"] + Cardinality(tracker.changed)

\* The statistics balance: every address that was added was removed or is held.
AddressesBalance ==
    CountStats =>
        tracker.nerdstats["networkAddressesAdded"] =
            tracker.nerdstats["networkAddressesRemoved"]
                + Cardinality(NetworkAddresses(tracker))

\* A removal that leaves no IPv4 address leaves no gateway either, whatever
\* was removed (removeNetworkAddress, AllIPv4AddressesRemoved), and announces
\* both changes together.
GatewayGoesWithLastIPv4 ==
    [][ /\ NetworkAddresses(tracker) # NetworkAddresses(tracker)'
        /\ NetworkAddresses(tracker)' \subseteq NetworkAddresses(tracker)
        /\ ~HasIPv4(NetworkAddresses(tracker)')
        => /\ tracker'.value["GatewayAddress"] \notin Gateways
           /\ tracker.value["GatewayAddress"] # NoGateway
                => {"GatewayAddress", "NetworkAddresses"} \subseteq tracker'.changed
      ]_vars
=============================================================================
