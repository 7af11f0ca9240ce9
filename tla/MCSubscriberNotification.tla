---------------------- MODULE MCSubscriberNotification ----------------------
(***************************************************************************)
(* Up to two interfaces and three subscribers, messages that set, change   *)
(* and repeat attributes.  Attributes whose setter is the same as another  *)
(* one's have a single value.                                              *)
(***************************************************************************)
EXTENDS SubscriberNotification, TLC

CONSTANTS n0, n1, n2, lf0, unknown, up, m0, gw, none, any, v4, a1, s1, s2, s3,
          noattr

MCNames == {n0, n1, n2}
MCLinkFlagSets == {lf0}
MCOperationalStates == {unknown, up}
MCMacAddresses == {m0}
MCGateways == {gw}
MCIps == {v4}
MCAddressAttributes == {a1}
MCIndices == {1, 2}
MCOneIndex == {1}
MCLinkMessages ==
    {[name |-> n1, linkFlags |-> lf0, operationalState |-> up,
      macAddress |-> m0, broadcastAddress |-> noattr],
     [name |-> n2, linkFlags |-> lf0, operationalState |-> noattr,
      macAddress |-> noattr, broadcastAddress |-> noattr]}
MCLabels == {noattr}
Symmetry == Permutations({s1, s2})
=============================================================================
