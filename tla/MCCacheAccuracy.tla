-------------------------- MODULE MCCacheAccuracy ---------------------------
(***************************************************************************)
(* One interface with two names and an alias, up and down, two IPv4        *)
(* addresses and an IPv6 one in two forms each, and routes through two     *)
(* gateways from either IPv4 address or without a source.                  *)
(***************************************************************************)
EXTENDS CacheAccuracy

CONSTANTS n0, n1, n2, al, lf0, lf1, unknown, up, m0, none, any, v4, w4, v6, a1, a2,
          noattr

MCLinkMessages ==
    {[name |-> n1, linkFlags |-> lf1, operationalState |-> up,
      macAddress |-> m0, broadcastAddress |-> noattr],
     [name |-> n2, linkFlags |-> lf1, operationalState |-> unknown,
      macAddress |-> noattr, broadcastAddress |-> noattr],
     [name |-> n2, linkFlags |-> lf0, operationalState |-> noattr,
      macAddress |-> noattr, broadcastAddress |-> noattr]}
=============================================================================
