--------------------------- MODULE MCStatusTracker ---------------------------
(* A small tracker: two values of every attribute, two IPv4 addresses of    *)
(* which one exists with two sets of attributes, and one IPv6 address.      *)
EXTENDS StatusTracker

CONSTANTS n0, n1, lf0, lf1, unknown, up, m0, m1, gw, none, any, v4, v6, a1, a2

MCNames == {n0, n1}
MCLinkFlagSets == {lf0, lf1}
MCOperationalStates == {unknown, up}
MCMacAddresses == {m0, m1}
MCGateways == {gw}
MCIps == {v4, v6}
MCIPv4 == {v4}
MCAddressAttributes == {a1, a2}
=============================================================================
