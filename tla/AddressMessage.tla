---------------------------- MODULE AddressMessage ----------------------------
(***************************************************************************)
(* How an address message becomes a network::Address: the kernel encodes   *)
(* an interface address as a header and attributes, Attributes::parse puts *)
(* the attributes it knows into a table by type, one callback after the    *)
(* other, and parseAddressMessage reads the table through getters that     *)
(* check the length of what they return.  The encoding is external.        *)
(***************************************************************************)
EXTENDS AddressTypes, FiniteSets

CONSTANTS
    Ips,            \* ip addresses, sequences of bytes
    Given,          \* the addresses the kernel tells of in a run
    Labels,         \* names and aliases an IPv4 address is labelled with
    Protocols,      \* values of IFA_PROTO other than IFAPROT_UNSPEC
    Bits,           \* the bits of the 32 flag bits that are considered
    RtnlScopes,     \* values of ifa_scope
    None            \* an attribute or a value there is not

ASSUME MessageAssumption ==
    /\ \A ip \in Ips : ip \in Seq(Byte) /\ (IsV4(ip) \/ IsV6(ip))
    /\ AnyAddress \notin Ips
    /\ None \notin Ips \cup Labels \cup Protocols
    /\ Bits \subseteq 0 .. 31 /\ RtnlScopes \subseteq 0 .. 255

VARIABLES
    given,      \* the kernel's address
    left,       \* attributes of the message still to be parsed
    table,      \* m_attributes: the parsed attribute of each known type
    seen,       \* m_stats.seenAttributes
    unknown,    \* m_stats.unknownAttributes
    decoded     \* the network::Address, or None before it is made

vars == <<given, left, table, seen, unknown, decoded>>

-----------------------------------------------------------------------------
(* The kernel's side.                                                      *)

\* An address of an interface; the kernel tells of the flags beyond the eight
\* of the header in IFA_FLAGS, unless it is too old to have any.
KernelAddress(ips) ==
    {k \in [local : ips, peer : ips \cup {None}, broadcast : ips \cup {None},
            label : Labels, flags : SUBSET Bits, proto : Protocols \cup {None},
            scope : RtnlScopes, old : BOOLEAN] :
        /\ k.peer # None => (IsV4(k.peer) <=> IsV4(k.local))
        /\ k.broadcast # None => IsV4(k.local) /\ IsV4(k.broadcast)
        /\ k.old => k.flags \subseteq 0 .. 7 /\ k.proto = None}

ASSUME GivenAssumption == Given \subseteq KernelAddress(Ips)

Attribute(type, length, value) ==
    IF value = None THEN {}
    ELSE {[type |-> type, length |-> length, value |-> value]}

\* IPv4 always has IFA_LOCAL, and the peer or the address itself in IFA_ADDRESS;
\* IPv6 has IFA_LOCAL only with a peer.
Encoded(k) ==
    LET n  == Len(k.local)
        v4 == IsV4(k.local)
    IN  UNION {
            Attribute("IFA_ADDRESS", n, IF k.peer # None THEN k.peer ELSE k.local),
            Attribute("IFA_LOCAL", n,
                      IF v4 \/ k.peer # None THEN k.local ELSE None),
            Attribute("IFA_BROADCAST", 4, k.broadcast),
            Attribute("IFA_LABEL", 16, IF v4 THEN k.label ELSE None),
            IF k.old THEN {} ELSE {[type |-> "IFA_FLAGS", length |-> 4,
                                    value |-> k.flags]},
            Attribute("IFA_PROTO", 1, k.proto),
            Attribute("newer", 4, IF k.old THEN None ELSE "newer")}

\* What an attribute can carry is not mistaken for its absence.
ASSUME NoneAssumption ==
    \A k \in Given : k.flags # None /\ None \notin Encoded(k)

KnownTypes == {"IFA_ADDRESS", "IFA_LOCAL", "IFA_LABEL", "IFA_BROADCAST",
               "IFA_FLAGS", "IFA_PROTO"}

-----------------------------------------------------------------------------
(* Attributes.                                                             *)

Init == /\ given \in Given
        /\ left = Encoded(given)
        /\ table = [type \in KnownTypes |-> None]
        /\ seen = 0 /\ unknown = 0
        /\ decoded = None

\* Mutant: an attribute of a newer kernel ends the message.
ParseAttributeStops(a) ==
    /\ a \in left
    /\ IF a.type \in KnownTypes
       THEN /\ table' = [table EXCEPT ![a.type] = a]
            /\ seen' = seen + 1 /\ UNCHANGED unknown
            /\ left' = left \ {a}
       ELSE unknown' = unknown + 1 /\ left' = {} /\ UNCHANGED <<table, seen>>
    /\ UNCHANGED <<given, decoded>>

\* parseAttribute, for the attributes in any order.
ParseAttribute(a) ==
    /\ a \in left /\ left' = left \ {a}
    /\ IF a.type \in KnownTypes
       THEN /\ table' = [table EXCEPT ![a.type] = a]
            /\ seen' = seen + 1 /\ UNCHANGED unknown
       ELSE unknown' = unknown + 1 /\ UNCHANGED <<table, seen>>
    /\ UNCHANGED <<given, decoded>>

\* Mutant: the length of a payload is not compared.
GetAnyLength(type, length) ==
    IF table[type] = None THEN None ELSE table[type].value

\* The getters: an attribute of another length is treated as absent.
Get(type, length) ==
    IF table[type] = None THEN None
    ELSE IF table[type].length # length THEN None
    ELSE table[type].value

\* FlagSet<AddressFlag>: bits beyond its twelve flags are dropped.
FlagsOf(bits) == bits \cap 0 .. 11

\* RT_SCOPE_...
FromRtnlScope(scope) ==
    CASE scope = 200 -> "Site"
      [] scope = 253 -> "Link"
      [] scope = 254 -> "Host"
      [] scope = 255 -> "Nowhere"
      [] OTHER       -> "Global"

-----------------------------------------------------------------------------
(* parseAddressMessage.                                                    *)

\* The ip address: IFA_LOCAL if that is IPv4, and IFA_ADDRESS if that is IPv6.
AddressIp == IF Get("IFA_ADDRESS", 16) # None THEN Get("IFA_ADDRESS", 16)
             ELSE IF Get("IFA_LOCAL", 4) # None THEN Get("IFA_LOCAL", 4)
                                                ELSE AnyAddress

Decode ==
    /\ left = {} /\ decoded = None
    /\ decoded' =
        [ip        |-> AddressIp,
         broadcast |-> Get("IFA_BROADCAST", 4),
         scope     |-> FromRtnlScope(given.scope),
         flags     |-> FlagsOf(IF Get("IFA_FLAGS", 4) # None
                               THEN Get("IFA_FLAGS", 4)
                               ELSE given.flags \cap 0 .. 7),
         proto     |-> Get("IFA_PROTO", 1)]
    /\ UNCHANGED <<given, left, table, seen, unknown>>

Next == (\E a \in left : ParseAttribute(a)) \/ Decode

Spec == Init /\ [][Next]_vars

-----------------------------------------------------------------------------

\* An address is decoded as the kernel has it, whatever attributes the message
\* carries in whatever order, with the flags that AddressFlag names.  The
\* exception: an IPv6 address with a peer is decoded as its peer.
DecodedIsGiven ==
    decoded # None =>
        /\ decoded.ip = IF IsV6(given.local) /\ given.peer # None
                        THEN given.peer ELSE given.local
        /\ decoded.broadcast = given.broadcast
        /\ decoded.flags = {b \in given.flags : b < 12}
        /\ decoded.proto = given.proto
        /\ decoded.scope = "Global" <=> given.scope \notin {200, 253, 254, 255}

\* Every attribute of a message is counted once, as seen or as unknown.
EveryAttributeIsCounted ==
    left = {} => seen + unknown = Cardinality(Encoded(given))

\* The predicates of a decoded address are the networks the RFCs define,
\* although they test bytes and masks.
ClassesArePrefixes ==
    decoded # None =>
        LET ip == decoded.ip
        IN  /\ IsMulticast(ip) <=> InMulticast(ip)
            /\ IsUnicastLinkLocal(ip) <=> InLinkLocal(ip)
            /\ IsUniqueLocal(ip) <=> InUniqueLocal(ip)
            /\ IsLoopback(ip) <=> InLoopback(ip)

\* A decoded address belongs to one class at most.
ClassesAreDisjoint ==
    decoded # None =>
        \A c, d \in Class :
            IsOfClass(decoded.ip, c) /\ IsOfClass(decoded.ip, d) => c = d

\* The order a tracker's std::set of addresses relies on: of a decoded address
\* and any other one, exactly one comes first unless they are equal.
OrderIsTotal ==
    decoded # None =>
        \A other \in Ips :
            /\ decoded.ip = other <=> /\ ~Precedes(decoded.ip, other)
                                      /\ ~Precedes(other, decoded.ip)
            /\ ~(Precedes(decoded.ip, other) /\ Precedes(other, decoded.ip))
=============================================================================
