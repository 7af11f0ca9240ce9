---------------------------- MODULE CacheAccuracy ----------------------------
(***************************************************************************)
(* How accurate the cached picture of one interface is: the kernel changes *)
(* the interface and tells the monitor in a queue of messages, the monitor *)
(* applies them one by one.  The messages carry less than what happened:   *)
(* an address is updated in place by announcing its new form, routes go    *)
(* silently with their source address, with the last IPv4 address and when *)
(* the link is set down, a deleted route does not say which one is left,   *)
(* and a label looks like a name.                                          *)
(*                                                                         *)
(* Nothing is lost or reordered here, and the enumeration is over          *)
(* (DumpProtocol is about both).  The kernel is external.                  *)
(***************************************************************************)
EXTENDS MessageHandlers, Sequences, SequencesExt

CONSTANTS
    LinkMessages,   \* the interface's link attributes there can be
    DownFlags,      \* values of LinkFlags without IFF_UP
    Aliases,        \* labels of addresses that are not the interface's name
    QueueBound,     \* messages that can be on their way
    MaxChanges      \* bound on the changes of the interface in a run

ASSUME AccuracyAssumption ==
    /\ LinkMessages \subseteq LinkMessage
    /\ DownFlags \subseteq LinkFlagSets /\ NoLinkFlags \in DownFlags
    /\ \A m \in LinkMessages : m.name # NoAttr
    /\ Aliases \subseteq Names
    /\ \A m \in LinkMessages : m.name \notin Aliases
    /\ QueueBound \in Nat \ {0} /\ MaxChanges \in Nat

Absent == NoMessage

\* An address with the label the kernel keeps: an alias, or the interface's name.
Labelled == [address : Address, alias : Aliases \cup {NoAttr}]

\* Two routes can have the same gateway.  A route can prefer a source address.
Route == [gateway : Gateways, source : IPv4 \cup {NoAttr}]

VARIABLES
    link,           \* the interface's attributes, or Absent
    addresses,      \* its addresses, one for each ip
    routes,         \* its routes that have a gateway
    superseded,     \* forms of addresses that were updated in place
    flushed,        \* gateways of routes that went silently, while IPv4
                    \* addresses were left, since a route was last spoken of
    undone,         \* RTM_DELROUTE was sent since a route was last added
    queue,          \* messages on their way to the monitor
    changes,        \* changes of the interface so far
    tracked,        \* is there a tracker in m_trackers
    tracker         \* it, or a default one

kernel == <<link, addresses, routes, superseded, flushed, undone, changes>>
cache  == <<tracked, tracker>>
vars   == <<link, addresses, routes, superseded, flushed, undone, queue,
            changes, tracked, tracker>>

Init == /\ link = Absent /\ addresses = {} /\ routes = {}
        /\ superseded = {} /\ flushed = {} /\ undone = FALSE
        /\ queue = <<>> /\ changes = 0
        /\ tracked = FALSE /\ tracker = DefaultTracker

-----------------------------------------------------------------------------
(* The kernel.                                                             *)

\* IFA_LABEL: IPv6 addresses have none.
Label(a) == IF a.address.ip \notin IPv4 THEN NoAttr
            ELSE IF a.alias # NoAttr THEN a.alias ELSE link.name

AddressMessage(op, a) ==
    [kind |-> op, address |-> a.address, label |-> Label(a)]

Change(messages) ==
    /\ changes < MaxChanges /\ changes' = changes + 1
    /\ Len(queue) < QueueBound /\ queue' = queue \o messages
    /\ UNCHANGED cache

\* Linux drops IPv4 routes without an RTM_DELROUTE for them.
Flush(gone) == /\ routes' = routes \ gone
               /\ flushed' = flushed \cup {r.gateway : r \in gone}

\* The interface appears, is renamed or changes its state.  The routes go when
\* it is set down, the IPv4 addresses stay.
LinkChanges(m) ==
    /\ link # m /\ link' = m
    /\ Flush(IF m.linkFlags \in DownFlags THEN routes ELSE {})
    /\ Change(<<[kind |-> "newlink", link |-> m]>>)
    /\ UNCHANGED <<addresses, superseded, undone>>

\* The interface goes, after its addresses; nothing is said of its routes.
LinkGoes ==
    /\ link # Absent /\ link' = Absent
    /\ Change(SetToSeq({AddressMessage("deladdr", a) : a \in addresses})
                \o <<[kind |-> "dellink"]>>)
    /\ addresses' = {} /\ routes' = {}
    /\ superseded' = {} /\ flushed' = {} /\ undone' = FALSE

SameIp(ip) == {b \in addresses : b.address.ip = ip}

\* An address is added, or takes the place of one with the same ip.
AddressAdded(a) ==
    /\ link # Absent
    /\ a.alias # NoAttr => a.address.ip \in IPv4
    /\ a \notin addresses
    /\ addresses' = (addresses \ SameIp(a.address.ip)) \cup {a}
    /\ superseded' = superseded \cup {b.address : b \in SameIp(a.address.ip)}
    /\ Change(<<AddressMessage("newaddr", a)>>)
    /\ UNCHANGED <<link, routes, flushed, undone>>

\* The routes go with the last IPv4 address, and before it those that prefer the
\* address as their source; nothing is said of either.
AddressRemoved(a) ==
    /\ a \in addresses /\ addresses' = addresses \ {a}
    /\ IF \E b \in addresses' : b.address.ip \in IPv4
       THEN Flush({r \in routes : r.source = a.address.ip})
       ELSE routes' = {} /\ flushed' = {}
    /\ Change(<<AddressMessage("deladdr", a)>>)
    /\ UNCHANGED <<link, superseded, undone>>

\* Only on a link that is up.
RouteAdded(r) ==
    /\ link # Absent /\ link.linkFlags \notin DownFlags
    /\ \E a \in addresses : a.address.ip \in IPv4
    /\ r.source # NoAttr => SameIp(r.source) # {}
    /\ r \notin routes /\ routes' = routes \cup {r}
    /\ flushed' = {} /\ undone' = FALSE
    /\ Change(<<[kind |-> "newroute", gateway |-> r.gateway]>>)
    /\ UNCHANGED <<link, addresses, superseded>>

\* A route with a gateway is deleted, or some routes go because the link is
\* down: RTNH_F_LINKDOWN says so in the message of any one of the link's routes.
RouteRemoved(gone) ==
    /\ link # Absent
    /\ routes' = routes \ gone /\ flushed' = {} /\ undone' = TRUE
    /\ Change(<<[kind |-> "delroute"]>>)
    /\ UNCHANGED <<link, addresses, superseded>>

-----------------------------------------------------------------------------
(* The monitor.                                                            *)

\* Mutant: an address whose ip is held already is not added.
AppliedOncePerIp(t, m) ==
    CASE m.kind = "newlink"  -> ApplyLink(EnsureName(t, m.link.name), m.link)
      [] m.kind = "newaddr"  ->
            IF \E a \in NetworkAddresses(t) : a.ip = m.address.ip
            THEN EnsureName(t, m.label)
            ELSE AddNetworkAddress(EnsureName(t, m.label), m.address)
      [] m.kind = "deladdr"  -> RemoveNetworkAddress(EnsureName(t, m.label), m.address)
      [] m.kind = "newroute" -> SetGatewayAddress(t, m.gateway)
      [] m.kind = "delroute" -> ClearGatewayAddress(t)

\* A message about an interface that is in the cache, except RTM_DELLINK.
Applied(t, m) ==
    CASE m.kind = "newlink"  -> ApplyLink(EnsureName(t, m.link.name), m.link)
      [] m.kind = "newaddr"  -> AddNetworkAddress(EnsureName(t, m.label), m.address)
      [] m.kind = "deladdr"  -> RemoveNetworkAddress(EnsureName(t, m.label), m.address)
      [] m.kind = "newroute" -> SetGatewayAddress(t, m.gateway)
      [] m.kind = "delroute" -> ClearGatewayAddress(t)

\* mnlMessageCallback, for the next message.
Receive ==
    /\ queue # <<>> /\ queue' = Tail(queue)
    /\ LET m == Head(queue)
       IN  IF m.kind = "dellink"
           THEN tracked' = FALSE /\ tracker' = DefaultTracker
           ELSE /\ tracked' = (tracked \/ m.kind = "newlink")
                /\ tracker' = IF tracked' THEN Applied(tracker, m) ELSE tracker
    /\ UNCHANGED kernel

Next == \/ \E m \in LinkMessages : LinkChanges(m)
        \/ LinkGoes
        \/ \E a \in Labelled : AddressAdded(a) \/ AddressRemoved(a)
        \/ \E r \in Route : RouteAdded(r)
        \/ \E gone \in SUBSET routes : RouteRemoved(gone)
        \/ Receive

Spec == Init /\ [][Next]_vars

-----------------------------------------------------------------------------

Shown(f) == tracker.value[f]

\* The monitor has heard of everything, and the interface is there.
Settled == queue = <<>> /\ link # Absent

Lingering == Shown("NetworkAddresses") \ {a.address : a \in addresses}

\* The cache has a tracker for the interface when it exists, and every address
\* of it (the handlers discard messages of interfaces they do not know).
NothingIsMissing ==
    queue = <<>> =>
        /\ tracked <=> link # Absent
        /\ {a.address : a \in addresses} \subseteq Shown("NetworkAddresses")

\* An address the interface does not have is shown only in a form that the
\* kernel has updated in place: addNetworkAddress keeps both forms, and
\* removeNetworkAddress finds only the one that is spelt out.
OnlySupersededLinger == Settled => Lingering \subseteq superseded

\* A gateway that is shown is one of some route: a gateway that went with the
\* last IPv4 address has been cleared with it, and one whose route was deleted
\* with the route.  There are two exceptions.  A former form of an IPv4 address
\* that was updated in place keeps the last one from being noticed; and a
\* gateway whose route was flushed while IPv4 addresses were left stays until
\* the next message about a route of the interface.
ShownGatewayIsRoute ==
    Settled /\ Shown("GatewayAddress") \in Gateways =>
        \/ \E r \in routes : r.gateway = Shown("GatewayAddress")
        \/ \E a \in superseded : a.ip \in IPv4
        \/ Shown("GatewayAddress") \in flushed

\* There are routes and no gateway is shown only after an RTM_DELROUTE, which
\* clears the gateway whichever route it is about, and on a dead link even if it
\* is about one without a gateway (parseRouteMessage).
GatewayMissesOnlyAfterDeletion ==
    Settled /\ routes # {} /\ Shown("GatewayAddress") \notin Gateways => undone

\* The name that is shown is the current one or a label, never a former name,
\* however renames, label messages and removals interleave; and the rest of the
\* link's attributes is what its last message said.
LinkIsCurrent ==
    Settled => /\ Shown("Name") \in {link.name} \cup Aliases
               /\ Shown("LinkFlags") = link.linkFlags
               /\ link.operationalState # NoAttr
                    => Shown("OperationalState") = link.operationalState
=============================================================================
