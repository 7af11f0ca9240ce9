------------------------- MODULE CacheAccuracy_proofs -------------------------
(***************************************************************************)
(* The cache is accurate, for every set of addresses, gateways and names,  *)
(* however many messages are on their way and however long the run is.     *)
(*                                                                         *)
(* The properties are about a queue that is empty.  What is inductive is   *)
(* about any queue: once its messages have been handled, the cache shows   *)
(* what the kernel has now.                                                *)
(***************************************************************************)
EXTENDS CacheAccuracy, TrackerOps_proofs, SequenceTheorems

\* What there can be in the queue.
Messages ==
    [kind : {"newlink"}, link : LinkMessages]
      \cup [kind : {"newaddr", "deladdr"}, address : Address, label : Names \cup {NoAttr}]
      \cup [kind : {"newroute"}, gateway : Gateways]
      \cup [kind : {"delroute", "dellink"}]

\* The kernel's side; and a cache without a tracker has nothing in it.
KernelInv ==
    /\ link \in LinkMessages \cup {Absent}
    /\ link = Absent => addresses = {} /\ routes = {} /\ superseded = {}
    /\ addresses \subseteq Labelled /\ IsFiniteSet(addresses)
    /\ \A a, b \in addresses : a.address.ip = b.address.ip => a = b
    /\ routes # {} => \E a \in addresses : a.address.ip \in IPv4
    /\ queue \in Seq(Messages)
    /\ tracked \in BOOLEAN
    /\ ~tracked => tracker = DefaultTracker

-----------------------------------------------------------------------------
(* What the cache will show.                                               *)

\* The addresses the interface has.
Held == {a.address : a \in addresses}

\* The tracker has the addresses there are and at most outdated ones besides,
\* and a gateway exactly when a route says so, with the known exceptions.
Fits(t) ==
    /\ IsTracker(t)
    /\ Held \subseteq NetworkAddresses(t)
    /\ NetworkAddresses(t) \ Held \subseteq superseded
    /\ t.value["GatewayAddress"] \in Gateways =>
          \/ \E r \in routes : r.gateway = t.value["GatewayAddress"]
          \/ \E a \in superseded : a.ip \in IPv4
          \/ t.value["GatewayAddress"] \in flushed
    /\ routes # {} /\ t.value["GatewayAddress"] \notin Gateways => undone

\* The tracker has the attributes of the link.
ShowsLink(t) ==
    /\ t.value["Name"] \in {link.name} \cup Aliases
    /\ t.value["LinkFlags"] = link.linkFlags
    /\ link.operationalState # NoAttr =>
          t.value["OperationalState"] = link.operationalState

\* The cache as a set of trackers, which has at most one element.
Cached == IF tracked THEN {tracker} ELSE {}

\* w is what a cache must be for the kernel as it is.
Told(w) == /\ w # {} <=> link # Absent
           /\ \A t \in w : Fits(t) /\ ShowsLink(t)

\* What Receive makes of the cache w.
Handled(w, m) ==
    IF m.kind = "dellink" THEN {}
    ELSE {Applied(t, m) : t \in IF m.kind = "newlink" /\ w = {}
                                THEN {DefaultTracker} ELSE w}

\* W[k] is the cache when k messages of q have been handled.
Outcomes(W, q) == /\ W[0] = Cached
                  /\ \A k \in 1 .. Len(q) : W[k] = Handled(W[k - 1], q[k])

\* When all messages on their way have been handled, the cache is accurate.
QueueTells == \A W : Outcomes(W, queue) => Told(W[Len(queue)])

\* The inductive invariant.
IInv == KernelInv /\ QueueTells

-----------------------------------------------------------------------------
(* What the handlers of link and address messages leave in the attributes. *)

\* A name or label, present or not.
LEMMA EnsureNameValues ==
    ASSUME NEW t, IsTracker(t), NEW n \in Names \cup {NoAttr}
    PROVE  OnlySets(t, EnsureName(t, n), "Name",
                    IF n = NoAttr THEN t.value["Name"] ELSE n)
<1>1. CASE n = NoAttr
  BY <1>1 DEF EnsureName, OnlySets
<1>2. CASE n # NoAttr
  BY <1>2, SettersValues DEF EnsureName
<1> QED BY <1>1, <1>2

\* The attributes of a link message, those it does not carry left alone.
LEMMA ApplyLinkValues ==
    ASSUME NEW t, IsTracker(t), NEW m \in LinkMessage
    PROVE  /\ IsTracker(ApplyLink(t, m))
           /\ ApplyLink(t, m).value["LinkFlags"] = m.linkFlags
           /\ m.operationalState # NoAttr =>
                ApplyLink(t, m).value["OperationalState"] = m.operationalState
           /\ \A f \in {"Name", "GatewayAddress", "NetworkAddresses"} :
                ApplyLink(t, m).value[f] = t.value[f]
<1> DEFINE flagged == UpdateLinkFlags(t, m.linkFlags)
           stated  == IF m.operationalState = NoAttr THEN flagged
                      ELSE SetOperationalState(flagged, m.operationalState)
           maced   == IF m.macAddress = NoAttr THEN stated
                      ELSE SetMacAddress(stated, m.macAddress)
           done    == IF m.broadcastAddress = NoAttr THEN maced
                      ELSE SetBroadcastAddress(maced, m.broadcastAddress)
           Kept(u, w, f) == \A g \in ChangedFlag \ {f} : w.value[g] = u.value[g]
<1>1. /\ m.linkFlags \in LinkFlagSets
      /\ m.operationalState \in OperationalStates \cup {NoAttr}
      /\ m.macAddress \in MacAddresses \cup {NoAttr}
      /\ m.broadcastAddress \in MacAddresses \cup {NoAttr}
  BY DEF LinkMessage
<1>2. ApplyLink(t, m) = done
  BY DEF ApplyLink
<1>3. /\ IsTracker(flagged) /\ flagged.value["LinkFlags"] = m.linkFlags
      /\ Kept(t, flagged, "LinkFlags")
  BY <1>1, SettersValues DEF OnlySets
<1> HIDE DEF flagged
<1>4. /\ IsTracker(stated) /\ Kept(flagged, stated, "OperationalState")
      /\ m.operationalState # NoAttr =>
            stated.value["OperationalState"] = m.operationalState
  <2>1. CASE m.operationalState = NoAttr
    BY <1>3, <2>1
  <2>2. CASE m.operationalState # NoAttr
    <3>1. OnlySets(flagged, SetOperationalState(flagged, m.operationalState),
                   "OperationalState", m.operationalState)
      BY <1>1, <1>3, <2>2, SettersValues
    <3> QED BY <2>2, <3>1 DEF OnlySets
  <2> QED BY <2>1, <2>2
<1> HIDE DEF stated
<1>5. IsTracker(maced) /\ Kept(stated, maced, "MacAddress")
  BY <1>1, <1>4, SettersValues DEF OnlySets
<1> HIDE DEF maced
<1>6. IsTracker(done) /\ Kept(maced, done, "BroadcastAddress")
  BY <1>1, <1>5, SettersValues DEF OnlySets
<1> HIDE DEF done
<1>7. \A f \in {"Name", "GatewayAddress", "NetworkAddresses"} :
        /\ flagged.value[f] = t.value[f] /\ stated.value[f] = flagged.value[f]
        /\ maced.value[f] = stated.value[f] /\ done.value[f] = maced.value[f]
  BY <1>3, <1>4, <1>5, <1>6 DEF ChangedFlag
<1>8. /\ stated.value["LinkFlags"] = flagged.value["LinkFlags"]
      /\ maced.value["LinkFlags"] = stated.value["LinkFlags"]
      /\ done.value["LinkFlags"] = maced.value["LinkFlags"]
      /\ maced.value["OperationalState"] = stated.value["OperationalState"]
      /\ done.value["OperationalState"] = maced.value["OperationalState"]
  BY <1>4, <1>5, <1>6 DEF ChangedFlag
<1> QED BY <1>2, <1>3, <1>4, <1>6, <1>7, <1>8

\* The default tracker has no address and no gateway.
LEMMA DefaultShows == /\ IsTracker(DefaultTracker)
                      /\ NetworkAddresses(DefaultTracker) = {}
                      /\ DefaultTracker.value["GatewayAddress"] \notin Gateways
<1>1. /\ DefaultValue["NetworkAddresses"] = {}
      /\ DefaultValue["GatewayAddress"] = NoGateway
  BY DEF DefaultValue, DefaultOf, ChangedFlag
<1> QED BY <1>1, DefaultType, ValueAssumption DEF NetworkAddresses

-----------------------------------------------------------------------------
(* Each change of the kernel, with the message about it: a tracker that is *)
(* what it must be before the change is so again after the message.        *)

\* An address's label is none, one of the aliases or the name of the link.
LEMMA LabelType ==
    ASSUME KernelInv, link # Absent, NEW a \in Labelled
    PROVE  /\ Label(a) \in Names \cup {NoAttr}
           /\ Label(a) \in {NoAttr, link.name} \cup Aliases
<1>1. link \in LinkMessages
  BY DEF KernelInv
<1>2. link.name \in Names
  BY <1>1, AccuracyAssumption DEF LinkMessage
<1>3. a.alias \in Aliases \cup {NoAttr}
  BY DEF Labelled
<1> QED BY <1>2, <1>3, AccuracyAssumption DEF Label

\* A label does no harm to the name that is shown, and to nothing else.
LEMMA LabelFits ==
    ASSUME KernelInv, link # Absent, NEW a \in Labelled,
           NEW t, Fits(t), ShowsLink(t)
    PROVE  /\ Fits(EnsureName(t, Label(a))) /\ ShowsLink(EnsureName(t, Label(a)))
           /\ \A f \in ChangedFlag \ {"Name"} :
                EnsureName(t, Label(a)).value[f] = t.value[f]
<1> DEFINE u == EnsureName(t, Label(a))
           n == IF Label(a) = NoAttr THEN t.value["Name"] ELSE Label(a)
<1>1. IsTracker(t)
  BY DEF Fits
<1>2. OnlySets(t, u, "Name", n)
  BY <1>1, LabelType, EnsureNameValues
<1>3. n \in {link.name} \cup Aliases
  BY LabelType DEF ShowsLink
<1> HIDE DEF u, n
<1>4. /\ IsTracker(u) /\ u.value["Name"] = n
      /\ \A f \in ChangedFlag \ {"Name"} : u.value[f] = t.value[f]
  BY <1>2 DEF OnlySets
<1>5. /\ u.value["GatewayAddress"] = t.value["GatewayAddress"]
      /\ u.value["NetworkAddresses"] = t.value["NetworkAddresses"]
      /\ u.value["LinkFlags"] = t.value["LinkFlags"]
      /\ u.value["OperationalState"] = t.value["OperationalState"]
  BY <1>4 DEF ChangedFlag
<1>6. Fits(u)
  BY <1>4, <1>5 DEF Fits, NetworkAddresses
<1>7. ShowsLink(u)
  BY <1>3, <1>4, <1>5 DEF ShowsLink
<1> QED BY <1>4, <1>6, <1>7 DEF u

\* The gateway of a route that is dropped silently is among those that were.
LEMMA FlushKeeps ==
    ASSUME NEW gone, Flush(gone), NEW g,
           (\E r \in routes : r.gateway = g) \/ g \in flushed
    PROVE  /\ (\E r \in routes' : r.gateway = g) \/ g \in flushed'
           /\ routes' \subseteq routes
BY DEF Flush

\* The interface appears or changes: nothing but the link's attributes does, and
\* the routes if it is set down.
LEMMA LinkChangesFits ==
    ASSUME KernelInv, NEW m \in LinkMessages, LinkChanges(m),
           NEW t, Fits(t),
           NEW u, u = Applied(t, [kind |-> "newlink", link |-> m])
    PROVE  Fits(u)' /\ ShowsLink(u)'
<1> DEFINE s == EnsureName(t, m.name)
<1>1. m \in LinkMessage /\ m.name \in Names /\ m.name # NoAttr
  BY AccuracyAssumption DEF LinkMessage
<1>2. u = ApplyLink(s, m)
  BY DEF Applied
<1>3. OnlySets(t, s, "Name", m.name)
  BY <1>1, EnsureNameValues DEF Fits
<1> HIDE DEF s
<1>4. /\ IsTracker(s) /\ s.value["Name"] = m.name
      /\ s.value["GatewayAddress"] = t.value["GatewayAddress"]
      /\ s.value["NetworkAddresses"] = t.value["NetworkAddresses"]
  BY <1>3 DEF OnlySets, ChangedFlag
<1>5. /\ IsTracker(u)
      /\ u.value["LinkFlags"] = m.linkFlags
      /\ m.operationalState # NoAttr =>
            u.value["OperationalState"] = m.operationalState
      /\ \A f \in {"Name", "GatewayAddress", "NetworkAddresses"} :
            u.value[f] = s.value[f]
  BY <1>1, <1>2, <1>4, ApplyLinkValues
<1>6. /\ UNCHANGED <<addresses, superseded, undone>> /\ link' = m
      /\ Flush(IF m.linkFlags \in DownFlags THEN routes ELSE {})
  BY DEF LinkChanges
<1>7. Fits(u)'
  <2>1. /\ u.value["GatewayAddress"] = t.value["GatewayAddress"]
        /\ NetworkAddresses(u) = NetworkAddresses(t)
    BY <1>4, <1>5 DEF NetworkAddresses
  <2>2. u.value["GatewayAddress"] \in Gateways =>
          \/ \E r \in routes' : r.gateway = u.value["GatewayAddress"]
          \/ \E a \in superseded' : a.ip \in IPv4
          \/ u.value["GatewayAddress"] \in flushed'
    BY <1>6, <2>1, FlushKeeps DEF Fits
  <2>3. routes' # {} /\ u.value["GatewayAddress"] \notin Gateways => undone'
    BY <1>6, <2>1 DEF Fits, Flush
  <2> QED BY <1>5, <1>6, <2>1, <2>2, <2>3 DEF Fits, Held
<1>8. ShowsLink(u)'
  BY <1>4, <1>5, <1>6 DEF ShowsLink
<1> QED BY <1>7, <1>8

\* An address is added, or takes the place of another with the same ip.
LEMMA AddressAddedFits ==
    ASSUME KernelInv, NEW a \in Labelled, AddressAdded(a),
           NEW t, Fits(t), ShowsLink(t),
           NEW u, u = Applied(t, AddressMessage("newaddr", a))
    PROVE  Fits(u)' /\ ShowsLink(u)'
<1> DEFINE s == EnsureName(t, Label(a))
<1>1. u = AddNetworkAddress(s, a.address)
  BY DEF Applied, AddressMessage
<1>2. a.address \in Address
  BY DEF Labelled
<1>3. Fits(s) /\ ShowsLink(s)
  BY LabelFits DEF AddressAdded
<1> HIDE DEF s
<1>4. OnlySets(s, u, "NetworkAddresses", NetworkAddresses(s) \cup {a.address})
  BY <1>1, <1>2, <1>3, AddAddressValues DEF Fits
<1>5. /\ IsTracker(u) /\ NetworkAddresses(u) = NetworkAddresses(s) \cup {a.address}
      /\ u.value["GatewayAddress"] = s.value["GatewayAddress"]
      /\ u.value["LinkFlags"] = s.value["LinkFlags"]
      /\ u.value["OperationalState"] = s.value["OperationalState"]
      /\ u.value["Name"] = s.value["Name"]
  BY <1>4 DEF OnlySets, ChangedFlag, NetworkAddresses
<1>6. /\ UNCHANGED <<link, routes, flushed, undone>>
      /\ addresses' = (addresses \ SameIp(a.address.ip)) \cup {a}
      /\ superseded' = superseded \cup {b.address : b \in SameIp(a.address.ip)}
  BY DEF AddressAdded
<1>7. Held' \subseteq Held \cup {a.address} /\ Held \subseteq Held' \cup superseded'
  BY <1>6 DEF Held
<1>8. Fits(u)'
  <2>1. Held' \subseteq NetworkAddresses(u)
    BY <1>3, <1>5, <1>7 DEF Fits
  <2>2. NetworkAddresses(u) \ Held' \subseteq superseded'
    <3>1. a.address \in Held'
      BY <1>6 DEF Held
    <3>2. NetworkAddresses(s) \subseteq Held \cup superseded
      BY <1>3 DEF Fits
    <3> QED BY <1>5, <1>6, <1>7, <3>1, <3>2
  <2>3. superseded \subseteq superseded'
    BY <1>6
  <2>4. u.value["GatewayAddress"] \in Gateways =>
          \/ \E r \in routes' : r.gateway = u.value["GatewayAddress"]
          \/ \E b \in superseded' : b.ip \in IPv4
          \/ u.value["GatewayAddress"] \in flushed'
    BY <1>3, <1>5, <1>6, <2>3 DEF Fits
  <2>5. routes' # {} /\ u.value["GatewayAddress"] \notin Gateways => undone'
    BY <1>3, <1>5, <1>6 DEF Fits
  <2> QED BY <1>5, <2>1, <2>2, <2>4, <2>5 DEF Fits
<1>9. ShowsLink(u)'
  BY <1>3, <1>5, <1>6 DEF ShowsLink
<1> QED BY <1>8, <1>9

\* An address is removed, and the routes go with the last IPv4 address: the
\* tracker clears its gateway unless an outdated IPv4 address hides that.
LEMMA AddressRemovedFits ==
    ASSUME KernelInv, NEW a \in Labelled, AddressRemoved(a),
           NEW t, Fits(t), ShowsLink(t),
           NEW u, u = Applied(t, AddressMessage("deladdr", a))
    PROVE  Fits(u)' /\ ShowsLink(u)'
<1> DEFINE s == EnsureName(t, Label(a))
           left == NetworkAddresses(s) \ {a.address}
<1>1. u = RemoveNetworkAddress(s, a.address)
  BY DEF Applied, AddressMessage
<1>2. link # Absent /\ a \in addresses /\ a.address \in Held
  BY DEF AddressRemoved, KernelInv, Held
<1>3. Fits(s) /\ ShowsLink(s)
  BY <1>2, LabelFits
<1> HIDE DEF s
<1>4. a.address \in NetworkAddresses(s)
  BY <1>2, <1>3 DEF Fits
<1>5. /\ IsTracker(u) /\ NetworkAddresses(u) = left
      /\ u.value["LinkFlags"] = s.value["LinkFlags"]
      /\ u.value["OperationalState"] = s.value["OperationalState"]
      /\ u.value["Name"] = s.value["Name"]
      /\ HasIPv4(left) => u.value["GatewayAddress"] = s.value["GatewayAddress"]
      /\ ~HasIPv4(left) => u.value["GatewayAddress"] \in {NoGateway, AnyAddress}
  <2>1. IsTracker(s)
    BY <1>3 DEF Fits
  <2>2. /\ IsTracker(u) /\ NetworkAddresses(u) = left
        /\ \A g \in ChangedFlag \ {"NetworkAddresses", "GatewayAddress"} :
              u.value[g] = s.value[g]
        /\ HasIPv4(left) => u.value["GatewayAddress"] = s.value["GatewayAddress"]
        /\ ~HasIPv4(left) => u.value["GatewayAddress"] \in {NoGateway, AnyAddress}
    <3> DEFINE x == a.address
               v == RemoveNetworkAddress(s, x)
    <3>1. x \in NetworkAddresses(s) /\ u = v
      BY <1>1, <1>4
    <3> HIDE DEF x
    <3>2. /\ IsTracker(v) /\ NetworkAddresses(v) = NetworkAddresses(s) \ {x}
          /\ \A g \in ChangedFlag \ {"NetworkAddresses", "GatewayAddress"} :
                v.value[g] = s.value[g]
          /\ HasIPv4(NetworkAddresses(s) \ {x}) =>
                v.value["GatewayAddress"] = s.value["GatewayAddress"]
          /\ ~HasIPv4(NetworkAddresses(s) \ {x}) =>
                v.value["GatewayAddress"] \in {NoGateway, AnyAddress}
      BY <2>1, <3>1, RemoveAddressValues, Zenon
    <3> HIDE DEF v
    <3> QED BY <3>1, <3>2 DEF x
  <2>3. /\ {"LinkFlags", "OperationalState", "Name"}
                \subseteq ChangedFlag \ {"NetworkAddresses", "GatewayAddress"}
    BY DEF ChangedFlag
  <2> QED BY <2>2, <2>3
<1>6. /\ UNCHANGED <<link, superseded, undone>>
      /\ addresses' = addresses \ {a}
      /\ IF \E b \in addresses' : b.address.ip \in IPv4
         THEN Flush({r \in routes : r.source = a.address.ip})
         ELSE routes' = {} /\ flushed' = {}
  BY DEF AddressRemoved
<1>7. Held' = Held \ {a.address}
  <2>1. \A b \in addresses : b.address = a.address => b = a
    BY <1>2 DEF KernelInv
  <2> QED BY <1>2, <1>6, <2>1 DEF Held
<1>8. /\ Held' \subseteq left
      /\ left \ Held' \subseteq superseded'
  BY <1>3, <1>6, <1>7 DEF Fits
<1>9. routes' # {} => HasIPv4(left)
  <2>1. ASSUME NEW b \in addresses', b.address.ip \in IPv4 PROVE HasIPv4(left)
    BY <1>8, <2>1 DEF HasIPv4, Held
  <2> QED BY <1>6, <2>1
<1>10. HasIPv4(left) => \/ Flush({r \in routes : r.source = a.address.ip})
                        \/ \E b \in superseded' : b.ip \in IPv4
  <2>1. ASSUME NEW b \in left, b.ip \in IPv4, b \notin superseded'
        PROVE  Flush({r \in routes : r.source = a.address.ip})
    <3>1. b \in Held'
      BY <1>8, <2>1
    <3>2. PICK c \in addresses' : b = c.address
      BY <3>1 DEF Held
    <3> QED BY <1>6, <2>1, <3>2
  <2> QED BY <2>1 DEF HasIPv4
<1> HIDE DEF left
<1>11. Fits(u)'
  <2>1. u.value["GatewayAddress"] \in Gateways =>
          \/ \E r \in routes' : r.gateway = u.value["GatewayAddress"]
          \/ \E b \in superseded' : b.ip \in IPv4
          \/ u.value["GatewayAddress"] \in flushed'
    <3>1. SUFFICES ASSUME u.value["GatewayAddress"] \in Gateways
                   PROVE  \/ \E r \in routes' : r.gateway = u.value["GatewayAddress"]
                          \/ \E b \in superseded' : b.ip \in IPv4
                          \/ u.value["GatewayAddress"] \in flushed'
      OBVIOUS
    <3>2. HasIPv4(left) /\ u.value["GatewayAddress"] = s.value["GatewayAddress"]
      BY <1>5, <3>1, ValueAssumption
    <3>3. \/ (\E r \in routes : r.gateway = u.value["GatewayAddress"])
             \/ u.value["GatewayAddress"] \in flushed
          \/ \E b \in superseded : b.ip \in IPv4
      BY <1>3, <3>1, <3>2 DEF Fits
    <3>4. superseded' = superseded
      BY <1>6
    <3> QED BY <1>10, <3>2, <3>3, <3>4, FlushKeeps
  <2>2. ASSUME routes' # {}, u.value["GatewayAddress"] \notin Gateways PROVE undone'
    <3>1. u.value["GatewayAddress"] = s.value["GatewayAddress"]
      BY <1>5, <1>9, <2>2
    <3>2. routes # {} /\ undone' = undone
      BY <1>6, <2>2 DEF Flush
    <3> QED BY <1>3, <2>2, <3>1, <3>2 DEF Fits
  <2> QED BY <1>5, <1>8, <2>1, <2>2 DEF Fits
<1>12. ShowsLink(u)'
  BY <1>3, <1>5, <1>6 DEF ShowsLink
<1> QED BY <1>11, <1>12

\* A route is added, and its gateway is the one that is shown.
LEMMA RouteAddedFits ==
    ASSUME KernelInv, NEW r \in Route, RouteAdded(r),
           NEW t, Fits(t), ShowsLink(t),
           NEW u, u = Applied(t, [kind |-> "newroute", gateway |-> r.gateway])
    PROVE  Fits(u)' /\ ShowsLink(u)'
<1>1. u = SetGatewayAddress(t, r.gateway)
  BY DEF Applied
<1>2. r.gateway \in Gateways
  BY DEF Route
<1>3. OnlySets(t, u, "GatewayAddress", r.gateway)
  BY <1>1, <1>2, SettersValues DEF Fits
<1>4. /\ IsTracker(u) /\ u.value["GatewayAddress"] = r.gateway
      /\ NetworkAddresses(u) = NetworkAddresses(t)
      /\ u.value["LinkFlags"] = t.value["LinkFlags"]
      /\ u.value["OperationalState"] = t.value["OperationalState"]
      /\ u.value["Name"] = t.value["Name"]
  BY <1>3 DEF OnlySets, ChangedFlag, NetworkAddresses
<1>5. /\ UNCHANGED <<link, addresses, superseded>>
      /\ r \in routes'
  BY DEF RouteAdded
<1>6. Fits(u)'
  BY <1>2, <1>4, <1>5 DEF Fits, Held
<1>7. ShowsLink(u)'
  BY <1>4, <1>5 DEF ShowsLink
<1> QED BY <1>6, <1>7

\* Some route is deleted, and no gateway is shown.
LEMMA RouteRemovedFits ==
    ASSUME KernelInv, NEW gone, RouteRemoved(gone),
           NEW t, Fits(t), ShowsLink(t),
           NEW u, u = Applied(t, [kind |-> "delroute"])
    PROVE  Fits(u)' /\ ShowsLink(u)'
<1>1. u = ClearGatewayAddress(t)
  BY DEF Applied
<1>2. PICK g \in {NoGateway, AnyAddress} : OnlySets(t, u, "GatewayAddress", g)
  BY <1>1, ClearGatewayValues DEF Fits
<1>3. /\ IsTracker(u) /\ u.value["GatewayAddress"] \notin Gateways
      /\ NetworkAddresses(u) = NetworkAddresses(t)
      /\ u.value["LinkFlags"] = t.value["LinkFlags"]
      /\ u.value["OperationalState"] = t.value["OperationalState"]
      /\ u.value["Name"] = t.value["Name"]
  BY <1>2, ValueAssumption DEF OnlySets, ChangedFlag, NetworkAddresses
<1>4. /\ UNCHANGED <<link, addresses, superseded>>
      /\ undone' = TRUE
  BY DEF RouteRemoved
<1>5. Fits(u)'
  BY <1>3, <1>4 DEF Fits, Held
<1>6. ShowsLink(u)'
  BY <1>3, <1>4 DEF ShowsLink
<1> QED BY <1>5, <1>6

-----------------------------------------------------------------------------
(* From trackers to the cache, and from the cache to the queue.            *)

\* A message about a known interface that is not about the link: if it keeps
\* each tracker what it must be, it does so for the cache.
LEMMA KnownTells ==
    ASSUME link # Absent, link' = link,
           NEW m, m.kind \notin {"newlink", "dellink"},
           \A t : Fits(t) /\ ShowsLink(t)
                    => Fits(Applied(t, m))' /\ ShowsLink(Applied(t, m))'
    PROVE  \A w : Told(w) => Told(Handled(w, m))'
<1> SUFFICES ASSUME NEW w, Told(w) PROVE Told(Handled(w, m))'
  OBVIOUS
<1>1. Handled(w, m) = {Applied(t, m) : t \in w}
  BY DEF Handled
<1>2. w # {} /\ \A t \in w : Fits(t) /\ ShowsLink(t)
  BY DEF Told
<1>3. \E u : u \in Handled(w, m)
  BY <1>1, <1>2
<1>4. ASSUME NEW u \in Handled(w, m) PROVE Fits(u)' /\ ShowsLink(u)'
  <2>1. PICK t \in w : u = Applied(t, m)
    BY <1>1, <1>4
  <2> QED BY <1>2, <2>1
<1>5. Absent' = Absent
  BY DEF Absent, NoMessage
<1> QED BY <1>3, <1>4, <1>5 DEF Told

\* A link message makes the cache know the interface.
LEMMA LinkTells ==
    ASSUME KernelInv, NEW m \in LinkMessages, LinkChanges(m),
           NEW n, n = [kind |-> "newlink", link |-> m]
    PROVE  \A w : Told(w) => Told(Handled(w, n))'
<1> SUFFICES ASSUME NEW w, Told(w) PROVE Told(Handled(w, n))'
  OBVIOUS
<1> DEFINE v == IF w = {} THEN {DefaultTracker} ELSE w
<1>1. Handled(w, n) = {Applied(t, n) : t \in v}
  BY DEF Handled
<1>2. v # {} /\ \A t \in v : Fits(t)
  <2>1. CASE w # {}
    BY <2>1 DEF Told
  <2>2. CASE w = {}
    <3>1. addresses = {} /\ routes = {}
      BY <2>2 DEF Told, KernelInv
    <3>2. Fits(DefaultTracker)
      BY <3>1, DefaultShows DEF Fits, Held
    <3> QED BY <2>2, <3>2
  <2> QED BY <2>1, <2>2
<1> HIDE DEF v
<1>3. \E u : u \in Handled(w, n)
  BY <1>1, <1>2
<1>4. ASSUME NEW u \in Handled(w, n) PROVE Fits(u)' /\ ShowsLink(u)'
  <2>1. PICK t \in v : u = Applied(t, n)
    BY <1>1, <1>4
  <2> QED BY <1>2, <2>1, LinkChangesFits
<1>5. link' # Absent'
  <2>1. m.name # NoAttr /\ link' = m
    BY AccuracyAssumption DEF LinkChanges
  <2> QED BY <2>1 DEF Absent, NoMessage
<1> QED BY <1>3, <1>4, <1>5 DEF Told

\* A message is put in the queue.
LEMMA QueuedTells ==
    ASSUME KernelInv, QueueTells, NEW m \in Messages,
           queue' = queue \o <<m>>, UNCHANGED cache,
           \A w : Told(w) => Told(Handled(w, m))'
    PROVE  queue' \in Seq(Messages) /\ QueueTells'
<1> DEFINE n == Len(queue)
<1>1. /\ queue \in Seq(Messages) /\ n \in Nat
      /\ <<m>> \in Seq(Messages) /\ Len(<<m>>) = 1 /\ <<m>>[1] = m
  BY LenProperties DEF KernelInv
<1>2. /\ queue' \in Seq(Messages) /\ Len(queue') = n + 1
      /\ \A k \in 1 .. n : queue'[k] = queue[k]
      /\ queue'[n + 1] = m
  BY <1>1, ConcatProperties
<1>3. Cached' = Cached
  BY DEF Cached, cache
<1> SUFFICES ASSUME NEW W, Outcomes(W, queue)' PROVE Told(W[Len(queue)])'
  BY <1>2 DEF QueueTells
<1>4. /\ W[0] = Cached
      /\ \A k \in 1 .. n + 1 : W[k] = Handled(W[k - 1], queue'[k])
  BY <1>2, <1>3 DEF Outcomes
<1>5. Outcomes(W, queue)
  BY <1>1, <1>2, <1>4 DEF Outcomes
<1>6. W[n + 1] = Handled(W[n], m)
  BY <1>1, <1>2, <1>4
<1>7. Told(W[n])
  BY <1>5 DEF QueueTells
<1> HIDE DEF n
<1>8. PICK w : w = W[n]
  OBVIOUS
<1>9. PICK u : u = W[Len(queue')]
  OBVIOUS
<1>10. Told(w) /\ u = Handled(w, m)
  BY <1>2, <1>6, <1>7, <1>8, <1>9
<1>11. Told(u)'
  BY <1>10
<1> QED BY <1>9, <1>11

\* A sequence of the elements of a finite set is a sequence.
LEMMA SetToSeqType ==
    ASSUME NEW S, IsFiniteSet(S), NEW T, S \subseteq T
    PROVE  SetToSeq(S) \in Seq(T)
<1> DEFINE n == Cardinality(S)
<1>1. n \in Nat /\ ExistsBijection(1 .. n, S)
  BY FS_CardinalityType
<1>2. \E f \in [1 .. n -> S] : IsInjective(f)
  BY <1>1 DEF ExistsBijection, Bijection, Injection
<1>3. SetToSeq(S) \in [1 .. n -> S]
  BY <1>2 DEF SetToSeq
<1> HIDE DEF n
<1>4. SetToSeq(S) \in Seq(S)
  BY <1>1, <1>3
<1> QED BY <1>4, SeqMonotonic

\* What an address message is.
LEMMA AddressMessageType ==
    ASSUME KernelInv, link # Absent, NEW a \in Labelled,
           NEW op \in {"newaddr", "deladdr"}
    PROVE  /\ AddressMessage(op, a) \in Messages
           /\ AddressMessage(op, a).kind = op
<1>1. a.address \in Address
  BY DEF Labelled
<1> QED BY <1>1, LabelType DEF AddressMessage, Messages

\* The interface goes, and the last message says so.
LEMMA LinkGoesTells ==
    ASSUME KernelInv, LinkGoes
    PROVE  queue' \in Seq(Messages) /\ QueueTells'
<1> DEFINE M == {AddressMessage("deladdr", a) : a \in addresses}
           f == [a \in addresses |-> AddressMessage("deladdr", a)]
           s == SetToSeq(M)
           d == [kind |-> "dellink"]
<1>1. addresses \subseteq Labelled /\ IsFiniteSet(addresses) /\ link # Absent
  BY DEF KernelInv, LinkGoes
<1>2. M \subseteq Messages
  BY <1>1, AddressMessageType
<1>3. IsFiniteSet(M)
  <2>1. f \in Surjection(addresses, M)
    BY DEF Surjection
  <2> HIDE DEF f, M
  <2> QED BY <1>1, <2>1, FS_Surjection
<1>4. queue' = queue \o (s \o <<d>>) /\ link' = Absent
  BY DEF LinkGoes, Change
<1> HIDE DEF M
<1>5. s \in Seq(Messages)
  BY <1>2, <1>3, SetToSeqType
<1> HIDE DEF s
<1>6. d \in Messages
  BY DEF Messages
<1>7. <<d>> \in Seq(Messages) /\ Len(<<d>>) = 1 /\ <<d>>[1] = d
  BY <1>6
<1>8. d.kind = "dellink"
  OBVIOUS
<1> HIDE DEF d
<1>9. /\ s \o <<d>> \in Seq(Messages) /\ Len(s \o <<d>>) = Len(s) + 1
      /\ (s \o <<d>>)[Len(s) + 1] = d /\ Len(s) \in Nat
  BY <1>5, <1>7, ConcatProperties, LenProperties
<1> DEFINE p == s \o <<d>>
<1> HIDE DEF p
<1>10. p \in Seq(Messages) /\ Len(p) \in Nat \ {0} /\ p[Len(p)] = d
  BY <1>9 DEF p
<1>11. queue \in Seq(Messages) /\ Len(queue) \in Nat
  BY LenProperties DEF KernelInv
<1>12. /\ queue' \in Seq(Messages) /\ Len(queue') \in Nat \ {0}
       /\ queue'[Len(queue')] = d
  <2>1. queue' = queue \o p
    BY <1>4 DEF p
  <2>2. /\ queue' \in Seq(Messages) /\ Len(queue') = Len(queue) + Len(p)
        /\ \A i \in 1 .. Len(queue) + Len(p) :
              queue'[i] = IF i <= Len(queue) THEN queue[i] ELSE p[i - Len(queue)]
    BY <2>1, <1>10, <1>11, ConcatProperties
  <2>3. queue'[Len(queue) + Len(p)] = p[Len(queue) + Len(p) - Len(queue)]
    BY <2>2, <1>10, <1>11
  <2> QED BY <2>2, <2>3, <1>10, <1>11
<1> SUFFICES ASSUME NEW W, Outcomes(W, queue)' PROVE Told(W[Len(queue)])'
  BY <1>12 DEF QueueTells
<1>13. W[Len(queue')] = Handled(W[Len(queue') - 1], d)
  BY <1>12 DEF Outcomes
<1>14. W[Len(queue')] = {}
  BY <1>8, <1>13 DEF Handled
<1>15. Told({})'
  BY <1>4 DEF Told, Absent, NoMessage
<1> QED BY <1>14, <1>15

-----------------------------------------------------------------------------
(* The steps.                                                              *)

\* Every message a change announces is one of Messages, and the queue keeps
\* telling what there is.
LEMMA ChangesTell ==
    ASSUME IInv
    PROVE  /\ \A m \in LinkMessages : LinkChanges(m)
                => queue' \in Seq(Messages) /\ QueueTells'
           /\ LinkGoes => queue' \in Seq(Messages) /\ QueueTells'
           /\ \A a \in Labelled : AddressAdded(a) \/ AddressRemoved(a)
                => queue' \in Seq(Messages) /\ QueueTells'
           /\ \A r \in Route : RouteAdded(r)
                => queue' \in Seq(Messages) /\ QueueTells'
           /\ \A gone : RouteRemoved(gone)
                => queue' \in Seq(Messages) /\ QueueTells'
<1>1. KernelInv /\ QueueTells
  BY DEF IInv
<1>2. ASSUME NEW m \in LinkMessages, LinkChanges(m)
      PROVE  queue' \in Seq(Messages) /\ QueueTells'
  <2> DEFINE n == [kind |-> "newlink", link |-> m]
  <2>1. n \in Messages
    BY DEF Messages
  <2>2. queue' = queue \o <<n>> /\ UNCHANGED cache
    BY <1>2 DEF LinkChanges, Change
  <2> HIDE DEF n
  <2>3. \A w : Told(w) => Told(Handled(w, n))'
    BY <1>1, <1>2, LinkTells DEF n
  <2> QED BY <1>1, <2>1, <2>2, <2>3, QueuedTells
<1>3. ASSUME LinkGoes PROVE queue' \in Seq(Messages) /\ QueueTells'
  BY <1>1, <1>3, LinkGoesTells
<1>4. ASSUME NEW a \in Labelled, AddressAdded(a)
      PROVE  queue' \in Seq(Messages) /\ QueueTells'
  <2>1. PICK n : n = AddressMessage("newaddr", a)
    OBVIOUS
  <2>2. link # Absent /\ link' = link
    BY <1>4 DEF AddressAdded
  <2>3. n \in Messages /\ n.kind = "newaddr"
    BY <1>1, <2>1, <2>2, AddressMessageType
  <2>4. queue' = queue \o <<n>> /\ UNCHANGED cache
    BY <1>4, <2>1 DEF AddressAdded, Change
  <2>5. ASSUME NEW t, Fits(t) /\ ShowsLink(t)
        PROVE  Fits(Applied(t, n))' /\ ShowsLink(Applied(t, n))'
    <3>1. PICK u : u = Applied(t, n)
      OBVIOUS
    <3>2. Fits(u)' /\ ShowsLink(u)'
      BY <1>1, <1>4, <2>1, <2>5, <3>1, AddressAddedFits
    <3> QED BY <3>1, <3>2
  <2>6. \A w : Told(w) => Told(Handled(w, n))'
    BY <2>2, <2>3, <2>5, KnownTells
  <2> QED BY <1>1, <2>3, <2>4, <2>6, QueuedTells
<1>5. ASSUME NEW a \in Labelled, AddressRemoved(a)
      PROVE  queue' \in Seq(Messages) /\ QueueTells'
  <2>1. PICK n : n = AddressMessage("deladdr", a)
    OBVIOUS
  <2>2. link # Absent /\ link' = link
    BY <1>1, <1>5 DEF AddressRemoved, KernelInv
  <2>3. n \in Messages /\ n.kind = "deladdr"
    BY <1>1, <2>1, <2>2, AddressMessageType
  <2>4. queue' = queue \o <<n>> /\ UNCHANGED cache
    BY <1>5, <2>1 DEF AddressRemoved, Change
  <2>5. ASSUME NEW t, Fits(t) /\ ShowsLink(t)
        PROVE  Fits(Applied(t, n))' /\ ShowsLink(Applied(t, n))'
    <3>1. PICK u : u = Applied(t, n)
      OBVIOUS
    <3>2. Fits(u)' /\ ShowsLink(u)'
      BY <1>1, <1>5, <2>1, <2>5, <3>1, AddressRemovedFits
    <3> QED BY <3>1, <3>2
  <2>6. \A w : Told(w) => Told(Handled(w, n))'
    BY <2>2, <2>3, <2>5, KnownTells
  <2> QED BY <1>1, <2>3, <2>4, <2>6, QueuedTells
<1>6. ASSUME NEW r \in Route, RouteAdded(r)
      PROVE  queue' \in Seq(Messages) /\ QueueTells'
  <2>1. PICK n : n = [kind |-> "newroute", gateway |-> r.gateway]
    OBVIOUS
  <2>2. link # Absent /\ link' = link
    BY <1>1, <1>6 DEF RouteAdded, KernelInv
  <2>3. n \in Messages /\ n.kind = "newroute"
    BY <2>1 DEF Messages, Route
  <2>4. queue' = queue \o <<n>> /\ UNCHANGED cache
    BY <1>6, <2>1 DEF RouteAdded, Change
  <2>5. ASSUME NEW t, Fits(t) /\ ShowsLink(t)
        PROVE  Fits(Applied(t, n))' /\ ShowsLink(Applied(t, n))'
    <3>1. PICK u : u = Applied(t, n)
      OBVIOUS
    <3>2. Fits(u)' /\ ShowsLink(u)'
      BY <1>1, <1>6, <2>1, <2>5, <3>1, RouteAddedFits
    <3> QED BY <3>1, <3>2
  <2>6. \A w : Told(w) => Told(Handled(w, n))'
    BY <2>2, <2>3, <2>5, KnownTells
  <2> QED BY <1>1, <2>3, <2>4, <2>6, QueuedTells
<1>7. ASSUME NEW gone, RouteRemoved(gone)
      PROVE  queue' \in Seq(Messages) /\ QueueTells'
  <2>1. PICK n : n = [kind |-> "delroute"]
    OBVIOUS
  <2>2. link # Absent /\ link' = link
    BY <1>7 DEF RouteRemoved
  <2>3. n \in Messages /\ n.kind = "delroute"
    BY <2>1 DEF Messages
  <2>4. queue' = queue \o <<n>> /\ UNCHANGED cache
    BY <1>7, <2>1 DEF RouteRemoved, Change
  <2>5. ASSUME NEW t, Fits(t) /\ ShowsLink(t)
        PROVE  Fits(Applied(t, n))' /\ ShowsLink(Applied(t, n))'
    <3>1. PICK u : u = Applied(t, n)
      OBVIOUS
    <3>2. Fits(u)' /\ ShowsLink(u)'
      BY <1>1, <1>7, <2>1, <2>5, <3>1, RouteRemovedFits
    <3> QED BY <3>1, <3>2
  <2>6. \A w : Told(w) => Told(Handled(w, n))'
    BY <2>2, <2>3, <2>5, KnownTells
  <2> QED BY <1>1, <2>3, <2>4, <2>6, QueuedTells
<1> QED BY <1>2, <1>3, <1>4, <1>5, <1>6, <1>7

\* The monitor handles the next message: what the others will make of the cache
\* is what all of them were going to make of it.
LEMMA ReceiveTells ==
    ASSUME IInv, Receive
    PROVE  IInv'
<1> DEFINE m == Head(queue)
           n == Len(queue)
<1>1. /\ queue \in Seq(Messages) /\ queue # <<>>
      /\ queue' = Tail(queue) /\ UNCHANGED kernel
  BY DEF IInv, KernelInv, Receive
<1>2. /\ n \in Nat \ {0} /\ m = queue[1]
      /\ queue' \in Seq(Messages) /\ Len(queue') = n - 1
      /\ \A i \in 1 .. n - 1 : queue'[i] = queue[i + 1]
  BY <1>1, EmptySeq, HeadTailProperties
<1>3. IF m.kind = "dellink"
      THEN tracked' = FALSE /\ tracker' = DefaultTracker
      ELSE /\ tracked' = (tracked \/ m.kind = "newlink")
           /\ tracker' = IF tracked' THEN Applied(tracker, m) ELSE tracker
  BY DEF Receive
<1>4. tracked \in BOOLEAN /\ (~tracked => tracker = DefaultTracker)
  BY DEF IInv, KernelInv
<1> HIDE DEF m, n
<1>5. tracked' \in BOOLEAN /\ (~tracked' => tracker' = DefaultTracker)
  BY <1>3, <1>4
<1>6. Cached' = Handled(Cached, m)
  <2>1. CASE m.kind = "dellink"
    BY <1>3, <2>1 DEF Cached, Handled
  <2>2. CASE m.kind = "newlink"
    BY <1>3, <1>4, <2>2 DEF Cached, Handled
  <2>3. CASE m.kind \notin {"dellink", "newlink"}
    BY <1>3, <1>4, <2>3 DEF Cached, Handled
  <2> QED BY <2>1, <2>2, <2>3
<1>7. KernelInv'
  BY <1>1, <1>2, <1>5 DEF IInv, KernelInv, kernel
<1>8. QueueTells'
  <2> SUFFICES ASSUME NEW W, Outcomes(W, queue)' PROVE Told(W[Len(queue)])'
    BY DEF QueueTells
  <2> DEFINE V == [k \in 0 .. n |-> IF k = 0 THEN Cached ELSE W[k - 1]]
  <2>1. W[0] = Cached' /\ \A k \in 1 .. n - 1 : W[k] = Handled(W[k - 1], queue'[k])
    BY <1>2 DEF Outcomes
  <2>2. V[0] = Cached
    BY <1>2
  <2>3. ASSUME NEW k \in 1 .. n PROVE V[k] = Handled(V[k - 1], queue[k])
    <3>1. CASE k = 1
      BY <1>2, <1>6, <2>1, <3>1
    <3>2. CASE k # 1
      <4>1. k - 1 \in 1 .. n - 1 /\ queue'[k - 1] = queue[k]
        BY <1>2, <3>2
      <4>2. W[k - 1] = Handled(W[k - 2], queue[k])
        BY <1>2, <2>1, <4>1
      <4>3. V[k] = W[k - 1] /\ V[k - 1] = W[k - 2]
        BY <1>2, <3>2
      <4> QED BY <4>2, <4>3
    <3> QED BY <3>1, <3>2
  <2>4. V[n] = W[n - 1]
    BY <1>2
  <2> HIDE DEF V
  <2>5. Outcomes(V, queue)
    BY <2>2, <2>3 DEF Outcomes, n
  <2>6. Told(V[n])
    BY <2>5 DEF IInv, QueueTells, n
  <2>7. PICK u : u = W[n - 1]
    OBVIOUS
  <2>8. Told(u)'
    BY <1>1, <2>4, <2>6, <2>7 DEF Told, Fits, ShowsLink, Held, kernel, Absent, NoMessage
  <2> QED BY <1>2, <2>7, <2>8
<1> QED BY <1>7, <1>8 DEF IInv

\* Initially nothing is there and nothing is on its way.
LEMMA InitTells == ASSUME Init PROVE IInv
<1>1. KernelInv
  BY FS_EmptySet, EmptySeq DEF Init, KernelInv
<1>2. QueueTells
  <2> SUFFICES ASSUME NEW W, Outcomes(W, queue) PROVE Told(W[Len(queue)])
    BY DEF QueueTells
  <2>1. Len(queue) = 0 /\ W[0] = {}
    BY EmptySeq DEF Init, Outcomes, Cached
  <2>2. Told({})
    BY DEF Told, Init
  <2> QED BY <2>1, <2>2
<1> QED BY <1>1, <1>2 DEF IInv

\* The kernel's changes keep its side in shape: addresses stay one for each ip
\* and labelled, and there are no routes without an IPv4 address.
LEMMA KernelStep ==
    ASSUME IInv, Next, ~Receive
    PROVE  KernelInv'
<1>1. KernelInv /\ QueueTells
  BY DEF IInv
<1>2. ASSUME UNCHANGED cache
      PROVE  tracked' \in BOOLEAN /\ (~tracked' => tracker' = DefaultTracker)
  BY <1>1, <1>2 DEF KernelInv, cache
<1>3. ASSUME NEW m \in LinkMessages, LinkChanges(m) PROVE KernelInv'
  <2>1. queue' \in Seq(Messages)
    BY <1>3, ChangesTell
  <2>2. m # Absent
    BY AccuracyAssumption DEF Absent, NoMessage
  <2>3. /\ link' = m /\ addresses' = addresses /\ routes' \subseteq routes
        /\ UNCHANGED cache
    BY <1>3 DEF LinkChanges, Change, Flush
  <2>4. Absent' = Absent
    BY DEF Absent, NoMessage
  <2>5. routes' # {} => \E a \in addresses' : a.address.ip \in IPv4
    BY <1>1, <2>3 DEF KernelInv
  <2> QED BY <1>1, <1>2, <2>1, <2>2, <2>3, <2>4, <2>5 DEF KernelInv
<1>4. ASSUME LinkGoes PROVE KernelInv'
  <2>1. queue' \in Seq(Messages)
    BY <1>4, ChangesTell
  <2> QED BY <1>2, <1>4, <2>1, FS_EmptySet DEF LinkGoes, Change, KernelInv, Absent, NoMessage
<1>5. ASSUME NEW a \in Labelled, AddressAdded(a) PROVE KernelInv'
  <2>1. queue' \in Seq(Messages)
    BY <1>5, ChangesTell
  <2>2. /\ link # Absent /\ UNCHANGED <<link, routes>> /\ UNCHANGED cache
        /\ addresses' = (addresses \ SameIp(a.address.ip)) \cup {a}
    BY <1>5 DEF AddressAdded, Change
  <2>3. addresses' \subseteq Labelled /\ IsFiniteSet(addresses')
    <3>1. IsFiniteSet(addresses \ SameIp(a.address.ip))
      BY <1>1, FS_Difference DEF KernelInv
    <3> QED BY <1>1, <2>2, <3>1, FS_AddElement DEF KernelInv
  <2>4. \A b, c \in addresses' : b.address.ip = c.address.ip => b = c
    BY <1>1, <2>2 DEF KernelInv, SameIp
  <2>5. routes' # {} => \E b \in addresses' : b.address.ip \in IPv4
    BY <1>1, <2>2 DEF KernelInv, SameIp
  <2> QED BY <1>1, <1>2, <2>1, <2>2, <2>3, <2>4, <2>5 DEF KernelInv, Absent, NoMessage
<1>6. ASSUME NEW a \in Labelled, AddressRemoved(a) PROVE KernelInv'
  <2>1. queue' \in Seq(Messages)
    BY <1>6, ChangesTell
  <2>2. link # Absent
    BY <1>1, <1>6 DEF KernelInv, AddressRemoved
  <2>3. IsFiniteSet(addresses')
    BY <1>1, <1>6, FS_RemoveElement DEF KernelInv, AddressRemoved
  <2> QED BY <1>1, <1>2, <1>6, <2>1, <2>2, <2>3
          DEF AddressRemoved, Change, KernelInv, Absent, NoMessage
<1>7. ASSUME NEW r \in Route, RouteAdded(r) PROVE KernelInv'
  <2>1. queue' \in Seq(Messages)
    BY <1>7, ChangesTell
  <2>2. link # Absent
    BY <1>1, <1>7 DEF KernelInv, RouteAdded
  <2> QED BY <1>1, <1>2, <1>7, <2>1, <2>2
          DEF RouteAdded, Change, KernelInv, Absent, NoMessage
<1>8. ASSUME NEW gone \in SUBSET routes, RouteRemoved(gone) PROVE KernelInv'
  <2>1. queue' \in Seq(Messages)
    BY <1>8, ChangesTell
  <2> QED BY <1>1, <1>2, <1>8, <2>1
          DEF RouteRemoved, Change, KernelInv, Absent, NoMessage
<1> QED BY <1>3, <1>4, <1>5, <1>6, <1>7, <1>8 DEF Next

\* Every step keeps the invariant.
LEMMA StepTells == ASSUME IInv, [Next]_vars PROVE IInv'
<1>1. CASE Receive
  BY <1>1, ReceiveTells
<1>2. CASE Next /\ ~Receive
  <2>1. QueueTells'
    BY <1>2, ChangesTell DEF Next
  <2> QED BY <1>2, <2>1, KernelStep DEF IInv
<1>3. CASE UNCHANGED vars
  BY <1>3 DEF IInv, KernelInv, QueueTells, Outcomes, Cached, Told, Fits, ShowsLink, Held,
              Absent, NoMessage, vars
<1> QED BY <1>1, <1>2, <1>3

\* The invariant of the kernel, the queue and the cache.
LEMMA Tells == Spec => []IInv
BY InitTells, StepTells, PTL DEF Spec

-----------------------------------------------------------------------------
(* What the runs check, for every instance.                                *)

\* With an empty queue the cache itself is the outcome.
LEMMA NothingOnItsWay ==
    ASSUME IInv, queue = <<>>
    PROVE  /\ tracked <=> link # Absent
           /\ link # Absent => Fits(tracker) /\ ShowsLink(tracker)
<1> DEFINE W == [k \in {0} |-> Cached]
<1>1. Len(queue) = 0
  BY EmptySeq
<1>2. W[0] = Cached
  OBVIOUS
<1> HIDE DEF W
<1>3. Outcomes(W, queue)
  BY <1>1, <1>2 DEF Outcomes
<1>4. Told(Cached)
  BY <1>1, <1>2, <1>3 DEF IInv, QueueTells
<1>5. tracked \in BOOLEAN
  BY DEF IInv, KernelInv
<1> QED BY <1>4, <1>5 DEF Told, Cached

\* The cache has a tracker for the interface exactly when it exists, with every
\* address of it: no handler discards what it should have kept.
THEOREM CacheMissesNothing == Spec => []NothingIsMissing
<1>1. IInv => NothingIsMissing
  <2> SUFFICES ASSUME IInv, queue = <<>>
               PROVE  /\ tracked <=> link # Absent
                      /\ {a.address : a \in addresses} \subseteq Shown("NetworkAddresses")
    BY DEF NothingIsMissing
  <2>1. CASE link # Absent
    BY <2>1, NothingOnItsWay DEF Fits, Held, NetworkAddresses, Shown
  <2>2. CASE link = Absent
    <3>1. addresses = {}
      BY <2>2 DEF IInv, KernelInv
    <3> QED BY <3>1, NothingOnItsWay
  <2> QED BY <2>1, <2>2
<1> QED BY <1>1, Tells, PTL

\* An address that is shown and gone is one that was updated in place, whatever
\* updates, removals and additions of the same ip come in which order.
THEOREM OldFormsLinger == Spec => []OnlySupersededLinger
<1>1. IInv => OnlySupersededLinger
  BY NothingOnItsWay DEF OnlySupersededLinger, Settled, Lingering, Fits, Held,
                         NetworkAddresses, Shown
<1> QED BY <1>1, Tells, PTL

\* A gateway that is shown is one of some route, unless an IPv4 address was
\* updated in place or the gateway's route was flushed while others were left:
\* the silent loss of the routes is noticed by the last removal.
THEOREM GatewayIsOfRoute == Spec => []ShownGatewayIsRoute
<1>1. IInv => ShownGatewayIsRoute
  BY NothingOnItsWay DEF ShownGatewayIsRoute, Settled, Fits, Shown
<1> QED BY <1>1, Tells, PTL

\* Routes without a shown gateway mean that one of them has been deleted.
THEOREM GatewayOnlyMissesDeleted == Spec => []GatewayMissesOnlyAfterDeletion
<1>1. IInv => GatewayMissesOnlyAfterDeletion
  BY NothingOnItsWay DEF GatewayMissesOnlyAfterDeletion, Settled, Fits, Shown
<1> QED BY <1>1, Tells, PTL

\* No former name is shown, and the link's flags and state are the last ones.
THEOREM LinkIsShown == Spec => []LinkIsCurrent
<1>1. IInv => LinkIsCurrent
  BY NothingOnItsWay DEF LinkIsCurrent, Settled, ShowsLink, Shown
<1> QED BY <1>1, Tells, PTL
=============================================================================
