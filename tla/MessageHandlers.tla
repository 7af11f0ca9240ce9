--------------------------- MODULE MessageHandlers ---------------------------
(***************************************************************************)
(* What the link messages of rtnetlink do to the tracker of an interface,  *)
(* as operators on trackers.  A message is a record of the attributes the  *)
(* handlers read; an attribute it does not carry is NoAttr.                *)
(***************************************************************************)
EXTENDS TrackerOps

CONSTANT NoAttr         \* an attribute a message does not carry

ASSUME NoAttrAssumption ==
    NoAttr \notin Names \cup OperationalStates \cup MacAddresses

LinkMessage == [name             : Names \cup {NoAttr},
                linkFlags        : LinkFlagSets,
                operationalState : OperationalStates \cup {NoAttr},
                macAddress       : MacAddresses \cup {NoAttr},
                broadcastAddress : MacAddresses \cup {NoAttr}]

\* No message is being handled.
NoMessage == [name |-> NoAttr, linkFlags |-> NoLinkFlags,
              operationalState |-> NoAttr, macAddress |-> NoAttr,
              broadcastAddress |-> NoAttr]

\* Mutant: only the first name counts.
EnsureNameOnce(t, name) ==
    IF name = NoAttr \/ t.value["Name"] # EmptyName THEN t ELSE SetName(t, name)

\* ensureNameCurrent's part for a tracker: IFLA_IFNAME and IFA_LABEL alike.
EnsureName(t, name) == IF name = NoAttr THEN t ELSE SetName(t, name)

\* The attributes parseLinkMessage applies after ensureNameCurrent.
ApplyLink(t, m) ==
    LET flagged == UpdateLinkFlags(t, m.linkFlags)
        stated  == IF m.operationalState = NoAttr THEN flagged
                   ELSE SetOperationalState(flagged, m.operationalState)
        maced   == IF m.macAddress = NoAttr THEN stated
                   ELSE SetMacAddress(stated, m.macAddress)
    IN  IF m.broadcastAddress = NoAttr THEN maced
        ELSE SetBroadcastAddress(maced, m.broadcastAddress)
=============================================================================
