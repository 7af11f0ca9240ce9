-------------------- MODULE SubscriberNotification_proofs --------------------
(***************************************************************************)
(* No notification is lost and no subscriber keeps a ghost, for every set  *)
(* of interfaces, subscribers and values, every bound on the messages, and *)
(* whatever the callbacks call.                                            *)
(***************************************************************************)
EXTENDS SubscriberNotification, TrackerOps_proofs

\* A subscriber that is not in the map has been told to forget everything.
AbsentKnowsNothing == \A s \in Clients : subs[s] = {} => client[s] = Uninformed

\* An index without a tracker; a tracker whose interface is being announced has
\* its name and nothing else; one that is being removed is gone.
CacheShape ==
    /\ \A i \in Indices \ tracked : trackers[i] = DefaultTracker
    /\ pc = "added" =>
        /\ cur \in tracked
        /\ trackers[cur].value =
             [DefaultValue EXCEPT !["Name"] = trackers[cur].value["Name"]]
    /\ pc = "removed" => cur \in Indices \ tracked

\* A round has cleared the trackers it has left, and has told the subscribers
\* it has visited everything about the tracker it is at.
RoundShape ==
    /\ pc # "notify" => remaining = {}
    /\ pc = "notify" =>
        /\ \A i \in tracked \ remaining : trackers[i].changed = {}
        /\ \A i \in remaining : (\A j \in remaining : i <= j) =>
              \A s \in Clients \ todo : i \in subs[s] => UpToDate(s, i)

\* The program gets control back only from a round that did not take place.
UserShape == pc = "user" => skipped \/ tracked = {}

\* The inductive invariant: the invariants of the runs and what they rest on.
IInv == /\ TypeOK
        /\ NoLostNotification
        /\ KnownBeforeChanges
        /\ NoGhostInterface
        /\ QuietMeansDelivered
        /\ AbsentKnowsNothing
        /\ CacheShape
        /\ RoundShape
        /\ UserShape

-----------------------------------------------------------------------------
(* The message handlers' operators.                                        *)

\* The message of no announcement is a well formed one.
LEMMA NoMessageType == NoMessage \in LinkMessage
BY ValueAssumption DEF NoMessage, LinkMessage

\* A label or name attribute, present or not.
LEMMA EnsureNameType ==
    ASSUME NEW t, IsTracker(t), NEW n \in Names \cup {NoAttr}
    PROVE  IsTracker(EnsureName(t, n)) /\ Announced(t, EnsureName(t, n))
<1>1. CASE n = NoAttr
  BY <1>1, SameAnnounced DEF EnsureName
<1>2. CASE n # NoAttr
  BY <1>2, SettersType DEF EnsureName
<1> QED BY <1>1, <1>2

\* The other attributes of a link message, each present or not.
LEMMA ApplyLinkType ==
    ASSUME NEW t, IsTracker(t), NEW m \in LinkMessage
    PROVE  IsTracker(ApplyLink(t, m)) /\ Announced(t, ApplyLink(t, m))
<1> DEFINE flagged == UpdateLinkFlags(t, m.linkFlags)
           stated  == IF m.operationalState = NoAttr THEN flagged
                      ELSE SetOperationalState(flagged, m.operationalState)
           maced   == IF m.macAddress = NoAttr THEN stated
                      ELSE SetMacAddress(stated, m.macAddress)
           brd     == IF m.broadcastAddress = NoAttr THEN maced
                      ELSE SetBroadcastAddress(maced, m.broadcastAddress)
<1>1. /\ m.linkFlags \in LinkFlagSets
      /\ m.operationalState # NoAttr => m.operationalState \in OperationalStates
      /\ m.macAddress # NoAttr => m.macAddress \in MacAddresses
      /\ m.broadcastAddress # NoAttr => m.broadcastAddress \in MacAddresses
  BY DEF LinkMessage
<1>2. ApplyLink(t, m) = brd
  BY DEF ApplyLink
<1>3. IsTracker(flagged) /\ Announced(t, flagged)
  BY <1>1, SettersType
<1> HIDE DEF flagged
<1>4. IsTracker(stated) /\ Announced(t, stated)
  <2>1. CASE m.operationalState = NoAttr
    BY <2>1, <1>3
  <2>2. CASE m.operationalState # NoAttr
    BY <2>2, <1>1, <1>3, SettersType, AnnouncedTransitive
  <2> QED BY <2>1, <2>2
<1> HIDE DEF stated
<1>5. IsTracker(maced) /\ Announced(t, maced)
  <2>1. CASE m.macAddress = NoAttr
    BY <2>1, <1>4
  <2>2. CASE m.macAddress # NoAttr
    BY <2>2, <1>1, <1>4, SettersType, AnnouncedTransitive
  <2> QED BY <2>1, <2>2
<1> HIDE DEF maced
<1>6. IsTracker(brd) /\ Announced(t, brd)
  <2>1. CASE m.broadcastAddress = NoAttr
    BY <2>1, <1>5
  <2>2. CASE m.broadcastAddress # NoAttr
    BY <2>2, <1>1, <1>5, SettersType, AnnouncedTransitive
  <2> QED BY <2>1, <2>2
<1> QED BY <1>2, <1>6

\* A tracker that has just been created has at most a name.
LEMMA NamedDefault ==
    ASSUME NEW n \in Names \cup {NoAttr}
    PROVE  LET t == EnsureName(DefaultTracker, n)
           IN  t.value = [DefaultValue EXCEPT !["Name"] = t.value["Name"]]
<1> DEFINE t == EnsureName(DefaultTracker, n)
<1>1. "Name" \in ChangedFlag /\ "nameChanges" \in Counter
  BY DEF ChangedFlag, Counter
<1>2. DefaultValue = [f \in ChangedFlag |-> DefaultValue[f]]
  BY DefaultType DEF IsValue
<1>3. CASE t = DefaultTracker
  BY <1>1, <1>2, <1>3, DefaultType
<1>4. CASE t # DefaultTracker
  <2>1. t = Assign(DefaultTracker, "Name", n, "nameChanges") /\ n # NoAttr
    BY <1>4 DEF EnsureName, SetName, Set
  <2>2. n \in ValuesOf("Name")
    BY <2>1 DEF ValuesOf
  <2>3. t.value = [DefaultValue EXCEPT !["Name"] = n]
    <3>1. IsTracker(DefaultTracker) /\ DefaultTracker.value = DefaultValue
      BY DefaultType
    <3>2. Assign(DefaultTracker, "Name", n, "nameChanges").value =
            [DefaultTracker.value EXCEPT !["Name"] = n]
      BY <3>1, <2>2, <1>1, AssignType
    <3> QED BY <3>1, <3>2, <2>1
  <2> QED BY <2>3, <1>1, <1>2
<1> QED BY <1>3, <1>4

-----------------------------------------------------------------------------
(* What callbacks do to what a client knows.                               *)

\* A client that has been told nothing is well formed.
LEMMA UninformedType == IsClient(Uninformed)
BY DefaultType DEF IsClient, Uninformed

\* After onInterfaceAdded the client knows the interface by its name only.
LEMMA AddedType ==
    ASSUME NEW c, IsClient(c), NEW i \in Indices, NEW name \in Names
    PROVE  /\ IsClient(Added(c, i, name))
           /\ Added(c, i, name).known = c.known \cup {i}
           /\ Added(c, i, name).view[i] = [DefaultValue EXCEPT !["Name"] = name]
           /\ \A j \in Indices \ {i} : Added(c, i, name).view[j] = c.view[j]
<1> DEFINE v == [DefaultValue EXCEPT !["Name"] = name]
<1>1. IsValue(v)
  BY DefaultType DEF IsValue, ValuesOf, ChangedFlag
<1>2. Added(c, i, name) = [known |-> c.known \cup {i}, view |-> [c.view EXCEPT ![i] = v]]
  BY DEF Added
<1>3. Added(c, i, name).view[i] = v
  BY <1>2 DEF IsClient
<1> HIDE DEF v
<1>4. /\ IsClient(Added(c, i, name))
      /\ Added(c, i, name).known = c.known \cup {i}
      /\ \A j \in Indices \ {i} : Added(c, i, name).view[j] = c.view[j]
  BY <1>1, <1>2 DEF IsClient
<1> QED BY <1>3, <1>4 DEF v

\* After onInterfaceRemoved the client has forgotten that interface, no other.
LEMMA RemovedType ==
    ASSUME NEW c, IsClient(c), NEW i \in Indices
    PROVE  /\ IsClient(Removed(c, i))
           /\ Removed(c, i).known = c.known \ {i}
           /\ \A j \in Indices \ {i} : Removed(c, i).view[j] = c.view[j]
BY DefaultType DEF Removed, IsClient

\* After notifyChanges(s, i, tracker) an announced client is up to date.
LEMMA ToldType ==
    ASSUME NEW c, IsClient(c), NEW i \in Indices, NEW t, IsTracker(t)
    PROVE  /\ IsClient(Told(c, i, t))
           /\ Told(c, i, t).known = c.known
           /\ \A j \in Indices \ {i} : Told(c, i, t).view[j] = c.view[j]
           /\ (\A f \in ChangedFlag \ t.changed : c.view[i][f] = t.value[f])
                => Told(c, i, t).view[i] = t.value
<1> DEFINE v == [f \in ChangedFlag |-> IF f \in t.changed THEN t.value[f]
                                       ELSE c.view[i][f]]
<1>1. IsValue(v)
  BY DEF IsClient, IsTracker, IsValue
<1>2. Told(c, i, t) = [known |-> c.known, view |-> [c.view EXCEPT ![i] = v]]
  BY DEF Told, IsClient
<1>3. ASSUME \A f \in ChangedFlag \ t.changed : c.view[i][f] = t.value[f]
      PROVE  v = t.value
  BY <1>3 DEF IsTracker, IsValue
<1> HIDE DEF v
<1> QED BY <1>1, <1>2, <1>3 DEF IsClient

\* A subscription leaves its subscriber up to date about what is in the cache.
LEMMA InformedType ==
    ASSUME TypeOK, NEW c, IsClient(c), NEW intfs \in SUBSET Indices
    PROVE  /\ IsClient(Informed(c, intfs))
           /\ Informed(c, intfs).known = c.known \cup (intfs \cap tracked)
           /\ \A i \in intfs \cap tracked :
                Informed(c, intfs).view[i] = trackers[i].value
           /\ \A i \in Indices \ (intfs \cap tracked) :
                Informed(c, intfs).view[i] = c.view[i]
<1>1. \A i \in Indices : IsValue(trackers[i].value) /\ IsValue(c.view[i])
  BY DEF TypeOK, IsTracker, IsClient
<1> QED BY <1>1 DEF Informed, IsClient, TypeOK

-----------------------------------------------------------------------------
(* What a call of the API, from a callback or not, does to the clients.    *)

\* Every client is as before, has been erased, or has been subscribed anew.
Hears ==
    \A s \in Clients :
        \/ subs'[s] = subs[s] /\ client'[s] = client[s]
        \/ subs'[s] = {} /\ client'[s] = Uninformed
        \/ /\ subs'[s] \in (SUBSET Indices) \ {{}}
           /\ client'[s] = Informed(client[s], subs'[s])

\* subscribe, updateSubscription and unsubscribe concern one subscriber.
LEMMA EnrollShape ==
    ASSUME TypeOK, NEW s \in Subscribers, NEW intfs \in SUBSET Indices, Enroll(s, intfs)
    PROVE  /\ Hears
           /\ subs' \in [Subscribers -> SUBSET Indices]
           /\ client' = [c \in Subscribers |-> client'[c]]
           /\ \A c \in Subscribers : IsClient(client'[c])
           /\ subs'[s] = intfs /\ \A c \in Subscribers \ {s} : subs'[c] = subs[c]
<1> DEFINE told == IF s = Null THEN client[s] ELSE Resubscribed(client[s], intfs)
<1>1. subs' = [subs EXCEPT ![s] = intfs] /\ client' = [client EXCEPT ![s] = told]
  <2>1. client = [client EXCEPT ![s] = client[s]]
    BY DEF TypeOK
  <2> QED BY <2>1 DEF Enroll
<1>2. IsClient(client[s])
  BY DEF TypeOK
<1>3. IsClient(told)
  BY <1>2, InformedType, UninformedType DEF Resubscribed
<1>4. s # Null => told = IF intfs = {} THEN Uninformed ELSE Informed(client[s], intfs)
  BY DEF Resubscribed
<1> HIDE DEF told
<1>5. /\ client'[s] = told
      /\ \A c \in Subscribers \ {s} : client'[c] = client[c]
      /\ client' = [c \in Subscribers |-> client'[c]]
      /\ subs'[s] = intfs
      /\ \A c \in Subscribers \ {s} : subs'[c] = subs[c]
      /\ subs' \in [Subscribers -> SUBSET Indices]
  BY <1>1 DEF TypeOK
<1>6. \A c \in Subscribers : IsClient(client'[c])
  BY <1>3, <1>5 DEF TypeOK
<1>7. Hears
  BY <1>4, <1>5 DEF Hears, Clients
<1> QED BY <1>5, <1>6, <1>7

\* A pair of a client and an interface it is subscribed to after the call.
LEMMA HearsPair ==
    ASSUME TypeOK, Hears, NEW s \in Clients, NEW i \in subs'[s] \cap tracked
    PROVE  \/ i \in subs[s] /\ client'[s] = client[s]
           \/ /\ i \in client'[s].known
              /\ client'[s].view[i] = trackers[i].value
<1>1. CASE subs'[s] = subs[s] /\ client'[s] = client[s]
  BY <1>1
<1>2. CASE subs'[s] = {} /\ client'[s] = Uninformed
  BY <1>2
<1>3. CASE /\ subs'[s] \in (SUBSET Indices) \ {{}}
           /\ client'[s] = Informed(client[s], subs'[s])
  <2> DEFINE intfs == subs'[s]
  <2>1. intfs \in SUBSET Indices /\ i \in intfs \cap tracked /\ IsClient(client[s])
    BY <1>3 DEF TypeOK, Clients
  <2> HIDE DEF intfs
  <2>2. /\ i \in Informed(client[s], intfs).known
        /\ Informed(client[s], intfs).view[i] = trackers[i].value
    BY <2>1, InformedType
  <2> QED BY <2>2, <1>3 DEF intfs
<1> QED BY <1>1, <1>2, <1>3 DEF Hears

\* No call makes a client know an interface that is not in the cache.
LEMMA HearsGhost ==
    ASSUME TypeOK, Hears, NEW s \in Clients
    PROVE  /\ client'[s].known \ tracked \subseteq client[s].known
           /\ subs'[s] = {} => \/ client'[s] = Uninformed
                               \/ subs[s] = {} /\ client'[s] = client[s]
<1>1. CASE subs'[s] = subs[s] /\ client'[s] = client[s]
  BY <1>1
<1>2. CASE subs'[s] = {} /\ client'[s] = Uninformed
  BY <1>2 DEF Uninformed
<1>3. CASE /\ subs'[s] \in (SUBSET Indices) \ {{}}
           /\ client'[s] = Informed(client[s], subs'[s])
  <2> DEFINE intfs == subs'[s]
  <2>1. intfs \in SUBSET Indices /\ intfs # {} /\ IsClient(client[s])
    BY <1>3 DEF TypeOK, Clients
  <2> HIDE DEF intfs
  <2>2. Informed(client[s], intfs).known = client[s].known \cup (intfs \cap tracked)
    BY <2>1, InformedType
  <2> QED BY <2>1, <2>2, <1>3 DEF intfs
<1> QED BY <1>1, <1>2, <1>3 DEF Hears

-----------------------------------------------------------------------------
(* One lemma per action, or per kind of action.                            *)

\* A call of the API, outside of the monitor or from a callback: the loop forgets
\* nobody who is still in the map.
LEMMA HearsKeeps ==
    ASSUME IInv, Hears, pc = "user" \/ called # {},
           UNCHANGED <<tracked, trackers, phase, caller, pc, cur, pend, remaining,
                       called, skipped, messages>>,
           subs' \in [Subscribers -> SUBSET Indices],
           client' = [c \in Subscribers |-> client'[c]],
           \A c \in Subscribers : IsClient(client'[c]),
           todo' \subseteq Present', todo' = todo \/ called # {},
           \A c \in todo \ todo' : subs'[c] = {},
           fault' \in {fault, "iterator"}
    PROVE  IInv'
<1>1. TypeOK'
  BY DEF IInv, TypeOK
<1>2. TypeOK
  BY DEF IInv
<1>3. ASSUME NEW s \in Clients, NEW i \in subs'[s] \cap tracked
      PROVE  Unannounced(s, i)' \/ (i \in client'[s].known /\ Fresh(client'[s], i))
  <2>1. CASE i \in subs[s] /\ client'[s] = client[s]
    <3>1. s \in todo => s \in todo'
      BY <1>3
    <3> QED BY <1>3, <2>1, <3>1 DEF IInv, NoLostNotification, KnownBeforeChanges, Unannounced
  <2>2. CASE i \in client'[s].known /\ client'[s].view[i] = trackers[i].value
    BY <2>2 DEF Fresh
  <2> QED BY <1>2, <1>3, <2>1, <2>2, HearsPair
<1>4. NoLostNotification' /\ KnownBeforeChanges'
  BY <1>3 DEF NoLostNotification, KnownBeforeChanges, Fresh
<1>5. ASSUME NEW s \in Clients, NEW i \in client'[s].known \ tracked
      PROVE  pc = "removed" /\ i = cur /\ s \in todo'
  <2>1. i \in client[s].known
    BY <1>2, <1>5, HearsGhost
  <2>2. pc = "removed" /\ i = cur /\ s \in todo
    BY <1>5, <2>1 DEF IInv, NoGhostInterface
  <2>3. subs[s] # {} /\ client'[s] # Uninformed
    BY <1>2, <1>5, <2>2 DEF TypeOK, Present, Uninformed
  <2>4. subs'[s] # {}
    BY <1>2, <2>3, HearsGhost
  <2> QED BY <2>2, <2>4
<1>6. NoGhostInterface'
  BY <1>5 DEF NoGhostInterface
<1>7. AbsentKnowsNothing'
  BY <1>2, HearsGhost DEF IInv, AbsentKnowsNothing
<1>8. QuietMeansDelivered' /\ CacheShape' /\ UserShape'
  BY <1>2 DEF IInv, TypeOK, QuietMeansDelivered, CacheShape, UserShape
<1>9. RoundShape'
  <2>1. ASSUME pc = "notify", NEW i \in remaining, \A j \in remaining : i <= j,
               NEW s \in Clients \ todo', i \in subs'[s]
        PROVE  client'[s].view[i] = trackers[i].value
    <3>1. s \notin todo /\ i \in tracked
      BY <1>2, <2>1 DEF TypeOK
    <3>2. \/ i \in subs[s] /\ client'[s] = client[s]
          \/ client'[s].view[i] = trackers[i].value
      BY <1>2, <2>1, <3>1, HearsPair
    <3> QED BY <2>1, <3>1, <3>2 DEF IInv, RoundShape, UpToDate
  <2> QED BY <2>1 DEF IInv, RoundShape, UpToDate
<1> QED BY <1>1, <1>4, <1>6, <1>7, <1>8, <1>9 DEF IInv

\* The three calls.
LEMMA ApiKeeps ==
    ASSUME IInv, NEW s \in Subscribers, NEW intfs \in SUBSET Indices,
           Subscribe(s, intfs) \/ UpdateSubscription(s, intfs) \/ Unsubscribe(s)
    PROVE  IInv'
<1>1. TypeOK
  BY DEF IInv
<1>2. ASSUME NEW set \in SUBSET Indices, Enroll(s, set),
             todo' \subseteq Present', todo' = todo \/ called # {},
             \A c \in todo \ todo' : subs'[c] = {}, fault' \in {fault, "iterator"}
      PROVE  IInv'
  <2>1. UNCHANGED <<tracked, trackers, phase, caller, pc, cur, pend, remaining,
                    called, skipped, messages>> /\ (pc = "user" \/ called # {})
    BY <1>2 DEF Enroll, cache, loop
  <2> QED BY <1>1, <1>2, <2>1, EnrollShape, HearsKeeps
<1>3. CASE Subscribe(s, intfs)
  <2>1. Enroll(s, intfs) /\ intfs # {} /\ fault' \in {fault, "iterator"}
    BY <1>3 DEF Subscribe
  <2>2. Present' = Present \cup {s}
    BY <1>1, <2>1, EnrollShape DEF Present
  <2> QED BY <1>1, <1>2, <1>3, <2>1, <2>2 DEF Subscribe, TypeOK
<1>4. CASE UpdateSubscription(s, intfs)
  <2>1. Enroll(s, intfs) /\ intfs # {} /\ UNCHANGED <<todo, fault>>
    BY <1>4 DEF UpdateSubscription
  <2>2. Present' = Present \cup {s}
    BY <1>1, <2>1, EnrollShape DEF Present
  <2> QED BY <1>1, <1>2, <2>1, <2>2 DEF TypeOK
<1>5. CASE Unsubscribe(s)
  <2>1. /\ Enroll(s, {}) /\ todo' = todo \ {s} /\ fault' \in {fault, "iterator"}
        /\ pc = "user" \/ called # {}
    BY <1>5 DEF Unsubscribe, Enroll
  <2>2. Present' = Present \ {s} /\ subs'[s] = {}
    BY <1>1, <2>1, EnrollShape DEF Present
  <2>3. todo' = todo \/ called # {}
    BY <1>1, <2>1 DEF TypeOK
  <2> QED BY <1>1, <1>2, <2>1, <2>2, <2>3 DEF TypeOK
<1> QED BY <1>3, <1>4, <1>5

\* enumerateInterfaces and run: there is something to tell only if the last
\* round did not take place.
LEMMA EnterKeeps ==
    ASSUME IInv, EnumerateInterfaces \/ Run
    PROVE  IInv'
<1>1. /\ pc = "user" /\ pc' = "idle" /\ caller' \in {"none", "enumerate", "run"}
      /\ UNCHANGED <<tracked, trackers, subs, client, phase, cur, pend, remaining,
                     todo, called, skipped, fault, messages>>
  BY DEF EnumerateInterfaces, Run, Enter, cache, loop
<1>2. TypeOK'
  BY <1>1 DEF IInv, TypeOK, Present
<1>3. NoLostNotification' /\ KnownBeforeChanges'
  BY <1>1 DEF IInv, NoLostNotification, KnownBeforeChanges, Unannounced, Fresh
<1>4. NoGhostInterface' /\ AbsentKnowsNothing' /\ CacheShape'
  BY <1>1 DEF IInv, NoGhostInterface, AbsentKnowsNothing, CacheShape
<1>5. QuietMeansDelivered' /\ RoundShape' /\ UserShape'
  BY <1>1 DEF IInv, UserShape, QuietMeansDelivered, RoundShape
<1> QED BY <1>2, <1>3, <1>4, <1>5 DEF IInv

\* Steps that change neither the cache nor what anybody has been told.
LEMMA IdleKeeps ==
    ASSUME IInv, ReceiveDatagram \/ EndWithRetry \/ EndEnumeration \/ FinishDelLink
    PROVE  IInv'
<1>1. /\ UNCHANGED <<tracked, trackers, subs, client, pend, remaining, todo,
                     fault, messages>>
      /\ cur' \in {cur, 0} /\ phase' \in {phase, "waiting"}
      /\ caller' \in {caller, "none"}
      /\ pc' \in {"dispatch", "idle", "user"}
      /\ skipped' \in {skipped, TRUE}
      /\ pc' # "dispatch" => skipped' = TRUE
      /\ pc \in {"dispatch", "idle", "removed"} /\ todo = {}
      /\ called' \in {called, {}} /\ (pc # "removed" => called = {})
      /\ (pc = "removed" => called' = {})
  BY DEF ReceiveDatagram, EndWithRetry, EndEnumeration, FinishDelLink, AtEnd,
         cache, loop, IInv, TypeOK
<1>2. TypeOK'
  BY <1>1 DEF IInv, TypeOK, Present
<1>3. NoLostNotification' /\ KnownBeforeChanges'
  BY <1>1 DEF IInv, NoLostNotification, KnownBeforeChanges, Unannounced, Fresh
<1>4. NoGhostInterface' /\ AbsentKnowsNothing' /\ CacheShape'
  BY <1>1 DEF IInv, NoGhostInterface, AbsentKnowsNothing, CacheShape
<1>5. QuietMeansDelivered' /\ RoundShape' /\ UserShape'
  BY <1>1 DEF IInv, UserShape, QuietMeansDelivered, RoundShape
<1> QED BY <1>2, <1>3, <1>4, <1>5 DEF IInv

\* A step that changes nothing the invariant speaks of.
LEMMA StutterKeeps ==
    ASSUME IInv, fault' \in {fault, "null", "iterator"}, messages' = messages,
           UNCHANGED <<tracked, trackers, subs, client, phase, caller, pc, cur,
                       pend, remaining, todo, called, skipped>>
    PROVE  IInv'
<1>1. TypeOK'
  BY DEF IInv, TypeOK, Present
<1>2. NoLostNotification' /\ KnownBeforeChanges'
  BY DEF IInv, NoLostNotification, KnownBeforeChanges, Unannounced, Fresh
<1>3. NoGhostInterface' /\ AbsentKnowsNothing' /\ CacheShape'
  BY DEF IInv, NoGhostInterface, AbsentKnowsNothing, CacheShape
<1>4. QuietMeansDelivered' /\ RoundShape' /\ UserShape'
  BY DEF IInv, UserShape, QuietMeansDelivered, RoundShape, UpToDate
<1> QED BY <1>1, <1>2, <1>3, <1>4 DEF IInv

\* A tracker changes and its flags say so: handlers outside of a loop.
LEMMA TrackKeeps ==
    ASSUME IInv, NEW i \in tracked, NEW t, IsTracker(t), Announced(trackers[i], t),
           trackers' = [trackers EXCEPT ![i] = t], pc' = "dispatch",
           pc = "dispatch" \/ pc = "added", todo = {}, called' = {},
           cur' \in {cur, 0}, pend' \in {pend, NoMessage}, messages' \in 0 .. MaxMessages,
           UNCHANGED <<tracked, subs, client, phase, caller, remaining, todo,
                       skipped, fault>>
    PROVE  IInv'
<1>1. /\ i \in Indices
      /\ trackers'[i] = t
      /\ \A j \in Indices \ {i} : trackers'[j] = trackers[j]
      /\ trackers' = [k \in Indices |-> trackers'[k]]
  BY DEF IInv, TypeOK
<1>2. TypeOK'
  BY <1>1 DEF IInv, TypeOK, Present
<1>3. ASSUME NEW c, NEW j \in Indices, Fresh(c, j)
      PROVE  Fresh(c, j)'
  BY <1>1, <1>3 DEF Fresh, Announced
<1>4. tracked \subseteq Indices
  BY DEF IInv, TypeOK
<1>5. NoLostNotification'
  BY <1>3, <1>4 DEF IInv, NoLostNotification, Unannounced, Fresh
<1>6. KnownBeforeChanges'
  BY DEF IInv, KnownBeforeChanges, Unannounced
<1>7. NoGhostInterface' /\ AbsentKnowsNothing'
  BY DEF IInv, NoGhostInterface, AbsentKnowsNothing
<1>8. CacheShape' /\ QuietMeansDelivered' /\ RoundShape' /\ UserShape'
  BY <1>1 DEF IInv, CacheShape, QuietMeansDelivered, RoundShape, UserShape
<1> QED BY <1>2, <1>5, <1>6, <1>7, <1>8 DEF IInv

\* The handlers that only change a tracker.
LEMMA HandlersKeep ==
    ASSUME IInv, NEW i \in Indices,
           \/ \E m \in LinkMessages : KnownLink(i, m)
           \/ \E a \in Address, l \in Labels : NewAddress(i, a, l) \/ DelAddress(i, a, l)
           \/ \E g \in Gateways : NewRoute(i, g)
           \/ DelRoute(i)
    PROVE  IInv'
<1>1. IsTracker(trackers[i])
  BY DEF IInv, TypeOK
<1>2. ASSUME Handle, i \in tracked, NEW t, Track(i, t), IsTracker(t),
             Announced(trackers[i], t)
      PROVE  IInv'
  <2>1. /\ pc = "dispatch" /\ pc' = "dispatch" /\ todo = {}
        /\ messages' \in 0 .. MaxMessages
        /\ trackers' = [trackers EXCEPT ![i] = t]
        /\ called' = {}
        /\ UNCHANGED <<tracked, subs, client, phase, caller, cur, pend, remaining,
                       todo, skipped, fault>>
    BY <1>2, NotificationAssumption DEF Handle, Track, IInv, TypeOK
  <2> QED BY <1>2, <2>1, TrackKeeps
<1>3. ASSUME NEW m \in LinkMessages, KnownLink(i, m) PROVE IInv'
  <2> DEFINE t == EnsureName(trackers[i], m.name)
             u == ApplyLink(t, m)
  <2>1. m \in LinkMessage /\ m.name \in Names \cup {NoAttr}
    BY NotificationAssumption DEF LinkMessage
  <2>2. IsTracker(t) /\ Announced(trackers[i], t)
    BY <1>1, <2>1, EnsureNameType
  <2> HIDE DEF t
  <2>3. IsTracker(u) /\ Announced(trackers[i], u)
    BY <2>1, <2>2, ApplyLinkType, AnnouncedTransitive
  <2>4. Handle /\ i \in tracked /\ Track(i, u)
    BY <1>3 DEF KnownLink, t
  <2> HIDE DEF u
  <2> QED BY <1>2, <2>3, <2>4
<1>4. ASSUME NEW a \in Address, NEW l \in Labels, NewAddress(i, a, l) PROVE IInv'
  <2> DEFINE t == EnsureName(trackers[i], l)
             u == AddNetworkAddress(t, a)
  <2>1. IsTracker(t) /\ Announced(trackers[i], t)
    BY <1>1, NotificationAssumption, EnsureNameType
  <2> HIDE DEF t
  <2>2. IsTracker(u) /\ Announced(trackers[i], u)
    BY <2>1, AddressesType, AnnouncedTransitive
  <2>3. Handle /\ i \in tracked /\ Track(i, u)
    BY <1>4 DEF NewAddress, t
  <2> HIDE DEF u
  <2> QED BY <1>2, <2>2, <2>3
<1>5. ASSUME NEW a \in Address, NEW l \in Labels, DelAddress(i, a, l) PROVE IInv'
  <2> DEFINE t == EnsureName(trackers[i], l)
             u == RemoveNetworkAddress(t, a)
  <2>1. IsTracker(t) /\ Announced(trackers[i], t)
    BY <1>1, NotificationAssumption, EnsureNameType
  <2> HIDE DEF t
  <2>2. IsTracker(u) /\ Announced(trackers[i], u)
    BY <2>1, AddressesType, AnnouncedTransitive
  <2>3. Handle /\ i \in tracked /\ Track(i, u)
    BY <1>5 DEF DelAddress, t
  <2> HIDE DEF u
  <2> QED BY <1>2, <2>2, <2>3
<1>6. ASSUME NEW g \in Gateways, NewRoute(i, g) PROVE IInv'
  BY <1>1, <1>2, <1>6, SettersType DEF NewRoute
<1>7. CASE DelRoute(i)
  BY <1>1, <1>2, <1>7, ClearGatewayType DEF DelRoute
<1> QED BY <1>3, <1>4, <1>5, <1>6, <1>7

\* Back in parseLinkMessage after the announcement.
LEMMA FinishLinkKeeps == ASSUME IInv, FinishLink PROVE IInv'
<1> DEFINE t == ApplyLink(trackers[cur], pend)
<1>1. cur \in tracked /\ IsTracker(trackers[cur]) /\ pend \in LinkMessage
  BY NoMessageType, NotificationAssumption DEF FinishLink, IInv, TypeOK, CacheShape
<1>2. IsTracker(t) /\ Announced(trackers[cur], t)
  BY <1>1, ApplyLinkType
<1>3. /\ pc = "added" /\ pc' = "dispatch" /\ todo = {} /\ messages' \in 0 .. MaxMessages
      /\ trackers' = [trackers EXCEPT ![cur] = t]
      /\ cur' = 0 /\ pend' = NoMessage /\ called' = {}
      /\ UNCHANGED <<tracked, subs, client, phase, caller, remaining, todo, skipped,
                     fault>>
  BY DEF FinishLink, IInv, TypeOK
<1> HIDE DEF t
<1> QED BY <1>1, <1>2, <1>3, TrackKeeps

\* A new interface: everybody in the map is going to hear of it.
LEMMA NewLinkKeeps ==
    ASSUME IInv, NEW i \in Indices, NEW m \in LinkMessages, NewLink(i, m)
    PROVE  IInv'
<1> DEFINE t == EnsureName(DefaultTracker, m.name)
<1>1. m.name \in Names \cup {NoAttr}
  BY NotificationAssumption DEF LinkMessage
<1>2. IsTracker(t) /\ t.value = [DefaultValue EXCEPT !["Name"] = t.value["Name"]]
  BY <1>1, DefaultType, EnsureNameType, NamedDefault
<1>3. /\ pc = "dispatch" /\ pc' = "added" /\ i \notin tracked
      /\ tracked' = tracked \cup {i} /\ cur' = i /\ pend' = m
      /\ todo' = Present /\ messages' \in 0 .. MaxMessages
      /\ called = {} /\ UNCHANGED <<subs, client, phase, caller, remaining, called,
                                    skipped, fault>>
  BY NotificationAssumption DEF NewLink, Handle, IInv, TypeOK
<1>4. trackers[i] = DefaultTracker
  BY <1>3 DEF IInv, CacheShape
<1>5. trackers' = [trackers EXCEPT ![i] = t]
  BY <1>4 DEF NewLink
<1> HIDE DEF t
<1>6. /\ trackers'[i] = t
      /\ \A j \in Indices \ {i} : trackers'[j] = trackers[j]
      /\ trackers' = [j \in Indices |-> trackers'[j]]
  BY <1>5 DEF IInv, TypeOK
<1>7. TypeOK'
  BY <1>2, <1>3, <1>6 DEF IInv, TypeOK, Present
<1>8. ASSUME NEW s \in Clients, NEW j \in subs[s] \cap tracked', j # i
      PROVE  j \in client[s].known /\ Fresh(client[s], j)'
  <2>1. j \in subs[s] \cap tracked /\ j \in Indices
    BY <1>3, <1>8 DEF IInv, TypeOK
  <2>2. j \in client[s].known /\ Fresh(client[s], j)
    BY <1>3, <2>1 DEF IInv, NoLostNotification, KnownBeforeChanges, Unannounced
  <2> QED BY <1>3, <1>6, <1>8, <2>1, <2>2 DEF Fresh
<1>9. ASSUME NEW s \in Clients, i \in subs[s]
      PROVE  Unannounced(s, i)'
  BY <1>3, <1>9 DEF Unannounced, Present, Clients
<1>10. NoLostNotification' /\ KnownBeforeChanges'
  BY <1>3, <1>8, <1>9 DEF NoLostNotification, KnownBeforeChanges, Fresh
<1>11. NoGhostInterface' /\ AbsentKnowsNothing'
  BY <1>3 DEF IInv, NoGhostInterface, AbsentKnowsNothing
<1>12. CacheShape'
  BY <1>2, <1>3, <1>6 DEF IInv, CacheShape
<1>13. QuietMeansDelivered' /\ RoundShape' /\ UserShape'
  BY <1>3 DEF IInv, QuietMeansDelivered, RoundShape, UserShape
<1> QED BY <1>7, <1>10, <1>11, <1>12, <1>13 DEF IInv

\* A removed interface: everybody who knows it is in the map.
LEMMA DelLinkKeeps ==
    ASSUME IInv, NEW i \in Indices, DelLink(i)
    PROVE  IInv'
<1>1. /\ pc = "dispatch" /\ pc' = "removed" /\ tracked' = tracked \ {i} /\ cur' = i
      /\ todo' = Present /\ messages' \in 0 .. MaxMessages
      /\ UNCHANGED <<subs, client, phase, caller, pend, remaining, called, skipped,
                     fault>>
      /\ remaining = {} /\ called = {}
  BY NotificationAssumption DEF DelLink, Handle, IInv, TypeOK, RoundShape
<1>2. /\ trackers'[i] = DefaultTracker
      /\ \A j \in Indices \ {i} : trackers'[j] = trackers[j]
      /\ trackers' = [j \in Indices |-> trackers'[j]]
  BY DEF DelLink, IInv, TypeOK
<1>3. TypeOK'
  BY <1>1, <1>2, DefaultType DEF IInv, TypeOK, Present
<1>4. ASSUME NEW s \in Clients, NEW j \in subs[s] \cap tracked'
      PROVE  j \in client[s].known /\ Fresh(client[s], j)'
  <2>1. j \in subs[s] \cap tracked /\ j \in Indices \ {i}
    BY <1>1, <1>4 DEF IInv, TypeOK
  <2>2. j \in client[s].known /\ Fresh(client[s], j)
    BY <1>1, <2>1 DEF IInv, NoLostNotification, KnownBeforeChanges, Unannounced
  <2> QED BY <1>1, <1>2, <2>1, <2>2 DEF Fresh
<1>5. NoLostNotification' /\ KnownBeforeChanges'
  BY <1>1, <1>4 DEF NoLostNotification, KnownBeforeChanges, Fresh
<1>6. ASSUME NEW s \in Clients, NEW j \in client[s].known \ tracked'
      PROVE  j = i /\ s \in Present
  <2>1. j = i
    BY <1>1 DEF IInv, NoGhostInterface
  <2>2. client[s] # Uninformed
    BY DEF Uninformed
  <2> QED BY <2>1, <2>2 DEF IInv, AbsentKnowsNothing, Present, Clients
<1>7. NoGhostInterface' /\ AbsentKnowsNothing'
  BY <1>1, <1>6 DEF IInv, NoGhostInterface, AbsentKnowsNothing
<1>8. CacheShape'
  BY <1>1, <1>2 DEF IInv, CacheShape
<1>9. QuietMeansDelivered' /\ RoundShape' /\ UserShape'
  BY <1>1 DEF IInv, QuietMeansDelivered, RoundShape, UserShape
<1> QED BY <1>3, <1>5, <1>7, <1>8, <1>9 DEF IInv

-----------------------------------------------------------------------------
(* The callbacks.                                                          *)

\* What the three loops have in common.  A callback that leaves s knowing
\* `told` keeps the types, and nobody who left the map remembers anything.
LEMMA LoopShape ==
    ASSUME IInv, InLoop, pc \in {"added", "removed", "notify"},
           NEW s \in todo, s # Null, NEW told, IsClient(told), Callback(s, told)
    PROVE  /\ TypeOK' /\ AbsentKnowsNothing' /\ CacheShape'
           /\ QuietMeansDelivered' /\ UserShape'
           /\ UNCHANGED <<tracked, trackers, subs, pc, cur, remaining>>
           /\ todo' = todo \ {s}
           /\ client'[s] = told
           /\ \A c \in Clients \ {s} : client'[c] = client[c]
           /\ s \in Clients
<1>1. /\ UNCHANGED <<tracked, trackers, subs, phase, caller, pc, cur, pend, remaining,
                     skipped, messages, fault>>
      /\ client' = [client EXCEPT ![s] = told] /\ todo' = todo \ {s} /\ called' = {s}
  BY DEF InLoop, cache, loop, Callback
<1>2. s \in Clients /\ subs[s] # {}
  BY DEF IInv, TypeOK, Present, Clients
<1>3. /\ client' = [c \in Subscribers |-> client'[c]]
      /\ client'[s] = told
      /\ \A c \in Subscribers \ {s} : client'[c] = client[c]
  BY <1>1, <1>2 DEF IInv, TypeOK, Clients
<1>4. \A c \in Subscribers : IsClient(client'[c])
  BY <1>3 DEF IInv, TypeOK
<1>5. TypeOK'
  BY <1>1, <1>2, <1>3, <1>4 DEF IInv, TypeOK, Present
<1>6. AbsentKnowsNothing'
  BY <1>1, <1>2, <1>3 DEF IInv, AbsentKnowsNothing, Clients
<1>7. CacheShape' /\ QuietMeansDelivered' /\ UserShape'
  BY <1>1 DEF IInv, CacheShape, QuietMeansDelivered, UserShape
<1> QED BY <1>1, <1>2, <1>3, <1>5, <1>6, <1>7 DEF Clients

\* onInterfaceAdded
LEMMA CallAddedKeeps ==
    ASSUME IInv, NEW s \in Subscribers, CallAdded(s), s # Null
    PROVE  IInv'
<1> DEFINE name == trackers[cur].value["Name"]
           told == Added(client[s], cur, name)
<1>1. pc = "added" /\ s \in todo /\ Callback(s, told) /\ InLoop
  BY DEF CallAdded
<1>2. /\ TypeOK /\ cur \in tracked /\ cur \in Indices /\ tracked \subseteq Indices
      /\ trackers[cur].value = [DefaultValue EXCEPT !["Name"] = name]
  BY <1>1 DEF IInv, TypeOK, CacheShape
<1>3. name \in Names /\ IsClient(client[s])
  BY <1>2 DEF TypeOK, IsTracker, IsValue, ChangedFlag, ValuesOf
<1>4. /\ IsClient(told)
      /\ told.known = client[s].known \cup {cur}
      /\ told.view[cur] = trackers[cur].value
      /\ \A j \in Indices \ {cur} : told.view[j] = client[s].view[j]
  BY <1>2, <1>3, AddedType
<1> HIDE DEF told, name
<1>5. /\ TypeOK' /\ AbsentKnowsNothing' /\ CacheShape'
      /\ QuietMeansDelivered' /\ UserShape'
      /\ UNCHANGED <<tracked, trackers, subs, pc, cur, remaining>>
      /\ todo' = todo \ {s} /\ client'[s] = told
      /\ \A c \in Clients \ {s} : client'[c] = client[c]
      /\ s \in Clients
  BY <1>1, <1>4, LoopShape
<1>6. ASSUME NEW c \in Clients, NEW j \in subs[c] \cap tracked
      PROVE  Unannounced(c, j)' \/ (j \in client'[c].known /\ Fresh(client'[c], j))
  <2>1. Unannounced(c, j) \/ (j \in client[c].known /\ Fresh(client[c], j))
    BY <1>6 DEF IInv, NoLostNotification, KnownBeforeChanges
  <2>2. CASE c # s
    BY <1>5, <2>1, <2>2 DEF Unannounced
  <2>3. CASE c = s /\ j = cur
    BY <1>4, <1>5, <2>3 DEF Fresh
  <2>4. CASE c = s /\ j # cur
    <3>1. told.view[j] = client[s].view[j]
      BY <1>2, <1>4, <1>6, <2>4
    <3> QED BY <1>4, <1>5, <2>1, <2>4, <3>1 DEF Fresh, Unannounced
  <2> QED BY <2>2, <2>3, <2>4
<1>7. NoLostNotification' /\ KnownBeforeChanges'
  BY <1>5, <1>6 DEF NoLostNotification, KnownBeforeChanges, Fresh
<1>8. NoGhostInterface'
  BY <1>1, <1>2, <1>4, <1>5 DEF IInv, NoGhostInterface
<1>9. RoundShape'
  BY <1>1, <1>5 DEF IInv, RoundShape
<1> QED BY <1>5, <1>7, <1>8, <1>9 DEF IInv

\* onInterfaceRemoved
LEMMA CallRemovedKeeps ==
    ASSUME IInv, NEW s \in Subscribers, CallRemoved(s), s # Null
    PROVE  IInv'
<1> DEFINE told == Removed(client[s], cur)
<1>1. pc = "removed" /\ s \in todo /\ Callback(s, told) /\ InLoop
  BY DEF CallRemoved
<1>2. TypeOK /\ cur \in Indices \ tracked /\ tracked \subseteq Indices /\ IsClient(client[s])
  BY <1>1 DEF IInv, TypeOK, CacheShape
<1>3. /\ IsClient(told)
      /\ told.known = client[s].known \ {cur}
      /\ \A j \in Indices \ {cur} : told.view[j] = client[s].view[j]
  BY <1>2, RemovedType
<1> HIDE DEF told
<1>4. /\ TypeOK' /\ AbsentKnowsNothing' /\ CacheShape'
      /\ QuietMeansDelivered' /\ UserShape'
      /\ UNCHANGED <<tracked, trackers, subs, pc, cur, remaining>>
      /\ todo' = todo \ {s} /\ client'[s] = told
      /\ \A c \in Clients \ {s} : client'[c] = client[c]
      /\ s \in Clients
  BY <1>1, <1>3, LoopShape
<1>5. ASSUME NEW c \in Clients, NEW j \in subs[c] \cap tracked
      PROVE  j \in client'[c].known /\ Fresh(client'[c], j)
  <2>1. j \in client[c].known /\ Fresh(client[c], j) /\ j \in Indices \ {cur}
    BY <1>1, <1>2, <1>5 DEF IInv, NoLostNotification, KnownBeforeChanges, Unannounced
  <2>2. client'[c].view[j] = client[c].view[j] /\ j \in client'[c].known
    BY <1>3, <1>4, <2>1
  <2> QED BY <2>1, <2>2 DEF Fresh
<1>6. NoLostNotification' /\ KnownBeforeChanges'
  BY <1>4, <1>5 DEF NoLostNotification, KnownBeforeChanges, Fresh
<1>7. ASSUME NEW c \in Clients, NEW j \in client'[c].known \ tracked
      PROVE  j = cur /\ c \in todo'
  <2>1. j \in client[c].known
    BY <1>3, <1>4, <1>7
  <2>2. j = cur /\ c \in todo
    BY <1>7, <2>1 DEF IInv, NoGhostInterface
  <2>3. c # s
    BY <1>3, <1>4, <1>7, <2>2
  <2> QED BY <1>4, <2>2, <2>3
<1>8. NoGhostInterface'
  BY <1>1, <1>4, <1>7 DEF NoGhostInterface
<1>9. RoundShape'
  BY <1>1, <1>4 DEF IInv, RoundShape
<1> QED BY <1>4, <1>6, <1>8, <1>9 DEF IInv

\* notifyChanges for one subscriber and one tracker.
LEMMA DeliverKeeps ==
    ASSUME IInv, NEW i \in Indices, NEW s \in Subscribers, Deliver(i, s),
           i \in subs[s] /\ trackers[i].changed # {}, s # Null
    PROVE  IInv'
<1> DEFINE told == Told(client[s], i, trackers[i])
<1>1. /\ pc = "notify" /\ i \in remaining /\ \A j \in remaining : i <= j
      /\ s \in todo /\ Callback(s, told) /\ InLoop
  BY DEF Deliver, At
<1>2. /\ TypeOK /\ i \in tracked /\ tracked \subseteq Indices /\ remaining \subseteq tracked
      /\ IsClient(client[s]) /\ IsTracker(trackers[i])
  BY <1>1 DEF IInv, TypeOK
<1>3. s \in Clients /\ Fresh(client[s], i)
  BY <1>1, <1>2 DEF Clients, IInv, NoLostNotification, Unannounced
<1>4. /\ IsClient(told)
      /\ told.known = client[s].known
      /\ \A j \in Indices \ {i} : told.view[j] = client[s].view[j]
      /\ told.view[i] = trackers[i].value
  BY <1>2, <1>3, ToldType DEF Fresh
<1> HIDE DEF told
<1>5. /\ TypeOK' /\ AbsentKnowsNothing' /\ CacheShape'
      /\ QuietMeansDelivered' /\ UserShape'
      /\ UNCHANGED <<tracked, trackers, subs, pc, cur, remaining>>
      /\ todo' = todo \ {s} /\ client'[s] = told
      /\ \A c \in Clients \ {s} : client'[c] = client[c]
  BY <1>1, <1>4, LoopShape
<1>6. ASSUME NEW c \in Clients, NEW j \in subs[c] \cap tracked
      PROVE  j \in client'[c].known /\ Fresh(client'[c], j)
  <2>1. j \in client[c].known /\ Fresh(client[c], j)
    BY <1>1, <1>6 DEF IInv, NoLostNotification, KnownBeforeChanges, Unannounced
  <2>2. CASE c # s
    BY <1>5, <2>1, <2>2
  <2>3. CASE c = s /\ j = i
    BY <1>4, <1>5, <2>1, <2>3 DEF Fresh
  <2>4. CASE c = s /\ j # i
    BY <1>2, <1>4, <1>5, <1>6, <2>1, <2>4 DEF Fresh
  <2> QED BY <2>2, <2>3, <2>4
<1>7. NoLostNotification' /\ KnownBeforeChanges'
  BY <1>5, <1>6 DEF NoLostNotification, KnownBeforeChanges, Fresh
<1>8. NoGhostInterface'
  BY <1>1, <1>4, <1>5 DEF IInv, NoGhostInterface
<1>9. RoundShape'
  <2>1. \A j \in tracked \ remaining : trackers[j].changed = {}
    BY <1>1 DEF IInv, RoundShape
  <2>2. ASSUME NEW j \in remaining, \A k \in remaining : j <= k PROVE j = i
    BY <1>1, <1>2, <2>2, NotificationAssumption
  <2>3. \A c \in Clients \ todo' : i \in subs[c] => client'[c].view[i] = trackers[i].value
    BY <1>1, <1>4, <1>5 DEF IInv, RoundShape, UpToDate
  <2> QED BY <1>1, <1>2, <1>5, <2>1, <2>2, <2>3 DEF RoundShape, UpToDate
<1> QED BY <1>5, <1>7, <1>8, <1>9 DEF IInv

\* The loop passes a subscriber that has nothing to hear about this tracker.
LEMMA PassKeeps ==
    ASSUME IInv, NEW i \in Indices, NEW s \in Subscribers, Deliver(i, s),
           ~(i \in subs[s] /\ trackers[i].changed # {})
    PROVE  IInv'
<1>1. /\ pc = "notify" /\ i \in remaining /\ \A j \in remaining : i <= j
      /\ s \in todo /\ todo' = todo \ {s} /\ called' = {}
      /\ UNCHANGED <<tracked, trackers, subs, client, phase, caller, pc, cur, pend,
                     remaining, skipped, fault, messages>>
  BY DEF Deliver, At, InLoop, cache, loop
<1>2. TypeOK'
  BY <1>1 DEF IInv, TypeOK, Present
<1>3. NoLostNotification' /\ KnownBeforeChanges'
  BY <1>1 DEF IInv, NoLostNotification, KnownBeforeChanges, Unannounced, Fresh
<1>4. NoGhostInterface' /\ AbsentKnowsNothing' /\ CacheShape'
  BY <1>1 DEF IInv, NoGhostInterface, AbsentKnowsNothing, CacheShape
<1>5. QuietMeansDelivered' /\ UserShape'
  BY <1>1 DEF IInv, QuietMeansDelivered, UserShape
<1>6. RoundShape'
  <2>1. \A j \in tracked \ remaining : trackers[j].changed = {}
    BY <1>1 DEF IInv, RoundShape
  <2>2. ASSUME NEW j \in remaining, \A k \in remaining : j <= k PROVE j = i
    BY <1>1, <2>2, NotificationAssumption DEF IInv, TypeOK
  <2>3. ASSUME s \in Clients, i \in subs[s] PROVE UpToDate(s, i)
    <3>1. i \in tracked /\ trackers[i].changed = {}
      BY <1>1, <2>3 DEF IInv, TypeOK
    <3>2. \A f \in ChangedFlag : client[s].view[i][f] = trackers[i].value[f]
      BY <1>1, <2>3, <3>1 DEF IInv, NoLostNotification, Unannounced, Fresh
    <3>3. IsValue(client[s].view[i]) /\ IsValue(trackers[i].value)
      BY DEF IInv, TypeOK, IsClient, IsTracker
    <3> QED BY <3>2, <3>3 DEF UpToDate, IsValue
  <2>4. \A c \in Clients \ todo' : i \in subs[c] => UpToDate(c, i)
    BY <1>1, <2>3 DEF IInv, RoundShape
  <2> QED BY <1>1, <2>1, <2>2, <2>4 DEF RoundShape, UpToDate
<1> QED BY <1>2, <1>3, <1>4, <1>5, <1>6 DEF IInv

-----------------------------------------------------------------------------
(* The round of notifyChanges().                                           *)

\* The round begins, or there is nobody to tell.
LEMMA EndDatagramKeeps == ASSUME IInv, EndDatagram PROVE IInv'
<1>1. /\ pc = "dispatch"
      /\ UNCHANGED <<tracked, trackers, subs, client, cur, pend, fault, messages,
                     phase, caller, called, skipped>>
      /\ \/ Present = {} /\ pc' = "idle" /\ UNCHANGED <<remaining, todo>>
         \/ /\ pc' = "notify" /\ remaining' = tracked
            /\ todo' = IF remaining' = {} THEN {} ELSE Present
  BY DEF EndDatagram, AtEnd, Visit, cache
<1>2. TypeOK'
  BY <1>1 DEF IInv, TypeOK, Present
<1>3. NoLostNotification' /\ KnownBeforeChanges'
  BY <1>1 DEF IInv, NoLostNotification, KnownBeforeChanges, Unannounced, Fresh
<1>4. NoGhostInterface' /\ AbsentKnowsNothing' /\ CacheShape' /\ UserShape'
  BY <1>1 DEF IInv, NoGhostInterface, AbsentKnowsNothing, CacheShape, UserShape
<1>5. QuietMeansDelivered' /\ RoundShape'
  BY <1>1 DEF IInv, QuietMeansDelivered, RoundShape, Present, Clients
<1> QED BY <1>2, <1>3, <1>4, <1>5 DEF IInv

\* The flags of a tracker are cleared when everybody has been told.
LEMMA NextTrackerKeeps ==
    ASSUME IInv, NEW i \in Indices, NextTracker(i)
    PROVE  IInv'
<1>1. /\ pc = "notify" /\ i \in remaining /\ \A j \in remaining : i <= j
      /\ todo = {} /\ remaining' = remaining \ {i}
      /\ todo' = (IF remaining' = {} THEN {} ELSE Present) /\ called' = {}
      /\ UNCHANGED <<tracked, subs, client, phase, caller, pc, cur, pend, skipped,
                     fault, messages>>
  BY DEF NextTracker, At, Visit
<1>2. IsTracker(trackers[i]) /\ i \in tracked /\ tracked \subseteq Indices
  BY <1>1 DEF IInv, TypeOK
<1> DEFINE t == ClearChangedFlags(trackers[i])
<1>3. IsTracker(t) /\ t.value = trackers[i].value /\ t.changed = {}
  BY <1>2, ClearType
<1>4. trackers' = [trackers EXCEPT ![i] = t]
  BY DEF NextTracker
<1> HIDE DEF t
<1>5. /\ trackers'[i] = t
      /\ \A j \in Indices \ {i} : trackers'[j] = trackers[j]
      /\ trackers' = [j \in Indices |-> trackers'[j]]
  BY <1>4 DEF IInv, TypeOK
<1>6. TypeOK'
  BY <1>1, <1>3, <1>5 DEF IInv, TypeOK, Present
<1>7. ASSUME NEW c \in Clients, i \in subs[c] PROVE client[c].view[i] = trackers[i].value
  BY <1>1, <1>7 DEF IInv, RoundShape, UpToDate
<1>8. NoLostNotification'
  <2>1. SUFFICES ASSUME NEW c \in Clients, NEW j \in subs[c] \cap tracked
                 PROVE  Fresh(client[c], j)'
    BY <1>1 DEF NoLostNotification
  <2>2. CASE j = i
    BY <1>1, <1>3, <1>5, <1>7, <2>2 DEF Fresh
  <2>3. CASE j # i
    <3>1. Fresh(client[c], j)
      BY <1>1 DEF IInv, NoLostNotification, Unannounced
    <3> QED BY <1>1, <1>2, <1>5, <2>3, <3>1 DEF Fresh
  <2> QED BY <2>2, <2>3
<1>9. KnownBeforeChanges'
  BY <1>1 DEF IInv, KnownBeforeChanges, Unannounced
<1>10. NoGhostInterface' /\ AbsentKnowsNothing'
  BY <1>1 DEF IInv, NoGhostInterface, AbsentKnowsNothing
<1>11. CacheShape'
  BY <1>1, <1>2, <1>5 DEF IInv, CacheShape
<1>12. QuietMeansDelivered' /\ UserShape'
  BY <1>1 DEF QuietMeansDelivered, UserShape
<1>13. RoundShape'
  <2>1. \A j \in tracked \ remaining' : trackers'[j].changed = {}
    BY <1>1, <1>2, <1>3, <1>5 DEF IInv, RoundShape
  <2>2. \A c \in Clients \ todo' : remaining' # {} => subs[c] = {}
    BY <1>1 DEF Present, Clients
  <2> QED BY <1>1, <2>1, <2>2 DEF RoundShape
<1> QED BY <1>6, <1>8, <1>9, <1>10, <1>11, <1>12, <1>13 DEF IInv

\* The round has cleared every flag.
LEMMA FinishRoundKeeps == ASSUME IInv, FinishRound PROVE IInv'
<1>1. /\ pc = "notify" /\ remaining = {} /\ pc' = "idle" /\ skipped' = FALSE
      /\ todo = {} /\ called = {}
      /\ UNCHANGED <<tracked, trackers, subs, client, phase, caller, cur, pend,
                     remaining, todo, called, fault, messages>>
  BY DEF FinishRound, cache, loop, IInv, TypeOK
<1>2. TypeOK'
  BY <1>1 DEF IInv, TypeOK, Present
<1>3. NoLostNotification' /\ KnownBeforeChanges'
  BY <1>1 DEF IInv, NoLostNotification, KnownBeforeChanges, Unannounced, Fresh
<1>4. NoGhostInterface' /\ AbsentKnowsNothing' /\ CacheShape' /\ RoundShape' /\ UserShape'
  BY <1>1 DEF IInv, NoGhostInterface, AbsentKnowsNothing, CacheShape, RoundShape, UserShape
<1>5. ASSUME NEW s \in Clients, NEW i \in subs[s] \cap tracked
      PROVE  client[s].view[i] = trackers[i].value
  <2>1. trackers[i].changed = {}
    BY <1>1, <1>5 DEF IInv, RoundShape
  <2>2. \A f \in ChangedFlag : client[s].view[i][f] = trackers[i].value[f]
    BY <1>1, <1>5, <2>1 DEF IInv, NoLostNotification, Unannounced, Fresh
  <2>3. IsValue(client[s].view[i]) /\ IsValue(trackers[i].value)
    BY DEF IInv, TypeOK, IsClient, IsTracker, Clients
  <2> QED BY <2>2, <2>3 DEF IsValue
<1>6. QuietMeansDelivered'
  BY <1>1, <1>5 DEF QuietMeansDelivered, UpToDate
<1> QED BY <1>2, <1>3, <1>4, <1>6 DEF IInv

-----------------------------------------------------------------------------
(* The monitor implements the change feed.                                 *)

\* The state of the source i, if there is one.
State(i) == IF i \in tracked THEN {trackers[i].value} ELSE {}

\* Whoever follows a source has its state while the monitor rests.
Resting == pc = "idle" /\ ~skipped =>
               \A s \in Clients : \A i \in subs[s] : Picture(client[s], i) = State(i)

\* While the monitor rests nobody has anything to hear.
LEMMA RestingUpToDate == IInv => Resting
<1> SUFFICES ASSUME IInv, pc = "idle", ~skipped, NEW s \in Clients, NEW i \in subs[s]
             PROVE  Picture(client[s], i) = State(i)
  BY DEF Resting
<1>1. i \in client[s].known => i \in tracked
  BY DEF IInv, NoGhostInterface
<1>2. i \in tracked => i \in client[s].known /\ client[s].view[i] = trackers[i].value
  BY DEF IInv, KnownBeforeChanges, QuietMeansDelivered, UpToDate, Unannounced
<1> QED BY <1>1, <1>2 DEF Picture, State

\* What a step of the monitor has to show to be a Hand step of the feed.
LEMMA HandStep ==
    ASSUME TypeOK, TypeOK', Resting', UNCHANGED <<tracked, trackers>>,
           \A s \in Clients : \A i \in Indices :
              \/ Picture(client'[s], i) \in {Picture(client[s], i), State(i)}
              \/ subs'[s] = {} /\ Picture(client'[s], i) = {},
           \A s \in Clients : \A i \in subs'[s] :
              subs'[s] = subs[s] \/ State(i) = {} \/ Picture(client'[s], i) = State(i)
    PROVE  Feed!Hand
<1>1. pc' = "idle" /\ ~skipped' =>
        \A s \in Clients : \A i \in subs'[s] : Picture(client'[s], i) = State(i)
  BY DEF Resting, State, Picture
<1> QED BY <1>1 DEF Feed!Hand, Feed!Offered, Feed!UpToDate, State, TypeOK, Clients, Picture

\* Steps that change what no client knows and no subscription.
LEMMA SilentHands ==
    ASSUME IInv, TypeOK', Resting', UNCHANGED <<tracked, trackers, subs, client>>
    PROVE  Feed!Hand
BY HandStep DEF IInv

\* A call of the API, from wherever it is made.
LEMMA ApiHands ==
    ASSUME IInv, TypeOK', Resting', NEW s \in Subscribers, NEW intfs \in SUBSET Indices,
           Enroll(s, intfs)
    PROVE  Feed!Hand
<1>1. TypeOK /\ Hears /\ UNCHANGED <<tracked, trackers>>
  BY EnrollShape DEF IInv, Enroll, cache
<1>2. ASSUME NEW c \in Clients, NEW i \in Indices
      PROVE  \/ Picture(client'[c], i) \in {Picture(client[c], i), State(i)}
             \/ subs'[c] = {} /\ Picture(client'[c], i) = {}
  <2>1. CASE client'[c] = client[c]
    BY <2>1
  <2>2. CASE subs'[c] = {} /\ client'[c] = Uninformed
    BY <2>2 DEF Uninformed, Picture
  <2>3. CASE /\ subs'[c] \in (SUBSET Indices) \ {{}}
             /\ client'[c] = Informed(client[c], subs'[c])
    <3> DEFINE set == subs'[c]
    <3>1. set \in SUBSET Indices /\ IsClient(client[c])
      BY <1>1, <2>3 DEF TypeOK, Clients
    <3> HIDE DEF set
    <3>2. /\ Informed(client[c], set).known = client[c].known \cup (set \cap tracked)
          /\ \A j \in set \cap tracked : Informed(client[c], set).view[j] = trackers[j].value
          /\ \A j \in Indices \ (set \cap tracked) :
                Informed(client[c], set).view[j] = client[c].view[j]
      BY <1>1, <3>1, InformedType
    <3> QED BY <2>3, <3>2 DEF set, Picture, State
  <2> QED BY <1>1, <2>1, <2>2, <2>3 DEF Hears
<1>3. ASSUME NEW c \in Clients, NEW i \in subs'[c]
      PROVE  subs'[c] = subs[c] \/ State(i) = {} \/ Picture(client'[c], i) = State(i)
  <2>1. CASE subs'[c] # {} /\ client'[c] = Informed(client[c], subs'[c]) /\ i \in tracked
    <3>1. \/ i \in subs[c] /\ client'[c] = client[c]
          \/ i \in client'[c].known /\ client'[c].view[i] = trackers[i].value
      BY <1>1, <2>1, HearsPair
    <3> DEFINE set == subs'[c]
    <3>2. set \in SUBSET Indices /\ i \in set \cap tracked /\ IsClient(client[c])
      BY <1>1, <1>3, <2>1 DEF TypeOK, Clients
    <3> HIDE DEF set
    <3>3. /\ i \in Informed(client[c], set).known
          /\ Informed(client[c], set).view[i] = trackers[i].value
      BY <1>1, <3>2, InformedType
    <3> QED BY <2>1, <3>3 DEF set, Picture, State
  <2>2. CASE i \notin tracked
    BY <2>2 DEF State
  <2> QED BY <1>1, <1>3, <2>1, <2>2 DEF Hears
<1> QED BY <1>1, <1>2, <1>3, HandStep

\* A callback: an announcement, a removal, or what has changed.
LEMMA CallbackHands ==
    ASSUME IInv, TypeOK', Resting', NEW s \in Subscribers, s # Null,
           \/ CallAdded(s)
           \/ CallRemoved(s)
           \/ \E i \in Indices : /\ Deliver(i, s)
                                 /\ i \in subs[s] /\ trackers[i].changed # {}
    PROVE  Feed!Hand
<1>1. TypeOK /\ IsClient(client[s])
  BY DEF IInv, TypeOK
<1>2. ASSUME NEW told, IsClient(told), Callback(s, told), InLoop, s \in todo,
             pc \in {"added", "removed", "notify"},
             \A i \in Indices : Picture(told, i) \in {Picture(client[s], i), State(i)}
      PROVE  Feed!Hand
  <2>1. /\ UNCHANGED <<tracked, trackers, subs>>
        /\ client'[s] = told
        /\ \A c \in Clients \ {s} : client'[c] = client[c]
    BY <1>2, LoopShape
  <2>2. \A c \in Clients : \A i \in Indices :
           Picture(client'[c], i) \in {Picture(client[c], i), State(i)}
    BY <1>2, <2>1
  <2>3. \A c \in Clients : \A i \in subs'[c] : subs'[c] = subs[c]
    BY <2>1
  <2>4. \A c \in Clients : \A i \in Indices :
           \/ Picture(client'[c], i) \in {Picture(client[c], i), State(i)}
           \/ subs'[c] = {} /\ Picture(client'[c], i) = {}
    BY <2>2
  <2> QED BY <1>1, <2>1, <2>3, <2>4, HandStep
<1>3. CASE CallAdded(s)
  <2> DEFINE name == trackers[cur].value["Name"]
             told == Added(client[s], cur, name)
  <2>1. pc = "added" /\ s \in todo /\ Callback(s, told) /\ InLoop
    BY <1>3 DEF CallAdded
  <2>2. /\ cur \in tracked /\ cur \in Indices
        /\ trackers[cur].value = [DefaultValue EXCEPT !["Name"] = name]
    BY <1>1, <2>1 DEF IInv, TypeOK, CacheShape
  <2>3. name \in Names
    BY <1>1, <2>2 DEF TypeOK, IsTracker, IsValue, ChangedFlag, ValuesOf
  <2>4. /\ IsClient(told)
        /\ told.known = client[s].known \cup {cur}
        /\ told.view[cur] = trackers[cur].value
        /\ \A j \in Indices \ {cur} : told.view[j] = client[s].view[j]
    BY <1>1, <2>2, <2>3, AddedType
  <2> HIDE DEF told
  <2>5. \A i \in Indices : Picture(told, i) \in {Picture(client[s], i), State(i)}
    BY <2>2, <2>4 DEF Picture, State
  <2> QED BY <1>2, <2>1, <2>4, <2>5
<1>4. CASE CallRemoved(s)
  <2> DEFINE told == Removed(client[s], cur)
  <2>1. pc = "removed" /\ s \in todo /\ Callback(s, told) /\ InLoop
    BY <1>4 DEF CallRemoved
  <2>2. cur \in Indices \ tracked
    BY <2>1 DEF IInv, CacheShape
  <2>3. /\ IsClient(told)
        /\ told.known = client[s].known \ {cur}
        /\ \A j \in Indices \ {cur} : told.view[j] = client[s].view[j]
    BY <1>1, <2>2, RemovedType
  <2> HIDE DEF told
  <2>4. \A i \in Indices : Picture(told, i) \in {Picture(client[s], i), State(i)}
    BY <2>2, <2>3 DEF Picture, State
  <2> QED BY <1>2, <2>1, <2>3, <2>4
<1>5. ASSUME NEW i \in Indices, Deliver(i, s), i \in subs[s], trackers[i].changed # {}
      PROVE  Feed!Hand
  <2> DEFINE told == Told(client[s], i, trackers[i])
  <2>1. pc = "notify" /\ i \in remaining /\ s \in todo /\ Callback(s, told) /\ InLoop
    BY <1>5 DEF Deliver, At
  <2>2. i \in tracked /\ IsTracker(trackers[i])
    BY <1>1, <2>1 DEF TypeOK
  <2>3. Fresh(client[s], i) /\ i \in client[s].known
    BY <1>5, <2>1, <2>2 DEF IInv, NoLostNotification, KnownBeforeChanges, Unannounced, Clients
  <2>4. /\ IsClient(told)
        /\ told.known = client[s].known
        /\ \A j \in Indices \ {i} : told.view[j] = client[s].view[j]
        /\ told.view[i] = trackers[i].value
    <3>1. IsClient(client[s]) /\ IsTracker(trackers[i])
      BY <1>1, <2>2
    <3>2. \A f \in ChangedFlag \ trackers[i].changed :
              client[s].view[i][f] = trackers[i].value[f]
      BY <2>3 DEF Fresh
    <3> QED BY ONLY i \in Indices, <3>1, <3>2, ToldType
  <2> HIDE DEF told
  <2>5. \A j \in Indices : Picture(told, j) \in {Picture(client[s], j), State(j)}
    BY <2>2, <2>3, <2>4 DEF Picture, State
  <2> QED BY <1>2, <2>1, <2>4, <2>5
<1> QED BY <1>3, <1>4, <1>5

\* A message handler changes one interface and tells nobody yet.
LEMMA OneSourceChanges ==
    ASSUME NEW i \in Indices, pc' # "idle", UNCHANGED <<subs, client>>,
           \A j \in Indices \ {i} : /\ trackers'[j] = trackers[j]
                                    /\ j \in tracked' <=> j \in tracked
    PROVE  Feed!Next
<1>1. Feed!Change(i)
  BY DEF Feed!Change, Picture
<1> QED BY <1>1 DEF Feed!Next

\* The handlers, and the rest of a link message after its announcement.
LEMMA MessagesChange ==
    ASSUME IInv, Message \/ FinishLink
    PROVE  Feed!Next
<1>1. ASSUME NEW i \in Indices, NEW t
      PROVE  \A j \in Indices \ {i} : [trackers EXCEPT ![i] = t][j] = trackers[j]
  BY DEF IInv, TypeOK
<1>2. ASSUME NEW i \in Indices, NEW t, Handle, Track(i, t) PROVE Feed!Next
  BY <1>1, <1>2, OneSourceChanges DEF Handle, Track
<1>3. ASSUME NEW i \in Indices, NEW m \in LinkMessages, NewLink(i, m) PROVE Feed!Next
  BY <1>3, OneSourceChanges DEF NewLink, Handle
<1>4. ASSUME NEW i \in Indices, DelLink(i) PROVE Feed!Next
  BY <1>4, OneSourceChanges DEF DelLink, Handle
<1>5. CASE FinishLink
  <2>1. cur \in Indices
    BY <1>5 DEF FinishLink, IInv, CacheShape, TypeOK
  <2> QED BY <1>1, <1>5, <2>1, OneSourceChanges DEF FinishLink
<1>6. ASSUME NEW i \in Indices,
             \/ \E m \in LinkMessages : KnownLink(i, m)
             \/ \E a \in Address, l \in Labels : NewAddress(i, a, l) \/ DelAddress(i, a, l)
             \/ \E g \in Gateways : NewRoute(i, g)
             \/ DelRoute(i)
      PROVE  Feed!Next
  BY <1>2, <1>6 DEF KnownLink, NewAddress, DelAddress, NewRoute, DelRoute
<1> QED BY <1>3, <1>4, <1>5, <1>6 DEF Message

\* Clearing the flags of a tracker is invisible.
LEMMA ClearingIsInvisible ==
    ASSUME IInv, NEW i \in Indices, NextTracker(i)
    PROVE  UNCHANGED Feed!feed
<1>1. IsTracker(trackers[i])
  BY DEF IInv, TypeOK
<1>2. ClearChangedFlags(trackers[i]).value = trackers[i].value
  BY <1>1, ClearType
<1>3. /\ UNCHANGED <<tracked, subs, client, pc, skipped>>
      /\ \A j \in Indices : trackers'[j].value = trackers[j].value
  BY <1>2 DEF NextTracker, IInv, TypeOK
<1> QED BY <1>3 DEF Feed!feed, Picture

\* Every step of the monitor is a step of the feed.
LEMMA NextFeeds ==
    ASSUME IInv, TypeOK', Resting', [Next]_vars
    PROVE  [Feed!Next]_(Feed!feed)
<1>1. ASSUME Feed!Hand PROVE Feed!Next
  BY <1>1 DEF Feed!Next
<1>2. CASE UNCHANGED vars
  BY <1>2, <1>1, SilentHands DEF vars
<1>3. ASSUME NEW s \in Subscribers, NEW intfs \in SUBSET Indices,
             Subscribe(s, intfs) \/ UpdateSubscription(s, intfs) \/ Unsubscribe(s)
      PROVE  Feed!Next
  BY <1>1, <1>3, ApiHands DEF Subscribe, UpdateSubscription, Unsubscribe
<1>4. CASE EnumerateInterfaces \/ Run \/ ReceiveDatagram \/ EndWithRetry
           \/ EndEnumeration \/ FinishDelLink \/ EndDatagram \/ FinishRound
  <2>1. UNCHANGED <<tracked, trackers, subs, client>>
    BY <1>4 DEF EnumerateInterfaces, Run, Enter, ReceiveDatagram, EndWithRetry,
                EndEnumeration, FinishDelLink, EndDatagram, FinishRound, AtEnd, cache
  <2> QED BY <1>1, <2>1, SilentHands
<1>5. CASE Message \/ FinishLink
  BY <1>5, MessagesChange
<1>6. ASSUME NEW s \in Subscribers,
             \/ CallAdded(s) \/ CallRemoved(s)
             \/ \E i \in Indices : Deliver(i, s)
      PROVE  Feed!Next
  <2>1. CASE UNCHANGED <<tracked, trackers, subs, client>>
    BY <1>1, <2>1, SilentHands
  <2>2. CASE s = Null
    BY <1>6, <2>1, <2>2 DEF CallAdded, CallRemoved, Deliver, Callback, InLoop, cache
  <2>3. CASE s # Null
    <3>1. ASSUME NEW i \in Indices, Deliver(i, s),
                 ~(i \in subs[s] /\ trackers[i].changed # {})
          PROVE  Feed!Next
      BY <2>1, <3>1 DEF Deliver, InLoop, cache
    <3> QED BY <1>1, <1>6, <2>3, <3>1, CallbackHands
  <2> QED BY <2>2, <2>3
<1>7. ASSUME NEW i \in Indices, NextTracker(i) PROVE UNCHANGED Feed!feed
  BY <1>7, ClearingIsInvisible
<1> QED BY <1>2, <1>3, <1>4, <1>5, <1>6, <1>7 DEF Next, UserCall, Proceed

\* Nothing exists and nobody follows anything at first.
LEMMA InitFeeds == Init => Feed!Init
BY DEF Init, Feed!Init, Uninformed, Picture, Clients

-----------------------------------------------------------------------------
(* The theorems.                                                           *)

\* A null subscriber is a fault and changes nothing else.
LEMMA NullKeeps ==
    ASSUME IInv, InLoop, NEW told, Callback(Null, told)
    PROVE  IInv'
BY StutterKeeps DEF Callback, InLoop, cache, loop

\* Nothing is cached and nobody is subscribed at first.
LEMMA InitIInv == Init => IInv
<1> SUFFICES ASSUME Init PROVE IInv
  OBVIOUS
<1>1. TypeOK
  <2>1. \A i \in Indices : IsTracker(trackers[i])
    BY DefaultType DEF Init
  <2>2. \A s \in Subscribers : IsClient(client[s])
    BY UninformedType DEF Init
  <2>3. /\ trackers = [i \in Indices |-> trackers[i]]
        /\ client = [s \in Subscribers |-> client[s]]
        /\ subs \in [Subscribers -> SUBSET Indices]
    BY DEF Init
  <2>4. messages \in 0 .. MaxMessages
    BY NotificationAssumption DEF Init
  <2> QED BY <2>1, <2>2, <2>3, <2>4 DEF Init, TypeOK
<1>2. NoLostNotification /\ KnownBeforeChanges /\ QuietMeansDelivered
  BY DEF Init, NoLostNotification, KnownBeforeChanges, QuietMeansDelivered
<1>3. NoGhostInterface /\ AbsentKnowsNothing
  BY DEF Init, NoGhostInterface, AbsentKnowsNothing, Uninformed, Clients
<1>4. CacheShape /\ RoundShape /\ UserShape
  BY DEF Init, CacheShape, RoundShape, UserShape
<1> QED BY <1>1, <1>2, <1>3, <1>4 DEF IInv

\* Every step keeps the invariant: one case per action of Next.
LEMMA NextIInv == IInv /\ [Next]_vars => IInv'
<1> SUFFICES ASSUME IInv, [Next]_vars PROVE IInv'
  OBVIOUS
<1>1. ASSUME NEW s \in Subscribers, NEW intfs \in SUBSET Indices,
             Subscribe(s, intfs) \/ UpdateSubscription(s, intfs) \/ Unsubscribe(s)
      PROVE  IInv'
  BY <1>1, ApiKeeps
<1>2. CASE EnumerateInterfaces \/ Run
  BY <1>2, EnterKeeps
<1>3. CASE ReceiveDatagram \/ EndWithRetry \/ EndEnumeration \/ FinishDelLink
  BY <1>3, IdleKeeps
<1>4. ASSUME Message PROVE IInv'
  BY <1>4, HandlersKeep, NewLinkKeeps, DelLinkKeeps DEF Message
<1>5. ASSUME NEW s \in Subscribers, CallAdded(s) PROVE IInv'
  BY <1>5, CallAddedKeeps, NullKeeps DEF CallAdded
<1>6. ASSUME NEW s \in Subscribers, CallRemoved(s) PROVE IInv'
  BY <1>6, CallRemovedKeeps, NullKeeps DEF CallRemoved
<1>7. CASE FinishLink
  BY <1>7, FinishLinkKeeps
<1>8. CASE EndDatagram
  BY <1>8, EndDatagramKeeps
<1>9. ASSUME NEW i \in Indices, NEW s \in Subscribers, Deliver(i, s) PROVE IInv'
  <2>1. CASE ~(i \in subs[s] /\ trackers[i].changed # {})
    BY <1>9, <2>1, PassKeeps
  <2>2. CASE i \in subs[s] /\ trackers[i].changed # {} /\ s # Null
    BY <1>9, <2>2, DeliverKeeps
  <2>3. CASE i \in subs[s] /\ trackers[i].changed # {} /\ s = Null
    BY <1>9, <2>3, NullKeeps DEF Deliver
  <2> QED BY <2>1, <2>2, <2>3
<1>10. ASSUME NEW i \in Indices, NextTracker(i) PROVE IInv'
  BY <1>10, NextTrackerKeeps
<1>11. CASE FinishRound
  BY <1>11, FinishRoundKeeps
<1>12. CASE UNCHANGED vars
  BY <1>12, StutterKeeps DEF vars
<1> QED
  BY <1>1, <1>2, <1>3, <1>4, <1>5, <1>6, <1>7, <1>8, <1>9, <1>10, <1>11, <1>12
     DEF Next, UserCall, Proceed

\* The variables keep their types, and the loops their shape.
THEOREM MonitorTypes == Spec => []TypeOK
<1>1. IInv => TypeOK
  BY DEF IInv
<1> QED BY <1>1, InitIInv, NextIInv, PTL DEF Spec

\* No change is lost, whatever the messages, however they are cut into
\* datagrams, and whatever subscriptions the callbacks make, change and drop:
\* a subscriber's picture of an interface differs from the cache only where a
\* flag will make the next round tell it.
THEOREM NothingIsLost == Spec => []NoLostNotification
<1>1. IInv => NoLostNotification
  BY DEF IInv
<1> QED BY <1>1, InitIInv, NextIInv, PTL DEF Spec

\* Whoever is told about changes of an interface knows it.
THEOREM AnnouncedFirst == Spec => []KnownBeforeChanges
<1>1. IInv => KnownBeforeChanges
  BY DEF IInv
<1> QED BY <1>1, InitIInv, NextIInv, PTL DEF Spec

\* Every subscriber hears of every removal before anything else is handled.
THEOREM RemovalsReachEveryone == Spec => []NoGhostInterface
<1>1. IInv => NoGhostInterface
  BY DEF IInv
<1> QED BY <1>1, InitIInv, NextIInv, PTL DEF Spec

\* While the monitor waits after a round, nobody is behind the cache.
THEOREM QuietIsUpToDate == Spec => []QuietMeansDelivered
<1>1. IInv => QuietMeansDelivered
  BY DEF IInv
<1> QED BY <1>1, InitIInv, NextIInv, PTL DEF Spec

\* The monitor implements the change feed: whatever the messages and the calls
\* from callbacks, a subscriber's picture of an interface is only ever replaced by
\* the whole state of the tracker at that moment, or dropped.
THEOREM MonitorIsChangeFeed == Spec => IsChangeFeed
<1>1. IInv => TypeOK
  BY DEF IInv
<1>2. IInv /\ TypeOK' /\ Resting' /\ [Next]_vars => [Feed!Next]_(Feed!feed)
  BY NextFeeds
<1> QED
  BY <1>1, <1>2, InitFeeds, InitIInv, NextIInv, RestingUpToDate, PTL
     DEF Spec, IsChangeFeed, Feed!Spec
=============================================================================
