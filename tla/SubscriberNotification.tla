----------------------- MODULE SubscriberNotification -----------------------
(***************************************************************************)
(* NetworkMonitor's cache and its subscribers: how rtnetlink messages      *)
(* update the trackers, and how every change reaches every subscriber      *)
(* through callbacks, callback by callback, with the subscribers calling   *)
(* back into the monitor while it iterates over them.                      *)
(*                                                                         *)
(* Everything runs on one thread.  The program is outside of the monitor   *)
(* (pc = "user"), or inside enumerateInterfaces() or run() (caller), where *)
(* the monitor waits for a datagram ("idle"), walks its messages           *)
(* ("dispatch"), or is in one of its three loops over m_subscribers:       *)
(* notifyInterfaceAdded ("added"), notifyInterfaceRemoved ("removed") and  *)
(* notifyChanges ("notify").                                               *)
(*                                                                         *)
(* What a subscriber has been told is the variable client: the interfaces  *)
(* it knows and the attribute values the callbacks handed to it.           *)
(***************************************************************************)
EXTENDS MessageHandlers

CONSTANTS
    Indices,            \* interface indices
    Subscribers,        \* the SubscriberPtr values clients pass
    Null,               \* the null SubscriberPtr (it need not be one of them)
    LinkMessages,       \* contents of the RTM_NEWLINK messages considered
    Labels,             \* values of IFA_LABEL, or NoAttr
    PreferredFamily,    \* "any", or the family a RuntimeFlag restricts to
    MayInvalidate,      \* may a callback make the loop over m_subscribers lose
                        \* its place: unsubscribe its own subscriber, or
                        \* subscribe one more than the map's buckets take
    MaxMessages         \* bound on the rtnetlink messages of a run

ASSUME NotificationAssumption ==
    /\ Indices \subseteq Nat \ {0}
    /\ LinkMessages \subseteq LinkMessage /\ LinkMessages # {}
    /\ Labels \subseteq Names \cup {NoAttr}
    /\ PreferredFamily \in {"any", "v4", "v6"}
    /\ MayInvalidate \in BOOLEAN
    /\ MaxMessages \in Nat

VARIABLES
    tracked,    \* the keys of m_trackers
    trackers,   \* the trackers; a default one for an index without a key
    subs,       \* m_subscribers; {} for a subscriber that is not in the map
    client,     \* what each subscriber has been told
    phase,      \* m_cacheState: "enumerating" or "waiting"
    caller,     \* which call the program is in: "none", "enumerate", "run"
    pc,         \* what the monitor is doing, see above
    cur,        \* interface of the link message being handled, 0 if none
    pend,       \* its message, whose other attributes are still to be applied
    remaining,  \* trackers notifyChanges() has still to visit
    todo,       \* subscribers the current loop has still to visit
    called,     \* {s} while the callback of s that the loop has made runs
    skipped,    \* a datagram ended without a round since the last round
    fault,      \* undefined behaviour the monitor has run into
    messages    \* rtnetlink messages handled so far

cache == <<tracked, trackers>>
loop  == <<cur, pend, remaining>>
vars  == <<tracked, trackers, subs, client, phase, caller, pc, cur, pend,
           remaining, todo, called, skipped, fault, messages>>

IsClient(c) == /\ c = [known |-> c.known, view |-> c.view]
               /\ c.known \subseteq Indices
               /\ c.view = [i \in Indices |-> c.view[i]]
               /\ \A i \in Indices : IsValue(c.view[i])

\* A client that has been told nothing.
Uninformed == [known |-> {}, view |-> [i \in Indices |-> DefaultValue]]

Init == /\ tracked = {}
        /\ trackers = [i \in Indices |-> DefaultTracker]
        /\ subs = [s \in Subscribers |-> {}]
        /\ client = [s \in Subscribers |-> Uninformed]
        /\ phase = "enumerating"
        /\ caller = "none"
        /\ pc = "user"
        /\ cur = 0
        /\ pend = NoMessage
        /\ remaining = {}
        /\ todo = {}
        /\ called = {}
        /\ skipped = FALSE
        /\ fault = "none"
        /\ messages = 0

Present == {s \in Subscribers : subs[s] # {}}

Clients == Subscribers \ {Null}

-----------------------------------------------------------------------------
(* What a callback, or a round of them, does to what its receiver knows.   *)

\* onInterfaceAdded: the interface exists, has this name and nothing else yet.
Added(c, i, name) ==
    [known |-> c.known \cup {i},
     view  |-> [c.view EXCEPT ![i] = [DefaultValue EXCEPT !["Name"] = name]]]

\* onInterfaceRemoved
Removed(c, i) == [known |-> c.known \ {i},
                  view  |-> [c.view EXCEPT ![i] = DefaultValue]]

\* Mutant: the gateway's flag is forgotten.
ToldButGateway(c, i, t) ==
    [c EXCEPT !.view[i] =
        [f \in ChangedFlag |-> IF f \in t.changed \ {"GatewayAddress"}
                               THEN t.value[f] ELSE @[f]]]

\* notifyChanges(subscriber, intf, tracker): one callback per change flag.
Told(c, i, t) ==
    [c EXCEPT !.view[i] =
        [f \in ChangedFlag |-> IF f \in t.changed THEN t.value[f] ELSE @[f]]]

\* Mutant: a fresh subscription is told about raised flags only.
InformedOfChanges(c, intfs) ==
    [known |-> c.known \cup (intfs \cap tracked),
     view  |-> [i \in Indices |->
                    [f \in ChangedFlag |->
                        IF i \in intfs \cap tracked /\ f \in trackers[i].changed
                        THEN trackers[i].value[f] ELSE c.view[i][f]]]]

\* notifyChanges(subscriber, intfs): everything about the cached interfaces
\* among intfs, whether changed or not.
Informed(c, intfs) ==
    [known |-> c.known \cup (intfs \cap tracked),
     view  |-> [i \in Indices |-> IF i \in intfs \cap tracked
                                  THEN trackers[i].value ELSE c.view[i]]]

\* updateSubscription's effect on its subscriber; an empty set unsubscribes.
Resubscribed(c, intfs) == IF intfs = {} THEN Uninformed ELSE Informed(c, intfs)

-----------------------------------------------------------------------------
(* The program's calls, from outside of the monitor or from a callback.     *)

\* subs and client after a subscription of s, or after its end (intfs = {}).
Enroll(s, intfs) ==
    /\ pc = "user" \/ called # {}
    /\ subs' = [subs EXCEPT ![s] = intfs]
    /\ client' = IF s = Null THEN client
                 ELSE [client EXCEPT ![s] = Resubscribed(@, intfs)]
    /\ UNCHANGED <<cache, phase, caller, pc, loop, called, skipped, messages>>

\* subscribe, the only one of the three that takes a null subscriber.  The loop
\* may or may not come by a new node, and is lost if the map is rehashed.
Subscribe(s, intfs) ==
    /\ intfs # {}
    /\ Enroll(s, intfs)
    /\ IF s \in Present \/ called = {}
       THEN UNCHANGED <<todo, fault>>
       ELSE /\ todo' \in {todo, todo \cup {s}}
            /\ fault' \in {fault} \cup (IF MayInvalidate THEN {"iterator"} ELSE {})

\* updateSubscription, which ignores a subscriber that is not in the map.
UpdateSubscription(s, intfs) ==
    /\ intfs # {}
    /\ s \in Present \ {Null}
    /\ Enroll(s, intfs)
    /\ UNCHANGED <<todo, fault>>

\* Mutant: the loop walks a copy of the map and visits an erased subscriber.
UnsubscribeFromCopy(s) ==
    /\ s \in Present \ {Null}
    /\ Enroll(s, {})
    /\ UNCHANGED <<todo, fault>>

\* unsubscribe, and updateSubscription with an empty set.  The node is erased:
\* the loop never visits it, and is lost if it is the one it stands on.
Unsubscribe(s) ==
    /\ s \in Present \ {Null}
    /\ called = {s} => MayInvalidate
    /\ Enroll(s, {})
    /\ todo' = todo \ {s}
    /\ fault' = IF called = {s} THEN "iterator" ELSE fault

Enter(which) ==
    /\ pc = "user"
    /\ pc' = "idle" /\ caller' = which
    /\ UNCHANGED <<cache, subs, client, phase, loop, todo, called, skipped,
                   fault, messages>>

\* enumerateInterfaces: with a complete cache it only reads.
EnumerateInterfaces == phase = "enumerating" /\ Enter("enumerate")

\* run: enumerate if that is still to be done, then receive for ever.
Run == Enter("run")

-----------------------------------------------------------------------------
(* The message handlers.                                                   *)

ReceiveDatagram == /\ pc = "idle"
                   /\ pc' = "dispatch"
                   /\ UNCHANGED <<cache, subs, client, phase, caller, loop,
                                  todo, called, skipped, fault, messages>>

Handle == /\ pc = "dispatch"
          /\ messages < MaxMessages
          /\ messages' = messages + 1
          /\ UNCHANGED <<subs, client, phase, caller, remaining, called,
                         skipped, fault>>

\* A message that changes one tracker and calls nobody back.
Track(i, t) == /\ trackers' = [trackers EXCEPT ![i] = t]
               /\ UNCHANGED <<tracked, pc, cur, pend, todo>>

\* RTM_NEWLINK for an interface in the cache.
KnownLink(i, m) ==
    /\ Handle
    /\ i \in tracked
    /\ Track(i, ApplyLink(EnsureName(trackers[i], m.name), m))

\* Mutant: the new interface is filled in and nobody is told.
NewLinkSilently(i, m) ==
    /\ Handle
    /\ i \notin tracked
    /\ tracked' = tracked \cup {i}
    /\ trackers' = [trackers EXCEPT ![i] = ApplyLink(EnsureName(@, m.name), m)]
    /\ UNCHANGED <<pc, todo, cur, pend>>

\* RTM_NEWLINK for another one: every subscriber hears of the interface before
\* the rest of the message is applied.
NewLink(i, m) ==
    /\ Handle
    /\ i \notin tracked
    /\ tracked' = tracked \cup {i}
    /\ trackers' = [trackers EXCEPT ![i] = EnsureName(@, m.name)]
    /\ pc' = "added" /\ todo' = Present
    /\ cur' = i /\ pend' = m

\* Mutant: only the subscribers of the interface hear of its removal.
DelLinkToItsSubscribers(i) ==
    /\ Handle
    /\ tracked' = tracked \ {i}
    /\ trackers' = [trackers EXCEPT ![i] = DefaultTracker]
    /\ pc' = "removed" /\ todo' = {s \in Present : i \in subs[s]}
    /\ cur' = i /\ UNCHANGED pend

\* RTM_DELLINK, of an interface that is in the cache or is not.
DelLink(i) ==
    /\ Handle
    /\ tracked' = tracked \ {i}
    /\ trackers' = [trackers EXCEPT ![i] = DefaultTracker]
    /\ pc' = "removed" /\ todo' = Present
    /\ cur' = i /\ UNCHANGED pend

Wanted(ip) == PreferredFamily = "any" \/ (PreferredFamily = "v4" <=> ip \in IPv4)

\* RTM_NEWADDR
NewAddress(i, a, label) ==
    /\ Handle
    /\ i \in tracked /\ Wanted(a.ip)
    /\ Track(i, AddNetworkAddress(EnsureName(trackers[i], label), a))

\* RTM_DELADDR
DelAddress(i, a, label) ==
    /\ Handle
    /\ i \in tracked /\ Wanted(a.ip)
    /\ Track(i, RemoveNetworkAddress(EnsureName(trackers[i], label), a))

\* RTM_NEWROUTE with a gateway; routes are looked at for IPv4 only.
NewRoute(i, g) ==
    /\ Handle
    /\ i \in tracked /\ PreferredFamily # "v6"
    /\ Track(i, SetGatewayAddress(trackers[i], g))

\* RTM_DELROUTE with a gateway (which one is not looked at) or on a dead link.
DelRoute(i) ==
    /\ Handle
    /\ i \in tracked /\ PreferredFamily # "v6"
    /\ Track(i, ClearGatewayAddress(trackers[i]))

-----------------------------------------------------------------------------
(* The callbacks.                                                          *)

\* A callback leaves s knowing `told`.  Until the loop goes on, s may make any
\* calls of the program.
Callback(s, told) ==
    IF s = Null
    THEN fault' = "null" /\ UNCHANGED <<client, todo, called>>
    ELSE /\ client' = [client EXCEPT ![s] = told]
         /\ todo' = todo \ {s}
         /\ called' = {s}
         /\ UNCHANGED fault

InLoop == UNCHANGED <<cache, subs, phase, caller, pc, loop, skipped, messages>>

CallAdded(s) ==
    /\ pc = "added" /\ s \in todo
    /\ Callback(s, Added(client[s], cur, trackers[cur].value["Name"]))
    /\ InLoop

CallRemoved(s) ==
    /\ pc = "removed" /\ s \in todo
    /\ Callback(s, Removed(client[s], cur))
    /\ InLoop

\* Back from notifyInterfaceAdded: the rest of the link message.
FinishLink ==
    /\ pc = "added" /\ todo = {}
    /\ trackers' = [trackers EXCEPT ![cur] = ApplyLink(@, pend)]
    /\ pc' = "dispatch" /\ cur' = 0 /\ pend' = NoMessage /\ called' = {}
    /\ UNCHANGED <<tracked, subs, client, phase, caller, remaining, todo,
                   skipped, fault, messages>>

FinishDelLink ==
    /\ pc = "removed" /\ todo = {}
    /\ pc' = "dispatch" /\ cur' = 0 /\ called' = {}
    /\ UNCHANGED <<cache, subs, client, phase, caller, pend, remaining, todo,
                   skipped, fault, messages>>

-----------------------------------------------------------------------------
(* The end of a datagram.                                                  *)

AtEnd == /\ pc = "dispatch"
         /\ UNCHANGED <<cache, subs, client, cur, pend, called, fault, messages>>

\* notifyChanges() goes on to the trackers left, and to everybody for each.
Visit(left) == remaining' = left /\ todo' = IF left = {} THEN {} ELSE Present

\* Mutant: no round while enumerating.
EndDatagramEnumerating ==
    /\ AtEnd
    /\ IF Present = {} \/ phase = "enumerating"
       THEN pc' = "idle" /\ UNCHANGED <<remaining, todo>>
       ELSE pc' = "notify" /\ Visit(tracked)
    /\ UNCHANGED <<phase, caller, skipped>>

\* notifyChanges() after the datagram; without subscribers it does nothing.
EndDatagram ==
    /\ AtEnd
    /\ IF Present = {}
       THEN pc' = "idle" /\ UNCHANGED <<remaining, todo>>
       ELSE pc' = "notify" /\ Visit(tracked)
    /\ UNCHANGED <<phase, caller, skipped>>

\* handleCallbackResult reports a retried dump: no notifyChanges().
EndWithRetry ==
    /\ AtEnd
    /\ phase = "enumerating"
    /\ pc' = "idle" /\ skipped' = TRUE
    /\ UNCHANGED <<phase, caller, remaining, todo>>

\* The last dump is complete: no notifyChanges() either.
EndEnumeration ==
    /\ AtEnd
    /\ phase = "enumerating"
    /\ phase' = "waiting" /\ skipped' = TRUE
    /\ IF caller = "enumerate"
       THEN pc' = "user" /\ caller' = "none"
       ELSE pc' = "idle" /\ UNCHANGED caller
    /\ UNCHANGED <<remaining, todo>>

\* The tracker notifyChanges() is at: m_trackers is ordered by index.
At(i) == /\ pc = "notify"
         /\ i \in remaining
         /\ \A j \in remaining : i <= j

Deliver(i, s) ==
    /\ At(i) /\ s \in todo
    /\ IF i \in subs[s] /\ trackers[i].changed # {}
       THEN Callback(s, Told(client[s], i, trackers[i]))
       ELSE todo' = todo \ {s} /\ called' = {} /\ UNCHANGED <<client, fault>>
    /\ InLoop

\* Mutant: the flags are cleared although subscribers are still to be told.
NextTrackerEarly(i) ==
    /\ At(i)
    /\ trackers' = [trackers EXCEPT ![i] = ClearChangedFlags(@)]
    /\ Visit(remaining \ {i})
    /\ called' = {}
    /\ UNCHANGED <<tracked, subs, client, phase, caller, pc, cur, pend, skipped,
                   fault, messages>>

\* Every subscriber has been told about tracker i.
NextTracker(i) ==
    /\ At(i) /\ todo = {}
    /\ trackers' = [trackers EXCEPT ![i] = ClearChangedFlags(@)]
    /\ Visit(remaining \ {i})
    /\ called' = {}
    /\ UNCHANGED <<tracked, subs, client, phase, caller, pc, cur, pend, skipped,
                   fault, messages>>

FinishRound ==
    /\ pc = "notify" /\ remaining = {}
    /\ pc' = "idle" /\ skipped' = FALSE
    /\ UNCHANGED <<cache, subs, client, phase, caller, loop, todo, called, fault,
                   messages>>

-----------------------------------------------------------------------------

UserCall == \/ \E s \in Subscribers, intfs \in SUBSET Indices :
                    \/ Subscribe(s, intfs)
                    \/ UpdateSubscription(s, intfs)
            \/ \E s \in Subscribers : Unsubscribe(s)
            \/ EnumerateInterfaces
            \/ Run

Message == \E i \in Indices :
                \/ \E m \in LinkMessages : KnownLink(i, m) \/ NewLink(i, m)
                \/ DelLink(i)
                \/ \E a \in Address, l \in Labels :
                        NewAddress(i, a, l) \/ DelAddress(i, a, l)
                \/ \E g \in Gateways : NewRoute(i, g)
                \/ DelRoute(i)

\* What the monitor does by itself once it has received a datagram.
Proceed == \/ \E s \in Subscribers : CallAdded(s) \/ CallRemoved(s)
           \/ FinishLink
           \/ FinishDelLink
           \/ EndDatagram
           \/ \E i \in Indices : \/ \E s \in Subscribers : Deliver(i, s)
                                 \/ NextTracker(i)
           \/ FinishRound

Next == /\ fault = "none"
        /\ \/ UserCall
           \/ ReceiveDatagram
           \/ Message
           \/ Proceed
           \/ EndWithRetry
           \/ EndEnumeration

Spec == Init /\ [][Next]_vars

\* Once a datagram is there, the monitor's thread keeps working on it.
FairSpec == Spec /\ WF_vars(fault = "none" /\ Proceed)

-----------------------------------------------------------------------------
(* The monitor is a change feed.                                           *)

Picture(c, i) == IF i \in c.known THEN {c.view[i]} ELSE {}

Feed == INSTANCE ChangeFeed
            WITH Sources   <- Indices,
                 Receivers <- Clients,
                 current   <- [i \in Indices |-> IF i \in tracked
                                                 THEN {trackers[i].value} ELSE {}],
                 follows   <- [s \in Clients |-> subs[s]],
                 picture   <- [s \in Clients |-> [i \in Indices |->
                                                    Picture(client[s], i)]],
                 quiet     <- pc = "idle" /\ ~skipped

\* Every step of the monitor is one of the feed: a subscriber's picture of an
\* interface is only ever replaced by the whole state of the tracker, whichever
\* callbacks are made and whatever they call.
IsChangeFeed == Feed!Spec

-----------------------------------------------------------------------------

\* Every variable has its type, and the loop variables fit the place the
\* monitor is at.
TypeOK ==
    /\ tracked \subseteq Indices
    /\ trackers = [i \in Indices |-> trackers[i]]
    /\ \A i \in Indices : IsTracker(trackers[i])
    /\ subs \in [Subscribers -> SUBSET Indices]
    /\ client = [s \in Subscribers |-> client[s]]
    /\ \A s \in Subscribers : IsClient(client[s])
    /\ phase \in {"enumerating", "waiting"}
    /\ caller \in {"none", "enumerate", "run"}
    /\ pc \in {"user", "idle", "dispatch", "added", "removed", "notify"}
    /\ cur \in Indices \cup {0}
    /\ pend \in LinkMessages \cup {NoMessage}
    /\ remaining \subseteq tracked
    /\ todo \subseteq Present
    /\ called \in {{}} \cup {{s} : s \in Clients}
    /\ pc \in {"user", "idle", "dispatch"} => todo = {} /\ called = {}
    /\ remaining = {} /\ pc = "notify" => todo = {} /\ called = {}
    /\ skipped \in BOOLEAN
    /\ fault \in {"none", "null", "iterator"}
    /\ messages \in 0 .. MaxMessages

\* What c has been told about interface i can differ from the cache only where
\* a change flag is raised.
Fresh(c, i) == \A f \in ChangedFlag \ trackers[i].changed :
                    c.view[i][f] = trackers[i].value[f]

UpToDate(s, i) == client[s].view[i] = trackers[i].value

\* onInterfaceAdded(cur) has still to be called for s.
Unannounced(s, i) == pc = "added" /\ i = cur /\ s \in todo

\* No change is lost: what a subscriber has been told about an interface it
\* subscribed to differs from the cache only where a change flag is raised, so
\* that the next round tells it.  (The flags are shared by all subscribers and
\* cleared once per tracker, subscriptions come and go between two callbacks.)
NoLostNotification ==
    \A s \in Clients : \A i \in subs[s] \cap tracked :
        Unannounced(s, i) \/ Fresh(client[s], i)

\* A subscriber knows an interface before it is told about its changes.
KnownBeforeChanges ==
    \A s \in Clients : \A i \in subs[s] \cap tracked :
        Unannounced(s, i) \/ i \in client[s].known

\* No subscriber keeps an interface that has left the cache: all of them hear
\* of the removal before the next message is handled.
NoGhostInterface ==
    \A s \in Clients : \A i \in client[s].known \ tracked :
        pc = "removed" /\ i = cur /\ s \in todo

\* While the monitor waits for the next datagram every subscriber is up to
\* date about every interface it subscribed to, unless the last datagrams were
\* the ones whose end skips notifyChanges().
QuietMeansDelivered ==
    pc = "idle" /\ ~skipped =>
        \A s \in Clients : \A i \in subs[s] \cap tracked : UpToDate(s, i)

\* At last the callbacks stop putting subscribers back into m_subscribers that
\* are not in it.  Without that two subscribers that unsubscribe and subscribe
\* each other in their callbacks can keep a loop over the map from its end, since
\* a new node may always come after the one the loop stands on.
CallbacksSettle ==
    <>[][\A s \in Subscribers :
            called # {} /\ subs[s] = {} => subs'[s] = {}]_vars

\* After the enumeration every change of a datagram reaches every subscriber
\* of the interface, if it stays one and the interface stays, and if the
\* callbacks settle.
ChangeIsDelivered ==
    CallbacksSettle =>
        \A s \in Clients, i \in Indices :
            phase = "waiting" /\ pc = "dispatch" /\ i \in subs[s] \cap tracked
                ~> i \notin subs[s] \cap tracked \/ UpToDate(s, i)
=============================================================================
