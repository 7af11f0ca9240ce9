# Verification of monkas

monkas is a C++ library that watches the network interfaces of a Linux host
through rtnetlink.  A `NetworkMonitor` dumps links, addresses and routes, keeps
one `NetworkInterfaceStatusTracker` per interface in a cache, follows the
kernel's change notifications, and calls back the subscribers of an interface
about what changed.  This directory holds TLA+ modules of that behaviour, the
TLC configurations that check them on small instances, and TLAPS proofs of the
central properties for all instances.

Paths such as `NetworkMonitor.cpp` stand for `src/src/monitor/NetworkMonitor.cpp`
and so on; PROJECT.json maps every definition to its lines.

## The system

| Component | State | Operations | Correct when |
|---|---|---|---|
| Status tracker (`NetworkInterfaceStatusTracker.cpp/.hpp`) | seven attributes, the set of change flags, counters | setters, `addNetworkAddress`, `removeNetworkAddress`, `clearGatewayAddress`, `clearFlag`, `clearChangedFlags` | no change hides behind a clear flag; the gateway goes with the last IPv4 address; the counters balance |
| Message handlers and cache (`NetworkMonitor.cpp` 334-521) | `m_trackers` | `parseLinkMessage`, `parseAddressMessage`, `parseRouteMessage`, `ensureNameCurrent` | an interface is announced before its changes and its removal reaches all |
| Subscriptions and notification (`NetworkMonitor.cpp` 110-155, 557-627) | `m_subscribers` | `subscribe`, `updateSubscription`, `unsubscribe`, `notifyChanges` (three overloads), `notifyInterfaceAdded`, `notifyInterfaceRemoved` | every change reaches every subscriber, whatever the callbacks do to the subscriptions |
| Enumeration (`NetworkMonitor.cpp` 97-108, 157-323) | `m_mnlSocket`, `m_cacheState`, `m_sequenceNumber`, `m_running`, the two buffers | `enumerateInterfaces`, `run`, `stop`, `receiveAndProcess`, `handleCallbackResult`, `sendDumpRequest`, `retryLastDumpRequestWithNewSequenceNumber` | no dump is skipped or taken for another, retries end, stop ends everything, the cache equals the kernel's state |
| Attribute parsing (`Attributes.cpp`) | a table of attributes | `parse`, typed getters | what is decoded is what the kernel has encoded |
| Address types, `Interface`, `FlagSet` | immutable values | comparison, classification, text | agreement with the RFC ranges; the order is total |
| Command line example (`examples/cli/main.cpp`) | the flags, one monitor after the other | `main` | it enumerates as often as it says and ends when it is told to |
| Statistics, logging | counters, output | - | - |

How they interact: everything runs on the thread that calls the monitor.
`run` and `enumerateInterfaces` loop over `receiveAndProcess`, which receives a
datagram into `m_receiveBuffer` and lets `mnl_cb_run` call
`mnlMessageCallback` per message; the handlers change trackers and may call
back subscribers in the middle of a datagram (a new or removed link).  The
result goes to `handleCallbackResult`, which moves the enumeration on, starts a
retry or gives up, and otherwise `notifyChanges()` tells the subscribers what
the change flags say and clears the flags.  Subscribers may call the API from
any callback.  The other party is the kernel: replies and change notifications
share the socket's queue.

What is hard about it:

- callbacks re-enter the monitor while it iterates over its own containers;
- the change flags are shared by all subscribers and cleared once, while
  subscriptions come and go between two callbacks;
- notifications race the three dumps, and a reply can be interrupted, late,
  refused (EBUSY), or mixed with notifications that carry another program's
  sequence number;
- the buffer can overrun, the retry discards what is queued, and the socket is
  blocking by default;
- `enumerateInterfaces` may be called from a callback of an enumeration, and the
  end of a dump is attributed to the cache state and not to the request;
- the kernel's messages say less than what happened: addresses are updated in
  place, routes vanish silently (with an address, or when the link is set down),
  labels look like names;
- `MNL_CB_STOP` means two things: the end of a dump, and a call of `stop`.

PROJECT.json lists each of these hazards at its line with the property that
covers it, or the reason why none does yet.

## The modules

| Module | What it is |
|---|---|
| `TrackerOps` | the tracker's methods as operators on a tracker record; no state |
| `StatusTracker` | one tracker under every sequence of calls, with a reader that follows the flags |
| `MessageHandlers` | what the message handlers do to a tracker; no state; EXTENDS `TrackerOps` |
| `SubscriberNotification` | the cache and the subscribers, callback by callback; EXTENDS `MessageHandlers` |
| `ChangeFeed` | abstract: what a subscriber is promised; `SubscriberNotification` implements it |
| `CacheAccuracy` | the cache of one interface against a kernel that changes it; EXTENDS `MessageHandlers` |
| `DumpProtocol` | the monitor's conversation with the kernel, datagram by datagram |
| `Replica` | abstract: loading a replica and replaying a log; `DumpProtocol` implements it on a calm channel |
| `AddressTypes` | `ip::Address`: bytes, classes, order, and the networks of the RFCs as the reference |
| `AddressMessage` | from the kernel's address through the attribute table to a `network::Address`; EXTENDS `AddressTypes` |
| `Cli` | `main` of the command line example |
| `MC...` | values for TLC (`Cli` needs none) |
| `TrackerOps_proofs` | what the tracker's methods preserve and what they change; the other proofs rest on it |
| `StatusTracker_proofs`, `SubscriberNotification_proofs`, `CacheAccuracy_proofs`, `DumpProtocol_proofs`, `Replica_proofs`, `AddressMessage_proofs`, `Cli_proofs` | the theorems about the module they are named for, with their lemmas; `Replica_proofs` EXTENDS `DumpProtocol_proofs` |

Operators called "Mutant" in a comment are not part of any specification: each is
a variant of the definition that follows it with a plausible bug, and shows that
the property PROJECT.json pairs it with depends on that definition.

### TrackerOps and StatusTracker

A tracker is a record: `value` maps each `ChangedFlag` to the attribute it
announces, `changed` is `m_changedFlags`, `nerdstats` the counters.  The other
members (`m_lastChanged`, the counter of flag checks, which const getters move)
influence nothing.  A value is opaque; what the code asks of one is equality,
the family of an address, and whether an ethernet address is all zeroes.  Kept
as the code has it: `SetEthernet` announces an all-zero address even when
nothing changes, `ClearGatewayAddress` stores `AnyAddress` (0.0.0.0) and not
"none", and two addresses that differ in their flags only are two entries.
`WellFormed` is the type of the state; `TypeOK` adds that a gateway that is
flagged is never "none", which is what `clearGatewayAddress` stores 0.0.0.0 for.

`seen` is a history variable: what a reader has seen that looks at an attribute
only if its flag is raised, just before the flag is cleared.

### SubscriberNotification and ChangeFeed

`pc` says where the monitor is: outside ("user"), waiting ("idle"), between two
messages ("dispatch"), or in one of the loops over `m_subscribers` ("added",
"removed", "notify").  One action is one message handler, one callback, or the
step from one tracker to the next.  A datagram is any number of messages.

`todo` are the subscribers the loop has still to visit (the order of an
unordered map is any order), `remaining` the trackers of the round in index
order.  `client[s]` records what the callbacks have told `s`.  `called` is
`{s}` from a callback of `s` until the loop goes on: meanwhile `s` may make any
number of calls of `subscribe`, `updateSubscription` and `unsubscribe`, for
itself or for others, each an action of its own (the same three actions as for
the program outside of the monitor).  The several callbacks of one
`notifyChanges(subscriber, intf, tracker)` are one step: the tracker does not
change between them, so that a call from any of them has the effect of a call
from the last.  Interfaces are compared by index, so subscriptions are sets of
indices.

Iterating over an `std::unordered_map` that is modified: an erased node is never
visited; a new one may or may not be; an insertion may rehash the map, and
erasing the node the loop stands on invalidates it at once.  The last two are
`fault = "iterator"`.  No document allows or forbids either: the run notification
and the proofs admit them (`MayInvalidate`), and no property is stated that
excludes them; the run of progress does without, since nothing happens after a
fault.  A null subscriber, which only `subscribe` accepts, is `fault = "null"`
when it is called.  The program stops at a fault, and the safety properties
hold up to it.

Enumeration appears here only as far as it matters for notifications: some
datagrams end without a round (`EndWithRetry`, `EndEnumeration`), which
`skipped` remembers.

`ChangeFeed` says what all this is for, without messages, flags, loops or
callbacks: receivers with a picture of the sources they follow, replaced only
as a whole and only by the state of that moment, up to date at once after a
(re)subscription, and up to date whenever the feed is quiet.  `IsChangeFeed` is
the refinement: a source's state is the tracker's `value`, a picture is
`client[s].view`, quiet is waiting for a datagram with nothing skipped.

### CacheAccuracy

The kernel's side is an environment: an interface with addresses and routes
that change, each change sending the messages the handlers are written for.
What the messages do not say is the point: an address that is updated in place
is announced in its new form only; the IPv4 routes go without an RTM_DELROUTE when
the link is set down while its addresses stay, when the address they prefer as
their source goes, and when the last IPv4 address goes (`Flush`, `AddressRemoved`,
`LinkGoes`); a deleted route does not say which one is left; a label is the
interface's name unless an alias was given.  Messages arrive in order and none
is lost.  `superseded`, `flushed` and `undone` are history variables of the kernel
that bound how inaccurate the cache may be.

The code is less accurate than its users may expect, and the properties bound
how: the shown name can be an alias (`LinkIsCurrent`); a former form of
an address can linger and keep the gateway alive (`OnlySupersededLinger`,
`ShownGatewayIsRoute`); the gateway of a route that was flushed silently is shown
until the next message about a route, or until the last IPv4 address goes
(`ShownGatewayIsRoute`); the gateway can be one of any route although a tracker
prints "default via"; and the deletion of any route clears it, whichever gateway the
others have (`GatewayMissesOnlyAfterDeletion`).

### DumpProtocol and Replica

The kernel's state is a set of facts (an interface exists, has its address, has
its gateway), `cache` the facts in `m_trackers`.  `queue` is the socket's
receive queue: parts of dumps, refusals (`Busy`), notifications.  The kernel
works on one dump per socket, reads its tables part by part, marks a part as
interrupted if the tables changed since the dump began, and drops notifications
when the buffer is full.  The kernel and `mnl_cb_run` (`Result`, `Mismatch`)
are external, modelled from how the monitor uses them.

The monitor's side follows `receiveAndProcess` step by step: `ReceiveData`,
`ReceiveEnd`, `ReceiveError` are the three results of `mnl_cb_run` together
with all of `handleCallbackResult`; `ReceiveNothing` is a failed receive (an
overrun, or an empty queue on a non-blocking socket); `FinishNotify` is the
return from `notifyChanges()`, with the second run over the old buffer after a
`stop`; `Drain` and `Retry` are the retry, which repeats the request that is
in `m_sendBuffer` (`requested`).  `stop` may be called in a callback of
`notifyChanges` (`Stop`) or in the middle of a datagram (`StopWhileHandling`).
`Reenter` is `enumerateInterfaces` from a callback of `notifyChanges`, up to
`MaxNesting` calls deep.  `standing` keeps for each of these calls the tracker that
the loop of `notifyChanges` it was made from stands on; RTM_DELLINK removes it
there (`Erased`), and a nested call that returns to a loop without its tracker is
the state "dangling", where the code has a dangling reference and an invalid
iterator.  After a nested call `m_receiveBuffer` holds another datagram than
`receiveResult` is the length of (`stale`): harmless as long as the loop receives
again, but after a `stop` it runs the buffer once more and, since the old length can
cut the first message off, may find nothing to stop at for ever ("spinning").
`whole` is a history variable: the interfaces the last dump of each class has
covered.  The two pfatal calls for an unexpected result lead to "aborted", a
use of the closed socket leads to "crashed", `enumerateInterfaces` after `stop`
to "misused".

`Replica` is the abstract specification: every change of the source is logged,
the replica is loaded somehow while the source keeps changing, and once it is
complete, it and the rest of the log make up the source, entry by entry.
`IsReplica` maps the log to the socket's queue.

### AddressTypes and AddressMessage

The kernel (external) encodes an address as a header and attributes, which
`ParseAttribute` enters in the table in any order; `Decode` reads the table
through `Get`, which compares lengths, and makes the `network::Address`.
Addresses are sequences of bytes, so the length that tells the families apart
is the real one, and the predicates that classify the decoded address are the
code's tests of bytes and masks.  The reference is `InPrefix` with the prefixes
of the RFCs, by division instead of masks.  `BitAnd` writes out the `&` of two
bytes bit by bit, so that the provers can compute with it; `MaskAssumption` in
`MCAddressMessage` compares it with `&` of Bitwise for every byte and the two
masks of the code.

### Cli

`main` from the parsed flags on, one action per statement that matters.  Of the
monitor it uses only what the other modules show: `enumerateInterfaces` returns
what there is if nothing changes meanwhile, `subscribe` refuses an empty set, `run`
after `stop` returns at once.  `main` never sets `NonBlocking`, and its monitors have
the problem of the run dump_blocking_retry: a change of the network during a dump
(`dumping = "disturbed"`) can send `enumerateInterfaces` into the drain loop
("draining"), which only an overrun of the buffer ends.

## The runs

| Run | Configuration | Result | Shows |
|---|---|---|---|
| tracker | `StatusTracker.cfg` | holds | `TypeOK`, `UnflaggedMeansSeen`, `FlagsBalance`, `AddressesBalance`, `GatewayGoesWithLastIPv4` |
| notification | `SubscriberNotification.cfg` | holds | calls that invalidate the loop included, up to the fault: `TypeOK`, `NoLostNotification`, `KnownBeforeChanges`, `NoGhostInterface`, `QuietMeansDelivered`, and the refinement `IsChangeFeed` |
| progress | `NotificationProgress.cfg` | holds | `ChangeIsDelivered`, for three subscribers whose callbacks settle |
| cache_accuracy | `CacheAccuracy.cfg` | holds | `NothingIsMissing`, `OnlySupersededLinger`, `ShownGatewayIsRoute`, `GatewayMissesOnlyAfterDeletion`, `LinkIsCurrent` |
| dump_calm | `DumpCalm.cfg` | holds | blocking socket, no faults: `TypeOK`, `NoUseAfterStop`, `EnumerationIsWhole`, `CacheMirrorsKernel`, and the refinement `IsReplica` |
| dump_faults | `DumpFaults.cfg` | holds | non-blocking socket, interrupted dumps, foreign sequence numbers, overruns: `NeverAborts`, `EnumerationIsWhole`, `OneDumpAtATime`, `EnumerationCompletes`, `StopReturns` |
| dump_nested | `DumpNested.cfg` | holds | `enumerateInterfaces` from callbacks, two calls deep: `NestedEnumerationCompletes` |
| address_message | `AddressMessage.cfg` | holds | `DecodedIsGiven`, `EveryAttributeIsCounted`, `ClassesArePrefixes`, `ClassesAreDisjoint`, `OrderIsTotal` |
| cli | `Cli.cfg` | holds | `EnumeratesNTimes`, and `ExitsAfterEnumeration` unless a retry blocks |
| dump_blocking_retry | `DumpBlockingRetry.cfg` | violated | `EnumerationCompletes`: the drain loop blocks on a blocking socket |
| dump_stop_early | `DumpStopEarly.cfg` | violated | `NoUseAfterStop`: `stop` from a callback of the link dump |
| dump_drained | `DumpDrained.cfg` | violated | `CacheMirrorsKernel`: drained notifications are lost |

Every violated run is a disagreement of the code with one of its own comments,
quoted in PROJECT.json under "findings".  What else goes wrong has no run: it is
described with the hazards there, and can be seen by changing a configuration:

- `MaxNesting = 1` in `DumpDrained.cfg`, with `Interrupts = FALSE`, `SeqModulus = 7` and
  `MaxEvents = 0`, completes the cache without its addresses on a network that
  never changes;
- `pc # "dangling"` as an invariant of `DumpNested.cfg` is violated: a nested call
  handles the removal of the interface the outer callback is about;
- `Subscribers = {s1, Null}` in `SubscriberNotification.cfg` (without `SYMMETRY`)
  reaches `fault = "null"`: `subscribe` stores a null subscriber, and the next
  announcement calls it.

### Bounds

- `StatusTracker`: two values of every attribute, an IPv4 and an IPv6 address
  with two sets of attributes each, `MaxCalls = 6`: enough to add two addresses
  and a gateway, clear flags and remove both addresses in any order.  No call
  depends on more than one earlier value of each attribute.
- `SubscriberNotification`: `MaxMessages = 3`; two interfaces and two subscribers
  for safety, three subscribers of one interface for progress.  Two subscribers
  are what one callback needs to disturb another, three what two of them need to
  keep the loop from the third; three messages are an announcement, a change and
  a removal, or a removal and a new announcement of the same index.  The number
  of calls of the API is not bounded.  The subscribers are interchangeable
  (`SYMMETRY` of `s1` and `s2`, in the run of safety only: it checks no property
  with fairness).
- `CacheAccuracy`: one interface with two names and an alias, up or down, two IPv4
  addresses and an IPv6 one in two forms each, routes through two gateways that
  prefer either IPv4 address or none, six changes and up to two changes under way:
  enough for an address, its update, a second address, two routes and the removal
  or the silent flush of any of them.
- `DumpProtocol`: two interfaces, `MaxEvents` of 1 to 3 changes of the network,
  started with nothing but one link or with one complete interface.
  `SeqModulus` stands for 2^32: 3 makes the numbers wrap within one enumeration
  without a retry; with retries it is large enough that a number is not reused
  while a reply with it is queued, which 2^32 guarantees.  `QueueBound = 2` lets
  the buffer overrun when two datagrams are unread, 6 never.  `MaxNesting` is 0
  (callbacks do not enumerate) except in dump_nested, where it is 2: a call nested
  in a nested one is where frames return to frames.
- `AddressMessage`: two addresses of each family with every combination of
  attributes, and plain addresses on both sides of every boundary of a class,
  each compared with all the others.
- `Cli`: two interfaces, every number of enumerations up to five and the endless
  loop, a network that changes without bound, and a
  `uint32_t` of eight values, so that the endless loop wraps.
- The deadlock check is off everywhere: the bounds on messages and events end
  behaviours, and so do `stop`, faults, an idle network, a decoded message and
  the end of the program.

### Fairness

- `SubscriberNotification!FairSpec`: weak fairness of `Proceed`, what the
  monitor's own thread does between two receives.  Callbacks return; nobody has
  to send a message, call the API or subscribe.  The calls a callback makes are
  not part of `Proceed` and need not end on their own account: `Proceed` stays
  enabled during a callback, so that the loop goes on.  That is not enough for
  `ChangeIsDelivered`: a callback can put another subscriber, unsubscribed
  before, back into the map, where the loop may or may not come across it.  With
  three subscribers, two that unsubscribe and subscribe each other in their
  callbacks can keep the loop from the third for ever, and TLC shows it.  Nothing
  in the code prevents that, nor does the standard say where a new node goes; so the
  property assumes `CallbacksSettle`: from some time on no callback puts a
  subscriber into the map.  New subscriptions from outside of the callbacks, and
  updates and removals from within, may go on for ever.
- `DumpProtocol!FairSpec`: weak fairness of the monitor's thread and of the
  kernel's dump.  Network changes, `stop` and the program's calls may never come.
- `Cli!Spec`: weak fairness of `Main`.  The network may change for ever or never;
  an overrun, the only way out of "draining", need not come.

## The proofs

Every invariant, action property and refinement that a passing run checks, except
for `NoUseAfterStop`, is stated by a theorem as well, for every value of the
constants.  In each module
the argument has the same three steps, `Init => IInv`,
`IInv /\ [Next]_vars => IInv'` and `IInv => Property`, and the sections below say
what the inductive invariant adds to the property and why that is needed.

Constants are restricted only by the assumptions of the modules
(`ValueAssumption`, `CallsAssumption`, `NotificationAssumption`, `DumpAssumption`,
`CliAssumption`, `MessageAssumption`, `NoneAssumption`, ...), which TLC evaluates in
the runs, and by what is named with a theorem here.

### Tracker

`TrackerOps_proofs` shows for every operator that it keeps a tracker well formed,
that every attribute whose value changed is flagged afterwards (`Announced`), and
which attribute it sets to which value (`OnlySets`).

`StatusTracker_proofs`:

- `TrackerCorrect`: `Spec => [](WellFormed /\ UnflaggedMeansSeen)`; the
  conjunction is inductive, setters by `Announced`, the clearing calls by what the
  reader looks at.
- `TrackerTypes`: `Spec => []TypeOK`; on top of `WellFormed`, an operator that raises
  the gateway's flag has stored an address or 0.0.0.0, and no other touches it.
- `GatewayFollowsAddresses`: `Spec => GatewayGoesWithLastIPv4`; only a removal
  shrinks the addresses, and a removal that leaves no IPv4 address clears the
  gateway.
- `FlagsAreBalanced`, `AddressesAreBalanced`: `Balanced` is inductive.  `AssignEffect`
  is the heart: a flag is counted exactly when it is raised, whoever raises it.
  Both sets are finite (`CountedFinite`), so that their cardinalities move by one.

### Subscriptions

`SubscriberNotification_proofs`:

- `MonitorTypes`, `NothingIsLost`, `AnnouncedFirst`, `RemovalsReachEveryone`,
  `QuietIsUpToDate`: for every set of interfaces, subscribers and values, every
  bound, callbacks that invalidate the loop and null subscribers included (up to
  the fault).
- The inductive invariant `IInv` adds what they rest on.
  `AbsentKnowsNothing`: who is not in the map knows nothing, so that the set of
  subscribers at the beginning of a removal is everyone who knows the interface.
  `CacheShape`: the tracker that is being announced has its name only, so that
  the announcement leaves its receiver up to date.  `RoundShape`: the flags of the
  tracker a round is at are raised until everybody has been visited, who is then up
  to date.  `UserShape`: the program gets control only from a datagram that
  ended without a round.
- `MonitorIsChangeFeed`: `Spec => IsChangeFeed`, the refinement.  Initial states map
  to initial states; under `IInv` every message handler is a `Change` of one source
  or a stutter, every callback, call and end of a datagram is a `Hand`.  That a
  callback with the changed attributes only replaces the picture as a whole is
  `NothingIsLost`: what is not flagged is what the subscriber has already.

### The cache of one interface

`CacheAccuracy_proofs` (`CacheMissesNothing`, `OldFormsLinger`, `GatewayIsOfRoute`,
`GatewayOnlyMissesDeleted`, `LinkIsShown`), without further assumptions.

The properties are about a settled cache, one with nothing on its way; nothing
follows from that for the next message.  The invariant `QueueTells` is about any
queue: handling what is queued, message after message, will leave a cache that is
right for the kernel as it is now.  A message that is received is one handled
less, and a change of the kernel appends messages that bring such a cache to
the new state, which is shown once per message on what the handlers do to the
values.  A silent flush sends no message and only moves routes to `flushed`
(`FlushKeeps`).  "Handling what is queued" is not a recursive function: `Outcomes(W, q)` says
that `W` is the list of caches in between, and `QueueTells` speaks of every such
`W`, so that no induction over the queue is needed.

### The conversation with the kernel

`DumpProtocol_proofs` and `Replica_proofs`.

- `DumpTypes`: any constants, any client, nested enumerations included.
- `OneDump`, `WholeEnumeration`, `NoAbort` under `CalmClient` (stop only when waiting,
  no nested enumeration): `Spec /\ []Counted => ...`.  Interrupted dumps, refusals,
  foreign numbers, overruns and any number of retries are all allowed.
  `Counted` is what a reply needs that is told from an older one by its number only: if
  the buffer has overrun, then the network changes less often in the behaviour than
  there are sequence numbers (`MaxEvents + 2 <= SeqModulus`; 2^32 in the code).
  Without an overrun numbers may be reused at will.  Both kinds of instance are
  run: dump_faults has the numbers, dump_calm has no overrun and numbers that wrap.
- Their invariant `Inv`: `AgeInv`, how many requests old a reply under way can
  be, which is at most the number of changes, because a retry leaves nothing behind
  unless an overrun cut its draining short, and each overrun takes a change;
  `LastInv`, nothing of a dump follows its last part; `ClassInv`, what answers the
  last request is of its class; `CoverInv`, what an answer that is not
  discarded has not covered is still queued or still in the kernel;
  `ControlInv`, which cache state goes with which step of the loop.
- `CacheIsReplica`, `CacheMirrors`: under `CalmClient`,
  `Spec /\ []Undisturbed => IsReplica` and `=> []CacheMirrorsKernel`.  `Undisturbed` says
  that the buffer does not overrun and no request is repeated; the run dump_drained
  shows that after a retry they are false.  The replay of the queue over the cache
  (`ReplayInv`) is made of facts only, and has all those that a dump has read
  (`Done`, `Holds`).  Links are read before addresses before routes (`LinksFirst`),
  since the handlers ignore an address or a route of an unknown link.  `Replays`
  lists the caches in between; that `Replayed`, which `Replica` defines by recursion
  over the log, is the last of them takes the least index at which the two would
  differ instead of an induction (`ReplayedIs`).  The steps that change the queue
  map to steps of `Replica`, all others to stutters.
- `CalmIsUndisturbed`, `CalmCacheMirrors`: with `CalmKernel` (no dump is marked as
  interrupted, no notification has another program's number) nothing but an
  overrun disturbs, so that the hypothesis above is one about the buffer alone:
  `Spec /\ [](~overrun) => IsReplica /\ []CacheMirrorsKernel`.  This is the
  situation of dump_calm; the sequence numbers may wrap as often as they like.

### Addresses

`AddressMessage_proofs`.

- `MessagesAreDecoded`, `AttributesAreCounted`: for every set of given addresses.
  `TableInv` says what is in the table and what is still to be read, whatever the
  order.  `NoneAssumption` states that values the kernel can encode are not
  the marks for "absent".
- `PredicatesAreNetworks`, `AtMostOneClass`, `AddressesAreOrdered`, and
  `OrderIsTransitive`, which no run checks and std::set needs: lemmas about every
  sequence of 4 or 16 bytes, used on what is decoded.

### Command line example

`Cli_proofs`: `EnumeratesAsTold`, `EnumeratesNTimes` for every N and every width of the
counter.  `CountedDown`: unless the counter started at 0, it and the enumerations
so far add up to N, and it does not wrap.

### Model-checked only

- Liveness, which is out of the prover's reach: `ChangeIsDelivered`,
  `EnumerationCompletes`, `NestedEnumerationCompletes`, `StopReturns`,
  `ExitsAfterEnumeration`.
- `NoUseAfterStop`, for a client that stops a complete cache only; dump_stop_early
  shows that it fails for the others.
- `DumpProtocol` with nested enumerations, but for its types.
- That `BitAnd` is `&`, for every byte (Bitwise is recursive).

## Not modelled

- Text: `toString`, `fromString` and `operator<<` of the address types, of
  `FlagSet`, of the enumerations and of the nerd statistics; they are calls of
  `inet_ntop` and `inet_pton`, and tables of names.
- The predicates of `ethernet::Address` other than the all-zero test, which
  nothing in the library calls.
- `m_stats` except the two counters of attributes; logging; the parsing of the
  command line's flags.
- `enumerateInterfaces` from `onInterfaceAdded` or `onInterfaceRemoved`: it
  receives into the buffer that `mnl_cb_run` is still reading, and what the
  rest of the datagram is parsed as is not determined by the code.
- Callbacks that throw.
- Failures of socket calls other than an overrun, which abort the process.
- Malformed messages, which libmnl's parser rejects.
- Links that are not IEEE 802 are not handled at all without
  `RuntimeFlag::IncludeNonIeee802`; they are no `Message`.
- The unit tests and the vendored test framework.

## Plan

1. `IsReplica` and `CacheMirrorsKernel` after retries whose draining discards no
   notification, the exact complement of dump_drained: the replay of the queue has
   then to leave out the parts that will be drained.
2. Nested enumerations up to the first dangling tracker: which part of `ControlInv`
   survives them.
