---------------------------- MODULE DumpProtocol ----------------------------
(***************************************************************************)
(* The conversation of NetworkMonitor with the kernel: three dump requests *)
(* (links, addresses, routes) whose replies fill the cache, then change    *)
(* notifications for ever.  Replies and notifications share one socket     *)
(* queue.  A reply can fail, and the request is then repeated with a new   *)
(* sequence number after the queue has been drained; the client can call   *)
(* stop() from any callback and enumerateInterfaces() from those of        *)
(* notifyChanges().                                                        *)
(*                                                                         *)
(* The kernel's side and mnl_cb_run are external: they are modelled from   *)
(* how the monitor uses them.  What an interface has is abstracted to      *)
(* facts: it exists, it has its IPv4 address, it has its gateway.          *)
(***************************************************************************)
EXTENDS Naturals, Sequences

CONSTANTS
    Links,          \* the network interfaces there can be
    NonBlocking,    \* RuntimeFlag::NonBlocking
    Foreign,        \* may a notification carry another program's seq
    Interrupts,     \* may the kernel mark a dump as interrupted by a change
    StopStates,     \* the cache states in which a client may call stop()
    MaxNesting,     \* bound on the depth of enumerateInterfaces() calls that
                    \* are made in callbacks; 0 if callbacks make none
    SeqModulus,     \* 2^32 in the code: sequence numbers wrap here
    QueueBound,     \* notifications the socket's buffer has room for
    Initially,      \* the facts there can be when the monitor starts
    MaxEvents       \* bound on the changes of the network in a run

Class == {"links", "addresses", "routes"}
CacheState == Class \cup {"waiting"}
Fact == Class \X Links

ASSUME DumpAssumption ==
    /\ Links # {}
    /\ Initially \subseteq {F \in SUBSET Fact :
            \A f \in F : /\ <<"links", f[2]>> \in F
                         /\ f[1] = "routes" => <<"addresses", f[2]>> \in F}
    /\ {NonBlocking, Foreign, Interrupts} \subseteq BOOLEAN
    /\ MaxNesting \in Nat
    /\ StopStates \subseteq CacheState
    /\ SeqModulus \in Nat \ {0, 1}
    /\ QueueBound \in Nat \ {0}
    /\ MaxEvents \in Nat

VARIABLES
    facts,          \* what is so in the kernel
    queue,          \* the socket's receive queue, a sequence of datagrams
    dump,           \* the dump the kernel is working on
    overrun,        \* a notification was dropped; the next receive says so
    events,         \* changes of the network so far
    cache,          \* the facts in m_trackers
    cacheState,     \* m_cacheState
    sequenceNumber, \* m_sequenceNumber
    socket,         \* is m_mnlSocket open
    running,        \* m_running
    caller,         \* the call the program is in: "none", "enumerate", "run"
    standing,       \* innermost first, the trackers that the notifyChanges()
                    \* loops stand on whose callback is in enumerateInterfaces():
                    \* {link}, or {} once the tracker has been erased
    stale,          \* m_receiveBuffer holds another datagram than receiveResult
                    \* is the length of
    pc,             \* where the monitor is
    buffered,       \* sequence number of the datagram in m_receiveBuffer
    requested,      \* class of the request in m_sendBuffer
    whole           \* per class, the interfaces its last dump has covered

kernel  == <<facts, events>>
channel == <<queue, dump, overrun>>
request == <<sequenceNumber, requested, whole>>
frames  == <<caller, standing, stale>>
call    == <<socket, running, caller, standing, stale>>
vars    == <<facts, queue, dump, overrun, events, cache, cacheState,
             sequenceNumber, socket, running, caller, standing, stale, pc,
             buffered, requested, whole>>

FOREIGN == SeqModulus       \* a sequence number that is never ours

NoDump == [active |-> FALSE, class |-> "links", seq |-> 0, left |-> {},
           changed |-> FALSE]

Note(op, fact, seq) == [kind |-> "note", op |-> op, fact |-> fact, seq |-> seq]
Busy(seq) == [kind |-> "busy", seq |-> seq]

Init == /\ facts \in Initially
        /\ queue = <<>> /\ dump = NoDump /\ overrun = FALSE /\ events = 0
        /\ cache = {} /\ cacheState = "links" /\ sequenceNumber = 0
        /\ socket = TRUE /\ running = FALSE /\ caller = "none"
        /\ standing = <<>> /\ stale = FALSE
        /\ pc = "user" /\ buffered = 0 /\ requested = "links"
        /\ whole = [c \in Class |-> {}]

Enumerating == cacheState # "waiting"

-----------------------------------------------------------------------------
(* The kernel.                                                             *)

\* What an interface loses with a fact: its addresses go with the interface,
\* and a gateway with the address it is reached from.
Without(F, fact) ==
    CASE fact[1] = "links"     -> {f \in F : f[2] # fact[2]}
      [] fact[1] = "addresses" -> F \ {fact, <<"routes", fact[2]>>}
      [] fact[1] = "routes"    -> F \ {fact}

\* A multicast notification: lost when the receive buffer is full.
Multicast(note) ==
    IF Len(queue) < QueueBound
    THEN queue' = Append(queue, note) /\ UNCHANGED overrun
    ELSE overrun' = TRUE /\ UNCHANGED queue

\* The network changes, on its own or by another program's request, in which
\* case the notification carries that request's sequence number.
NetworkChanges(fact, seq) ==
    /\ socket
    /\ events < MaxEvents /\ events' = events + 1
    /\ \/ /\ fact \notin facts
          /\ fact[1] # "links" => <<"links", fact[2]>> \in facts
          /\ fact[1] = "routes" => <<"addresses", fact[2]>> \in facts
          /\ facts' = facts \cup {fact}
          /\ Multicast(Note("new", fact, seq))
       \/ /\ fact \in facts
          /\ facts' = Without(facts, fact)
          /\ Multicast(Note("del", fact, seq))
    /\ dump' = [dump EXCEPT !.changed = dump.active]
    /\ UNCHANGED <<cache, cacheState, request, call, pc, buffered>>

\* The next part of a dump, read from the kernel's tables as it is queued; the
\* last part may hold the end of the dump as well, or nothing else.
DumpPart(part, last) ==
    /\ dump.active
    /\ part \subseteq dump.left
    /\ IF last THEN part = dump.left ELSE part # {}
    /\ Len(queue) <= QueueBound
    /\ \E interrupted \in IF Interrupts /\ dump.changed THEN BOOLEAN ELSE {FALSE} :
          queue' = Append(queue,
            [kind |-> "part", seq |-> dump.seq, class |-> dump.class,
             part |-> part, facts |-> facts \cap ({dump.class} \X part),
             last |-> last, interrupted |-> interrupted])
    /\ dump' = IF last THEN NoDump ELSE [dump EXCEPT !.left = @ \ part]
    /\ UNCHANGED <<kernel, overrun, cache, cacheState, request, call, pc, buffered>>

-----------------------------------------------------------------------------
(* The handlers' effect on the cache.                                      *)

\* RTM_NEW...: an address or a route of an interface without a tracker is
\* discarded.
With(F, new) ==
    LET links == {f \in new : f[1] = "links"}
    IN  F \cup links \cup {f \in new : <<"links", f[2]>> \in F}

Handled(F, d) ==
    IF d.kind = "part"   THEN With(F, d.facts)
    ELSE IF d.op = "new" THEN With(F, {d.fact})
                         ELSE Without(F, d.fact)

\* Mutant: notifications are held to the last request's number for ever.
MismatchAlways(seq) == seq # 0 /\ sequenceNumber # 0 /\ seq # sequenceNumber

\* mnl_cb_run: the sequence number is checked before anything is handled; zero
\* on either side matches everything.
Mismatch(seq) == Enumerating /\ seq # 0 /\ sequenceNumber # 0 /\ seq # sequenceNumber

\* Mutant: the sequence number of a reply is not looked at.
ResultUnchecked(d) ==
    IF d.kind = "busy"           THEN "error"
    ELSE IF d.kind = "note"      THEN "ok"
    ELSE IF d.interrupted        THEN "error"
    ELSE IF d.last               THEN "stop"
                                 ELSE "ok"

\* Mutant: an interrupted dump counts as complete.
ResultInterruptedEnds(d) ==
    IF Mismatch(d.seq)                  THEN "error"
    ELSE IF d.kind = "busy"             THEN "error"
    ELSE IF d.kind = "note"             THEN "ok"
    ELSE IF d.interrupted \/ d.last     THEN "stop"
                                        ELSE "ok"

Result(d) ==
    IF Mismatch(d.seq)                         THEN "error"
    ELSE IF d.kind = "busy"                    THEN "error"
    ELSE IF d.kind = "note"                    THEN "ok"
    ELSE IF d.interrupted                      THEN "error"
    ELSE IF d.last                             THEN "stop"
                                               ELSE "ok"

\* Mutant: the check for zero is forgotten.
SequenceNumberZero(n) == (n + 1) % SeqModulus

NextSequenceNumber(n) ==
    IF (n + 1) % SeqModulus = 0 THEN 1 ELSE (n + 1) % SeqModulus

\* sendDumpRequest on an open socket that holds the datagrams q; the kernel
\* answers EBUSY while it is working on another dump for this socket.
Send(class, q, covered) ==
    LET seq == NextSequenceNumber(sequenceNumber)
    IN  /\ sequenceNumber' = seq /\ requested' = class
        /\ whole' = [covered EXCEPT ![class] = {}]
        /\ IF dump.active
           THEN queue' = Append(q, Busy(seq)) /\ UNCHANGED dump
           ELSE /\ queue' = q
                /\ dump' = [active |-> TRUE, class |-> class, seq |-> seq,
                            left |-> Links, changed |-> FALSE]

\* receiveAndProcess returns to a caller that has nothing left to wait for: to
\* the program, or to the callback whose loop of notifyChanges goes on from its
\* tracker, if that still exists.
Return(stillRunning) ==
    IF standing = <<>>
    THEN /\ IF caller = "enumerate"
            THEN pc' = "user" /\ caller' = "none"
            ELSE pc' = (IF stillRunning THEN "recv" ELSE "stopped") /\ UNCHANGED caller
         /\ stale' = FALSE /\ UNCHANGED standing
    ELSE /\ pc' = IF Head(standing) = {} THEN "dangling" ELSE "notify"
         /\ standing' = Tail(standing) /\ stale' = TRUE
         /\ UNCHANGED caller

-----------------------------------------------------------------------------
(* The program outside of the monitor.                                     *)

Enter(which) ==
    /\ pc = "user" /\ socket
    /\ caller' = which /\ pc' = "recv"
    /\ running' = (running \/ which = "run")
    /\ IF Enumerating THEN Send("links", queue, whole)
       ELSE UNCHANGED <<request, queue, dump>>
    /\ UNCHANGED <<kernel, overrun, cache, cacheState, socket, standing, stale,
                   buffered>>

\* With a complete cache enumerateInterfaces only reads it.  It does not ask
\* whether the socket is open.
EnumerateInterfaces ==
    /\ Enumerating
    /\ IF socket THEN Enter("enumerate")
       ELSE /\ pc = "user" /\ pc' = "misused"
            /\ UNCHANGED <<kernel, channel, cache, cacheState, request, call, buffered>>

Run == Enter("run")

\* enumerateInterfaces in a callback of notifyChanges about the interface link:
\* it receives until the cache is complete, while the loop that made the
\* callback waits for it to return.  (Which trackers have changed is not kept
\* here: the callback can be about any of those in the cache.)
Reenter(link) ==
    /\ pc = "notify" /\ socket /\ Enumerating
    /\ <<"links", link>> \in cache
    /\ Len(standing) < MaxNesting
    /\ standing' = <<{link}>> \o standing /\ stale' = FALSE
    /\ pc' = "recv"
    /\ Send("links", queue, whole)
    /\ UNCHANGED <<kernel, overrun, cache, cacheState, socket, running, caller, buffered>>

\* run after stop
RunStopped == /\ pc = "user" /\ ~socket
              /\ pc' = "stopped"
              /\ UNCHANGED <<kernel, channel, cache, cacheState, request, call,
                             buffered>>

CloseSocket == /\ cacheState \in StopStates
               /\ socket /\ socket' = FALSE /\ running' = FALSE
               /\ queue' = <<>> /\ dump' = NoDump /\ overrun' = FALSE

\* stop, called outside of the monitor or in a callback of notifyChanges.
Stop == /\ pc \in {"user", "notify"}
        /\ CloseSocket
        /\ UNCHANGED <<kernel, cache, cacheState, request, frames, pc, buffered>>

-----------------------------------------------------------------------------
(* receiveAndProcess and handleCallbackResult.                             *)

\* A datagram is received, and mnl_cb_run returns `result` for it.
Receive(result) ==
    /\ pc = "recv" /\ socket /\ ~overrun
    /\ queue # <<>> /\ Result(Head(queue)) = result
    /\ UNCHANGED <<kernel, overrun>>

\* RTM_DELLINK erases the tracker, whoever stands on it.
Erased(d) ==
    IF d.kind = "note" /\ d.op = "del" /\ d.fact[1] = "links"
    THEN [k \in DOMAIN standing |-> standing[k] \ {d.fact[2]}]
    ELSE standing

Covered(d) == IF d.kind = "part" THEN [whole EXCEPT ![d.class] = @ \cup d.part]
              ELSE whole

\* Mutant: a notification that arrives while enumerating is ignored.
ReceiveDataWhenWaiting ==
    /\ Receive("ok")
    /\ cache' = IF Head(queue).kind = "note" /\ Enumerating THEN cache
                ELSE Handled(cache, Head(queue))
    /\ whole' = Covered(Head(queue)) /\ buffered' = Head(queue).seq
    /\ standing' = Erased(Head(queue))
    /\ queue' = Tail(queue) /\ pc' = "notify"
    /\ UNCHANGED <<dump, cacheState, sequenceNumber, requested, socket, running,
                   caller, stale>>

\* MNL_CB_OK: the subscribers are notified next.
ReceiveData ==
    /\ Receive("ok")
    /\ cache' = Handled(cache, Head(queue))
    /\ whole' = Covered(Head(queue))
    /\ buffered' = Head(queue).seq
    /\ standing' = Erased(Head(queue))
    /\ queue' = Tail(queue)
    /\ pc' = "notify"
    /\ UNCHANGED <<dump, cacheState, sequenceNumber, requested, socket, running,
                   caller, stale>>

\* Mutant: the addresses are skipped.
FollowingSkips == [links |-> "routes", addresses |-> "routes"]

Following == [links |-> "addresses", addresses |-> "routes"]

\* MNL_CB_STOP, the end of a dump: the next one is requested, or the cache is
\* complete.  Nobody expects the end of a dump after that.
ReceiveEnd ==
    /\ Receive("stop")
    /\ cache' = Handled(cache, Head(queue))
    /\ buffered' = Head(queue).seq
    /\ IF cacheState \in {"links", "addresses"}
       THEN /\ cacheState' = Following[cacheState]
            /\ Send(Following[cacheState], Tail(queue), Covered(Head(queue)))
            /\ pc' = "notify" /\ UNCHANGED frames
       ELSE /\ queue' = Tail(queue) /\ whole' = Covered(Head(queue))
            /\ cacheState' = "waiting"
            /\ IF Enumerating THEN Return(running)
               ELSE pc' = "aborted" /\ UNCHANGED frames
            /\ UNCHANGED <<dump, sequenceNumber, requested>>
    /\ UNCHANGED <<socket, running>>

\* MNL_CB_ERROR with an errno that asks for a retry; fatal after enumeration.
ReceiveError ==
    /\ Receive("error")
    /\ queue' = Tail(queue)
    /\ pc' = IF Enumerating THEN "drain" ELSE "aborted"
    /\ UNCHANGED <<dump, cache, cacheState, request, call, buffered>>

\* Mutant: an overrun is fatal.
ReceiveNothingFatal ==
    /\ pc = "recv" /\ socket /\ overrun
    /\ overrun' = FALSE /\ pc' = "aborted"
    /\ UNCHANGED <<kernel, queue, dump, cache, cacheState, request, call, buffered>>

\* recvfrom returns -1, once after an overrun or, if the socket is non-blocking,
\* on an empty queue; the caller's loop goes on unless the cache is complete.
ReceiveNothing ==
    /\ pc = "recv" /\ socket
    /\ overrun \/ (NonBlocking /\ queue = <<>>)
    /\ overrun' = FALSE
    /\ IF Enumerating THEN UNCHANGED <<pc, frames>> ELSE Return(running)
    /\ UNCHANGED <<kernel, queue, dump, cache, cacheState, request, socket, running,
                   buffered>>

\* MNL_CB_STOP although nothing has ended: stop has been called, and the
\* messages that follow are not handled.
EndAfterStop(stillRunning) ==
    IF cacheState \in {"links", "addresses"}
    THEN pc' = "crashed" /\ UNCHANGED <<cacheState, frames>>
    ELSE cacheState' = "waiting" /\ Return(stillRunning)

\* stop in onInterfaceAdded or onInterfaceRemoved, after the messages `handled`
\* of the datagram.
StopWhileHandling(handled) ==
    /\ \E result \in {"ok", "stop"} : Receive(result)
    /\ LET d    == Head(queue)
           link == IF d.kind = "part" THEN d.class ELSE d.fact[1]
           all  == IF d.kind = "part" THEN d.facts ELSE {d.fact}
       IN  /\ link = "links"
           /\ handled \subseteq all /\ handled # {}
           /\ IF d.kind = "note" /\ d.op = "del"
              THEN cache' = Without(cache, d.fact)
              ELSE cache' = With(cache, handled) /\ ~(handled \subseteq cache)
           /\ buffered' = d.seq
           /\ IF handled # all \/ Result(d) = "stop"
              THEN EndAfterStop(FALSE)
              ELSE /\ pc' = "notify" /\ standing' = Erased(d)
                   /\ UNCHANGED <<cacheState, caller, stale>>
    /\ CloseSocket
    /\ UNCHANGED request

\* The loop of receiveAndProcess goes on with the next datagram.
GoesOn(next) == pc' = next /\ stale' = FALSE /\ UNCHANGED <<cacheState, caller, standing>>

\* Mutant: the next receive uses the socket stop has closed.
FinishNotifyUnchecked ==
    /\ pc = "notify"
    /\ GoesOn(IF socket THEN "recv" ELSE "crashed")
    /\ UNCHANGED <<kernel, channel, cache, request, socket, running, buffered>>

\* Mutant: after stop the monitor still waits for a datagram.
FinishNotifyWaits ==
    /\ pc = "notify"
    /\ GoesOn("recv")
    /\ UNCHANGED <<kernel, channel, cache, request, socket, running, buffered>>

\* Back from notifyChanges.  After a stop nothing is received, and the buffer
\* is run once more: with the next dump's number already it does not match.  If
\* a nested call has received into it, the old length may cut its first message
\* off: mnl_cb_run finds nothing then, now and whenever it is called again.
FinishNotify ==
    /\ pc = "notify"
    /\ \/ socket  /\ GoesOn("recv")
       \/ ~socket /\ stale /\ GoesOn("spinning")
       \/ ~socket /\ Mismatch(buffered) /\ GoesOn("crashed")
       \/ ~socket /\ ~Mismatch(buffered) /\ EndAfterStop(running)
    /\ UNCHANGED <<kernel, channel, cache, request, socket, running, buffered>>

\* retryLastDumpRequestWithNewSequenceNumber: first everything is discarded ...
Drain == /\ pc = "drain" /\ ~overrun /\ queue # <<>>
         /\ queue' = Tail(queue)
         /\ UNCHANGED <<kernel, dump, overrun, cache, cacheState, request, call,
                        pc, buffered>>

\* Mutant: the request is repeated before the failed dump is over.
RetryAtOnce == /\ pc = "drain"
               /\ overrun' = FALSE
               /\ Send(requested, queue, whole)
               /\ pc' = "recv"
               /\ UNCHANGED <<kernel, cache, cacheState, call, buffered>>

\* Mutant: the queue is drained and nothing is sent.
RetryUnsent == /\ pc = "drain"
               /\ overrun \/ (NonBlocking /\ queue = <<>> /\ ~dump.active)
               /\ overrun' = FALSE /\ pc' = "recv"
               /\ UNCHANGED <<kernel, queue, dump, cache, cacheState, request,
                              call, buffered>>

\* ... until recvfrom fails: with ENOBUFS, or on an empty queue with EAGAIN if
\* the socket is non-blocking.  (A receive makes the kernel continue its dump:
\* an empty queue means that there is none.)  Then the request is repeated.
Retry == /\ pc = "drain"
         /\ overrun \/ (NonBlocking /\ queue = <<>> /\ ~dump.active)
         /\ overrun' = FALSE
         /\ Send(requested, queue, whole)
         /\ pc' = "recv"
         /\ UNCHANGED <<kernel, cache, cacheState, call, buffered>>

-----------------------------------------------------------------------------

KernelStep == \E part \in SUBSET Links, last \in BOOLEAN : DumpPart(part, last)

MonitorStep == \/ ReceiveData
               \/ ReceiveEnd
               \/ ReceiveError
               \/ ReceiveNothing
               \/ FinishNotify
               \/ Drain
               \/ Retry

Next == \/ \E fact \in Fact, seq \in IF Foreign THEN {0, FOREIGN} ELSE {0} :
                NetworkChanges(fact, seq)
        \/ EnumerateInterfaces
        \/ Run
        \/ \E link \in Links : Reenter(link)
        \/ RunStopped
        \/ Stop
        \/ \E handled \in SUBSET Fact : StopWhileHandling(handled)
        \/ KernelStep
        \/ MonitorStep

Spec == Init /\ [][Next]_vars

\* The monitor's thread and the kernel's dump keep going; nobody has to change
\* the network, call stop, or enter the monitor.
FairSpec == Spec /\ WF_vars(MonitorStep) /\ WF_vars(KernelStep)

-----------------------------------------------------------------------------
\* The cache is a replica of the kernel's facts: while the three dumps race the
\* network's changes, and ever after, what the monitor has still to receive is
\* exactly what the cache lacks.

Mirror == INSTANCE Replica
              WITH Apply     <- Handled,
                   source    <- facts,
                   replica   <- cache,
                   log       <- queue,
                   complete  <- ~Enumerating,
                   connected <- socket

IsReplica == Mirror!Spec

Datagram ==
    [kind : {"note"}, op : {"new", "del"}, fact : Fact, seq : {0, FOREIGN}]
    \cup [kind : {"busy"}, seq : 1 .. SeqModulus - 1]
    \cup [kind : {"part"}, seq : 1 .. SeqModulus - 1, class : Class,
          part : SUBSET Links, facts : SUBSET Fact, last : BOOLEAN,
          interrupted : BOOLEAN]

\* Every variable has its type.
TypeOK ==
    /\ facts \subseteq Fact /\ cache \subseteq Fact
    /\ queue \in Seq(Datagram)
    /\ dump \in [active : BOOLEAN, class : Class, seq : 0 .. SeqModulus - 1,
                 left : SUBSET Links, changed : BOOLEAN]
    /\ overrun \in BOOLEAN /\ events \in 0 .. MaxEvents
    /\ cacheState \in CacheState
    /\ sequenceNumber \in 0 .. SeqModulus - 1
    /\ socket \in BOOLEAN /\ running \in BOOLEAN
    /\ caller \in {"none", "enumerate", "run"}
    /\ pc \in {"user", "recv", "notify", "drain", "stopped", "crashed",
              "misused", "aborted", "dangling", "spinning"}
    /\ standing \in Seq(SUBSET Links) /\ stale \in BOOLEAN
    /\ buffered \in 0 .. SeqModulus /\ requested \in Class
    /\ whole \in [Class -> SUBSET Links]

\* No reply, late, interrupted or out of sequence, and no notification makes
\* the monitor give up (the two pfatal calls of handleCallbackResult that are
\* about an unexpected result).
NeverAborts == pc # "aborted"

\* The closed socket is never used: whenever stop is called, the loops that it
\* interrupts come to their end without sending or receiving.
NoUseAfterStop == pc # "crashed"

\* sendDumpRequest's note: "only one such request can be in progress until the
\* reply is received".  The one exception is the retry whose drain loop was cut
\* short by an overrun; the kernel refuses its request (EBUSY).
OneDumpAtATime ==
    [][dump.active /\ sequenceNumber' # sequenceNumber => overrun]_vars

\* A cache state is left only when a dump of its class has been handled from
\* its first part to its last one, however often it had to be repeated.
EnumerationIsWhole ==
    \A c \in Class :
        \/ whole[c] = Links
        \/ cacheState = c
        \/ cacheState = "links"
        \/ cacheState = "addresses" /\ c = "routes"

\* The cache is what the kernel says when everything has been received.
CacheMirrorsKernel ==
    socket /\ cacheState = "waiting" /\ queue = <<>> /\ ~overrun => cache = facts

\* An enumeration that has begun comes to its end.
EnumerationCompletes == pc = "recv" ~> cacheState = "waiting"

\* However the requests, the replies and the retries of nested calls mix, the
\* enumeration comes to its end, unless a loop over m_trackers has gone on from a
\* tracker that a nested call has erased before.
NestedEnumerationCompletes ==
    pc = "recv" ~> cacheState = "waiting" \/ pc = "dangling"

\* After stop the monitor returns to the program.
StopReturns == ~socket /\ pc # "user" ~> pc \in {"user", "stopped"}
=============================================================================
