------------------------- MODULE DumpProtocol_proofs -------------------------
(***************************************************************************)
(* The conversation with the kernel for any number of interfaces, any      *)
(* queue, and any number of repeated requests.                             *)
(***************************************************************************)
EXTENDS DumpProtocol, Integers, SequenceTheorems, TLAPS

-----------------------------------------------------------------------------
(* Datagrams and sequence numbers.                                         *)

\* What can be in the queue.
LEMMA DatagramKinds ==
    ASSUME NEW d \in Datagram
    PROVE  /\ d.kind \in {"note", "busy", "part"}
           /\ d.kind = "note" => /\ d.op \in {"new", "del"} /\ d.fact \in Fact
                                 /\ d.seq \in {0, FOREIGN}
           /\ d.kind = "busy" => d.seq \in 1 .. SeqModulus - 1
           /\ d.kind = "part" => /\ d.seq \in 1 .. SeqModulus - 1
                                 /\ d.class \in Class /\ d.part \subseteq Links
                                 /\ d.facts \subseteq Fact /\ d.last \in BOOLEAN
                                 /\ d.interrupted \in BOOLEAN
  BY DEF Datagram

\* A notification is a datagram.
LEMMA NoteType ==
    ASSUME NEW fact \in Fact, NEW op \in {"new", "del"}, NEW seq \in {0, FOREIGN}
    PROVE  Note(op, fact, seq) \in Datagram
  BY DEF Datagram, Note

\* A refusal is a datagram.
LEMMA BusyType ==
    ASSUME NEW seq \in 1 .. SeqModulus - 1
    PROVE  Busy(seq) \in Datagram
  BY DEF Datagram, Busy

\* The number after n, in a circle that leaves out 0.
LEMMA NextNumber ==
    ASSUME NEW n \in 0 .. SeqModulus - 1
    PROVE  /\ NextSequenceNumber(n) = IF n = SeqModulus - 1 THEN 1 ELSE n + 1
           /\ NextSequenceNumber(n) \in 1 .. SeqModulus - 1
<1>1. SeqModulus \in Nat /\ SeqModulus > 1
  BY DumpAssumption
<1>2. CASE n = SeqModulus - 1
  <2>1. (n + 1) % SeqModulus = 0
    BY <1>1, <1>2
  <2> QED BY <1>1, <1>2, <2>1 DEF NextSequenceNumber
<1>3. CASE n < SeqModulus - 1
  <2>1. (n + 1) % SeqModulus = n + 1
    BY <1>1, <1>3
  <2> QED BY <1>1, <1>3, <2>1 DEF NextSequenceNumber
<1> QED BY <1>1, <1>2, <1>3

-----------------------------------------------------------------------------
(* Every variable has its type.                                            *)

\* A dump the kernel works on answers a request that has been sent.
TypeInv == TypeOK /\ (dump.active => dump.seq # 0)

\* The handlers make facts of facts.
LEMMA HandledType ==
    ASSUME NEW F \in SUBSET Fact, NEW d \in Datagram, d.kind # "busy"
    PROVE  Handled(F, d) \subseteq Fact
<1>1. ASSUME NEW new \in SUBSET Fact PROVE With(F, new) \subseteq Fact
  BY <1>1 DEF With
<1>2. ASSUME NEW f \in Fact PROVE Without(F, f) \subseteq Fact
  <2>1. f[1] \in {"links", "addresses", "routes"}
    BY DEF Fact, Class
  <2> QED BY <2>1 DEF Without
<1>3. CASE d.kind = "part"
  BY <1>1, <1>3, DatagramKinds DEF Handled
<1>4. CASE d.kind = "note"
  <2>1. d.fact \in Fact
    BY <1>4, DatagramKinds
  <2> QED BY <1>1, <1>2, <1>4, <2>1 DEF Handled
<1> QED BY <1>3, <1>4, DatagramKinds

\* What Send leaves well formed.
LEMMA SendType ==
    ASSUME TypeInv, NEW class \in Class, NEW q \in Seq(Datagram),
           NEW covered \in [Class -> SUBSET Links], Send(class, q, covered)
    PROVE  /\ queue' \in Seq(Datagram)
           /\ dump' \in [active : BOOLEAN, class : Class, seq : 0 .. SeqModulus - 1,
                         left : SUBSET Links, changed : BOOLEAN]
           /\ dump'.active => dump'.seq # 0
           /\ sequenceNumber' \in 1 .. SeqModulus - 1
           /\ requested' \in Class
           /\ whole' \in [Class -> SUBSET Links]
<1> DEFINE seq == NextSequenceNumber(sequenceNumber)
<1>1. seq \in 1 .. SeqModulus - 1 /\ SeqModulus \in Nat
  BY NextNumber, DumpAssumption DEF TypeInv, TypeOK
<1> HIDE DEF seq
<1>2. /\ sequenceNumber' = seq /\ requested' = class
      /\ whole' = [covered EXCEPT ![class] = {}]
      /\ IF dump.active
         THEN queue' = Append(q, Busy(seq)) /\ UNCHANGED dump
         ELSE /\ queue' = q
              /\ dump' = [active |-> TRUE, class |-> class, seq |-> seq,
                          left |-> Links, changed |-> FALSE]
  BY DEF Send, seq
<1>3. Append(q, Busy(seq)) \in Seq(Datagram)
  BY <1>1, BusyType, AppendProperties
<1>4. whole' \in [Class -> SUBSET Links]
  BY <1>2
<1>5. CASE dump.active
  BY <1>1, <1>2, <1>3, <1>4, <1>5 DEF TypeInv, TypeOK
<1>6. CASE ~dump.active
  <2>1. /\ queue' = q
        /\ dump' = [active |-> TRUE, class |-> class, seq |-> seq,
                    left |-> Links, changed |-> FALSE]
    BY <1>2, <1>6
  <2>2. dump' \in [active : BOOLEAN, class : Class, seq : 0 .. SeqModulus - 1,
                   left : SUBSET Links, changed : BOOLEAN]
    BY <1>1, <2>1
  <2>3. dump'.seq # 0
    BY <1>1, <2>1
  <2> QED BY <1>1, <1>2, <1>4, <2>1, <2>2, <2>3
<1> QED BY <1>5, <1>6

\* What the kernel's side leaves well formed.
LEMMA KernelTypes ==
    ASSUME TypeInv,
           \/ \E fact \in Fact, seq \in {0, FOREIGN} : NetworkChanges(fact, seq)
           \/ KernelStep
    PROVE  TypeInv'
<1>0. MaxEvents \in Nat /\ SeqModulus \in Nat /\ SeqModulus > 1
  BY DumpAssumption
<1>1. ASSUME NEW fact \in Fact, NEW seq \in {0, FOREIGN}, NetworkChanges(fact, seq)
      PROVE  TypeInv'
  <2>1. facts' \subseteq Fact
    <3>1. Without(facts, fact) \subseteq Fact
      <4>1. fact[1] \in {"links", "addresses", "routes"}
        BY DEF Fact, Class
      <4> QED BY <4>1 DEF Without, TypeInv, TypeOK
    <3> QED BY <1>1, <3>1 DEF NetworkChanges, TypeInv, TypeOK
  <2>2. ASSUME NEW op \in {"new", "del"}, Multicast(Note(op, fact, seq))
        PROVE  queue' \in Seq(Datagram) /\ overrun' \in BOOLEAN
    <3>1. Note(op, fact, seq) \in Datagram
      BY <2>2, NoteType
    <3>2. Append(queue, Note(op, fact, seq)) \in Seq(Datagram)
      BY <3>1, AppendProperties DEF TypeInv, TypeOK
    <3> QED BY <2>2, <3>2 DEF Multicast, TypeInv, TypeOK
  <2>3. queue' \in Seq(Datagram) /\ overrun' \in BOOLEAN
    BY <1>1, <2>2 DEF NetworkChanges
  <2>4. events' \in 0 .. MaxEvents
    BY <1>0, <1>1 DEF NetworkChanges, TypeInv, TypeOK
  <2>5. /\ dump' \in [active : BOOLEAN, class : Class, seq : 0 .. SeqModulus - 1,
                      left : SUBSET Links, changed : BOOLEAN]
        /\ dump'.active => dump'.seq # 0
    BY <1>1 DEF NetworkChanges, TypeInv, TypeOK
  <2> QED BY <1>1, <2>1, <2>3, <2>4, <2>5
          DEF NetworkChanges, TypeInv, TypeOK, request, call
<1>2. ASSUME NEW part \in SUBSET Links, NEW last \in BOOLEAN, DumpPart(part, last)
      PROVE  TypeInv'
  <2>1. PICK interrupted \in BOOLEAN : queue' = Append(queue,
            [kind |-> "part", seq |-> dump.seq, class |-> dump.class,
             part |-> part, facts |-> facts \cap ({dump.class} \X part),
             last |-> last, interrupted |-> interrupted])
    BY <1>2 DEF DumpPart
  <2>2. /\ dump.active /\ dump.class \in Class /\ dump.seq \in 1 .. SeqModulus - 1
        /\ facts \cap ({dump.class} \X part) \subseteq Fact
    BY <1>0, <1>2 DEF DumpPart, TypeInv, TypeOK
  <2>3. [kind |-> "part", seq |-> dump.seq, class |-> dump.class,
         part |-> part, facts |-> facts \cap ({dump.class} \X part),
         last |-> last, interrupted |-> interrupted] \in Datagram
    BY <2>2 DEF Datagram
  <2>4. queue' \in Seq(Datagram)
    BY <2>1, <2>3, AppendProperties DEF TypeInv, TypeOK
  <2>5. /\ dump' \in [active : BOOLEAN, class : Class, seq : 0 .. SeqModulus - 1,
                      left : SUBSET Links, changed : BOOLEAN]
        /\ dump'.active => dump'.seq # 0
    BY <1>0, <1>2 DEF DumpPart, NoDump, TypeInv, TypeOK, Class
  <2> QED BY <1>2, <2>4, <2>5 DEF DumpPart, TypeInv, TypeOK, kernel, request, call
<1> QED BY <1>1, <1>2 DEF KernelStep

\* What is received is well formed, and so is what is left.
LEMMA ReceivedTypes ==
    ASSUME TypeInv, NEW result, Receive(result)
    PROVE  /\ Head(queue) \in Datagram /\ Tail(queue) \in Seq(Datagram)
           /\ Head(queue).seq \in 0 .. SeqModulus
           /\ result \in {"ok", "stop"} =>
                /\ Head(queue).kind # "busy"
                /\ Handled(cache, Head(queue)) \subseteq Fact
           /\ Covered(Head(queue)) \in [Class -> SUBSET Links]
           /\ UNCHANGED <<facts, events, overrun>>
<1>0. SeqModulus \in Nat /\ SeqModulus > 1
  BY DumpAssumption
<1>1. queue \in Seq(Datagram) /\ queue # <<>>
  BY DEF Receive, TypeInv, TypeOK
<1>2. Head(queue) \in Datagram /\ Tail(queue) \in Seq(Datagram)
  BY <1>1, HeadTailProperties
<1>3. Head(queue).seq \in 0 .. SeqModulus
  BY <1>0, <1>2, DatagramKinds DEF FOREIGN
<1>4. ASSUME result \in {"ok", "stop"}
      PROVE  Head(queue).kind # "busy" /\ Handled(cache, Head(queue)) \subseteq Fact
  <2>1. Head(queue).kind # "busy"
    BY <1>4 DEF Receive, Result
  <2> QED BY <1>2, <2>1, HandledType DEF TypeInv, TypeOK
<1>5. Covered(Head(queue)) \in [Class -> SUBSET Links]
  BY <1>2, DatagramKinds DEF Covered, TypeInv, TypeOK
<1> QED BY <1>2, <1>3, <1>4, <1>5 DEF Receive, kernel

\* The loops that wait for a nested call have their types, whatever is erased
\* under them and whichever of them goes on.
LEMMA FramesTypes ==
    ASSUME TypeInv
    PROVE  /\ \A d : Erased(d) \in Seq(SUBSET Links)
           /\ \A link \in Links : <<{link}>> \o standing \in Seq(SUBSET Links)
           /\ standing # <<>> => Tail(standing) \in Seq(SUBSET Links)
<1>1. standing \in Seq(SUBSET Links)
  BY DEF TypeInv, TypeOK
<1>2. ASSUME NEW d PROVE Erased(d) \in Seq(SUBSET Links)
  <2>1. PICK n \in Nat : standing \in [1 .. n -> SUBSET Links]
    BY <1>1
  <2>2. DOMAIN standing = 1 .. n
    BY <2>1
  <2> DEFINE left == [k \in DOMAIN standing |-> standing[k] \ {d.fact[2]}]
  <2>3. left \in [1 .. n -> SUBSET Links]
    BY <2>1, <2>2
  <2> HIDE DEF left
  <2>4. left \in Seq(SUBSET Links)
    BY <2>1, <2>3, SeqDef
  <2> USE DEF left
  <2> QED BY <1>1, <2>4 DEF Erased
<1>3. ASSUME NEW link \in Links PROVE <<{link}>> \o standing \in Seq(SUBSET Links)
  BY <1>1
<1>4. standing # <<>> => Tail(standing) \in Seq(SUBSET Links)
  BY <1>1, HeadTailProperties
<1> QED BY <1>2, <1>3, <1>4

\* Where the monitor can be after a return, and in which loops.
LEMMA ReturnTypes ==
    ASSUME TypeInv, NEW stillRunning, Return(stillRunning)
    PROVE  /\ pc' \in {"user", "recv", "notify", "stopped", "dangling"}
           /\ caller' \in {"none", "enumerate", "run"}
           /\ standing' \in Seq(SUBSET Links) /\ stale' \in BOOLEAN
  BY FramesTypes DEF Return, TypeInv, TypeOK

\* One step per action of the monitor and its client.
LEMMA NextTypes ==
    ASSUME TypeInv, [Next]_vars
    PROVE  TypeInv'
<1>0. SeqModulus \in Nat /\ SeqModulus > 1 /\ FOREIGN \in Nat
  BY DumpAssumption DEF FOREIGN
<1>1. ASSUME NEW fact \in Fact, NEW seq \in IF Foreign THEN {0, FOREIGN} ELSE {0},
             NetworkChanges(fact, seq)
      PROVE  TypeInv'
  <2>1. seq \in {0, FOREIGN}
    BY <1>1
  <2> QED BY <1>1, <2>1, KernelTypes
<1>2. CASE KernelStep
  BY <1>2, KernelTypes
<1>3. ASSUME NEW which \in {"enumerate", "run"}, Enter(which) PROVE TypeInv'
  <2>1. CASE Enumerating
    <3>1. Send("links", queue, whole)
      BY <1>3, <2>1 DEF Enter
    <3>2. queue \in Seq(Datagram) /\ whole \in [Class -> SUBSET Links] /\ "links" \in Class
      BY DEF TypeInv, TypeOK, Class
    <3> HIDE DEF TypeInv
    <3>3. /\ queue' \in Seq(Datagram)
          /\ dump' \in [active : BOOLEAN, class : Class, seq : 0 .. SeqModulus - 1,
                        left : SUBSET Links, changed : BOOLEAN]
          /\ dump'.active => dump'.seq # 0
          /\ sequenceNumber' \in 0 .. SeqModulus - 1
          /\ requested' \in Class
          /\ whole' \in [Class -> SUBSET Links]
      BY <1>0, <3>1, <3>2, SendType
    <3> QED BY <1>3, <3>3 DEF Enter, TypeInv, TypeOK, kernel
  <2>2. CASE ~Enumerating
    BY <1>3, <2>2 DEF Enter, TypeInv, TypeOK, kernel, request
  <2> QED BY <2>1, <2>2
<1>4. CASE EnumerateInterfaces
  BY <1>3, <1>4 DEF EnumerateInterfaces, TypeInv, TypeOK, kernel, channel, request, call
<1>5. CASE Run
  BY <1>3, <1>5 DEF Run
<1>6. ASSUME NEW link \in Links, Reenter(link) PROVE TypeInv'
  <2>1. Send("links", queue, whole)
    BY <1>6 DEF Reenter
  <2>2. queue \in Seq(Datagram) /\ whole \in [Class -> SUBSET Links] /\ "links" \in Class
    BY DEF TypeInv, TypeOK, Class
  <2>3. /\ queue' \in Seq(Datagram)
        /\ dump' \in [active : BOOLEAN, class : Class, seq : 0 .. SeqModulus - 1,
                      left : SUBSET Links, changed : BOOLEAN]
        /\ dump'.active => dump'.seq # 0
        /\ sequenceNumber' \in 0 .. SeqModulus - 1
        /\ requested' \in Class
        /\ whole' \in [Class -> SUBSET Links]
    BY <1>0, <2>1, <2>2, SendType
  <2>4. standing' \in Seq(SUBSET Links)
    BY <1>6, FramesTypes DEF Reenter
  <2> QED BY <1>6, <2>3, <2>4 DEF Reenter, TypeInv, TypeOK, kernel
<1>7. CASE RunStopped
  BY <1>7 DEF RunStopped, TypeInv, TypeOK, kernel, channel, request, call
<1>8. CASE Stop
  <2>1. <<>> \in Seq(Datagram) /\ NoDump \in
            [active : BOOLEAN, class : Class, seq : 0 .. SeqModulus - 1,
             left : SUBSET Links, changed : BOOLEAN]
    BY <1>0, EmptySeq DEF NoDump, Class
  <2> QED BY <1>8, <2>1 DEF Stop, CloseSocket, NoDump, TypeInv, TypeOK, kernel, request,
                            frames
<1>9. CASE \E handled \in SUBSET Fact : StopWhileHandling(handled)
  <2>1. PICK handled \in SUBSET Fact : StopWhileHandling(handled)
    BY <1>9
  <2>2. PICK result \in {"ok", "stop"} : Receive(result)
    BY <2>1 DEF StopWhileHandling
  <2>3. <<>> \in Seq(Datagram) /\ NoDump \in
            [active : BOOLEAN, class : Class, seq : 0 .. SeqModulus - 1,
             left : SUBSET Links, changed : BOOLEAN]
    BY <1>0, EmptySeq DEF NoDump, Class
  <2>4. cache' \subseteq Fact
    <3>1. With(cache, handled) \subseteq Fact
      BY DEF With, TypeInv, TypeOK
    <3>2. ASSUME Head(queue).kind = "note" PROVE Without(cache, Head(queue).fact) \subseteq Fact
      <4>1. Head(queue).fact \in Fact /\ Head(queue).fact[1] \in {"links", "addresses", "routes"}
        BY <2>2, <3>2, ReceivedTypes, DatagramKinds DEF Fact, Class
      <4> QED BY <4>1 DEF Without, TypeInv, TypeOK
    <3> QED BY <2>1, <3>1, <3>2 DEF StopWhileHandling
  <2>5. buffered' \in 0 .. SeqModulus
    BY <2>1, <2>2, ReceivedTypes DEF StopWhileHandling
  <2>6. /\ pc' \in {"user", "recv", "notify", "stopped", "crashed", "dangling"}
        /\ cacheState' \in CacheState
        /\ caller' \in {"none", "enumerate", "run"}
        /\ standing' \in Seq(SUBSET Links) /\ stale' \in BOOLEAN
    <3>1. \/ EndAfterStop(FALSE)
          \/ /\ pc' = "notify" /\ standing' = Erased(Head(queue))
             /\ UNCHANGED <<cacheState, caller, stale>>
      BY <2>1 DEF StopWhileHandling
    <3>2. CASE EndAfterStop(FALSE)
      BY <3>2, ReturnTypes DEF EndAfterStop, frames, CacheState, TypeInv, TypeOK
    <3>3. CASE /\ pc' = "notify" /\ standing' = Erased(Head(queue))
               /\ UNCHANGED <<cacheState, caller, stale>>
      BY <3>3, FramesTypes DEF TypeInv, TypeOK
    <3> QED BY <3>1, <3>2, <3>3
  <2>7. UNCHANGED <<facts, events, request>> /\ CloseSocket
    BY <2>1, <2>2, ReceivedTypes DEF StopWhileHandling
  <2> QED BY <2>3, <2>4, <2>5, <2>6, <2>7
          DEF CloseSocket, NoDump, TypeInv, TypeOK, request
<1>10. CASE ReceiveData
  <2>1. Receive("ok")
    BY <1>10 DEF ReceiveData
  <2> QED BY <1>10, <2>1, ReceivedTypes, FramesTypes DEF ReceiveData, TypeInv, TypeOK
<1>11. CASE ReceiveEnd
  <2>1. Receive("stop")
    BY <1>11 DEF ReceiveEnd
  <2>2. /\ Tail(queue) \in Seq(Datagram) /\ Handled(cache, Head(queue)) \subseteq Fact
        /\ Head(queue).seq \in 0 .. SeqModulus
        /\ Covered(Head(queue)) \in [Class -> SUBSET Links]
        /\ UNCHANGED <<facts, events, overrun>>
    BY <2>1, ReceivedTypes
  <2>3. CASE cacheState \in {"links", "addresses"}
    <3>1. /\ Following[cacheState] \in {"addresses", "routes"}
          /\ cacheState' = Following[cacheState]
          /\ Send(Following[cacheState], Tail(queue), Covered(Head(queue)))
          /\ pc' = "notify" /\ UNCHANGED <<caller, standing, stale, socket, running>>
          /\ cache' = Handled(cache, Head(queue)) /\ buffered' = Head(queue).seq
      BY <1>11, <2>3 DEF ReceiveEnd, Following, frames
    <3>2. Following[cacheState] \in Class /\ Following[cacheState] \in CacheState
      BY <3>1 DEF Class, CacheState
    <3>3. /\ queue' \in Seq(Datagram)
          /\ dump' \in [active : BOOLEAN, class : Class, seq : 0 .. SeqModulus - 1,
                        left : SUBSET Links, changed : BOOLEAN]
          /\ dump'.active => dump'.seq # 0
          /\ sequenceNumber' \in 0 .. SeqModulus - 1
          /\ requested' \in Class
          /\ whole' \in [Class -> SUBSET Links]
      <4> DEFINE class == Following[cacheState]
                 q == Tail(queue)
                 covered == Covered(Head(queue))
      <4>1. /\ class \in Class /\ q \in Seq(Datagram)
            /\ covered \in [Class -> SUBSET Links] /\ Send(class, q, covered)
        BY <2>2, <3>1, <3>2
      <4> HIDE DEF class, q, covered
      <4> QED BY <1>0, <4>1, SendType
    <3>4. /\ cacheState' \in CacheState /\ UNCHANGED <<caller, standing, stale, socket, running>>
          /\ pc' = "notify" /\ cache' \subseteq Fact /\ buffered' \in 0 .. SeqModulus
      BY <2>2, <3>1, <3>2
    <3> QED BY ONLY TypeInv, <2>2, <3>3, <3>4 DEF TypeInv, TypeOK
  <2>4. CASE cacheState \notin {"links", "addresses"}
    <3>1. /\ queue' = Tail(queue) /\ whole' = Covered(Head(queue))
          /\ cacheState' = "waiting"
          /\ UNCHANGED <<dump, sequenceNumber, requested, socket, running>>
          /\ cache' = Handled(cache, Head(queue)) /\ buffered' = Head(queue).seq
      BY <1>11, <2>4 DEF ReceiveEnd
    <3>2. /\ pc' \in {"user", "recv", "notify", "stopped", "aborted", "dangling"}
          /\ caller' \in {"none", "enumerate", "run"}
          /\ standing' \in Seq(SUBSET Links) /\ stale' \in BOOLEAN
      BY <1>11, <2>4, ReturnTypes DEF ReceiveEnd, frames, TypeInv, TypeOK
    <3> QED BY <2>2, <3>1, <3>2 DEF CacheState, TypeInv, TypeOK
  <2> QED BY <2>3, <2>4
<1>12. CASE ReceiveError
  <2>1. Receive("error")
    BY <1>12 DEF ReceiveError
  <2> QED BY <1>12, <2>1, ReceivedTypes DEF ReceiveError, TypeInv, TypeOK, call, request
<1>13. CASE ReceiveNothing
  BY <1>13, ReturnTypes DEF ReceiveNothing, frames, TypeInv, TypeOK, kernel, request
<1>14. CASE FinishNotify
  <2>1. /\ pc' \in {"user", "recv", "notify", "stopped", "crashed", "dangling", "spinning"}
        /\ cacheState' \in CacheState /\ caller' \in {"none", "enumerate", "run"}
        /\ standing' \in Seq(SUBSET Links) /\ stale' \in BOOLEAN
    BY <1>14, ReturnTypes
       DEF FinishNotify, GoesOn, EndAfterStop, frames, CacheState, TypeInv, TypeOK
  <2> QED BY <1>14, <2>1 DEF FinishNotify, TypeInv, TypeOK, kernel, channel, request
<1>15. CASE Drain
  <2>1. Tail(queue) \in Seq(Datagram)
    BY <1>15, HeadTailProperties DEF Drain, TypeInv, TypeOK
  <2> QED BY <1>15, <2>1 DEF Drain, TypeInv, TypeOK, kernel, call, request
<1>16. CASE Retry
  <2>1. Send(requested, queue, whole)
    BY <1>16 DEF Retry
  <2>2. queue \in Seq(Datagram) /\ whole \in [Class -> SUBSET Links] /\ requested \in Class
    BY DEF TypeInv, TypeOK
  <2>3. /\ queue' \in Seq(Datagram)
        /\ dump' \in [active : BOOLEAN, class : Class, seq : 0 .. SeqModulus - 1,
                      left : SUBSET Links, changed : BOOLEAN]
        /\ dump'.active => dump'.seq # 0
        /\ sequenceNumber' \in 0 .. SeqModulus - 1
        /\ requested' \in Class
        /\ whole' \in [Class -> SUBSET Links]
    BY <1>0, <2>1, <2>2, SendType
  <2> QED BY <1>16, <2>3 DEF Retry, TypeInv, TypeOK, kernel, call
<1>17. CASE UNCHANGED vars
  BY <1>17 DEF vars, TypeInv, TypeOK
<1> QED BY <1>1, <1>2, <1>4, <1>5, <1>6, <1>7, <1>8, <1>9, <1>10, <1>11, <1>12,
           <1>13, <1>14, <1>15, <1>16, <1>17 DEF Next, MonitorStep

\* The initial state has the types.
LEMMA InitTypes == Init => TypeInv
<1> SUFFICES ASSUME Init PROVE TypeInv
  OBVIOUS
<1>1. /\ facts \subseteq Fact /\ 0 \in 0 .. MaxEvents
      /\ 0 \in 0 .. SeqModulus - 1 /\ 0 \in 0 .. SeqModulus
  BY DumpAssumption DEF Init
<1>2. <<>> \in Seq(Datagram) /\ <<>> \in Seq(SUBSET Links)
  BY EmptySeq
<1>3. NoDump \in [active : BOOLEAN, class : Class, seq : 0 .. SeqModulus - 1,
                  left : SUBSET Links, changed : BOOLEAN]
  BY <1>1 DEF NoDump, Class
<1>4. [c \in Class |-> {}] \in [Class -> SUBSET Links]
  OBVIOUS
<1>5. TypeOK
  BY <1>1, <1>2, <1>3, <1>4 DEF Init, TypeOK, Class, CacheState
<1> QED BY <1>5 DEF Init, NoDump, TypeInv

\* Whatever arrives in whatever order, with any client: every datagram is one
\* of the three kinds, sequence numbers stay in their circle and are never 0
\* in a request, and no variable leaves its type.
THEOREM DumpTypes == Spec => []TypeOK
<1>1. TypeInv => TypeOK
  BY DEF TypeInv
<1> QED BY <1>1, InitTypes, NextTypes, PTL DEF Spec

-----------------------------------------------------------------------------
(* Replies and requests.                                                   *)
(*                                                                         *)
(* A reply is told from an older one by its number only, so everything     *)
(* depends on how old what is under way can be.  A retry leaves nothing    *)
(* behind unless an overrun has cut its draining short, and every overrun  *)
(* takes a change of the network.                                          *)

\* How many requests before the number n the number s was sent.
Age(n, s) == IF s <= n THEN n - s ELSE n - s + SeqModulus - 1

\* The request that the next retry adds although something is under way.
Lag == IF overrun THEN 1 ELSE 0

\* A part of the dump that was requested last.
Current(d) == d.kind = "part" /\ d.seq = sequenceNumber

\* There are enough sequence numbers for every change to make one old.
Enough == MaxEvents + 2 <= SeqModulus

\* Numbers matter only after an overrun, and then there are enough of them.
Counted == overrun => Enough

\* How old a reply can be.
Room == IF Enough THEN events ELSE 0

\* Each repetition since a reply was asked for has had a change of its own; if
\* numbers may be reused, there has been no repetition.
AgeInv ==
    /\ \A i \in 1 .. Len(queue) :
          queue[i].kind = "part" => Age(sequenceNumber, queue[i].seq) + Lag <= Room
    /\ dump.active => Age(sequenceNumber, dump.seq) + Lag <= Room
    /\ overrun => Room > 0

\* Nothing of a dump follows its last part.
LastInv ==
    \A i \in 1 .. Len(queue) : Current(queue[i]) /\ queue[i].last =>
        /\ ~dump.active
        /\ \A j \in 1 .. Len(queue) : j > i => queue[j].kind = "note"

\* The dump that was requested last is of the requested class.
ClassInv ==
    /\ \A i \in 1 .. Len(queue) : Current(queue[i]) => queue[i].class = requested
    /\ dump.active /\ dump.seq = sequenceNumber => dump.class = requested

\* What is known of the replies that are queued.
ReplyInv == AgeInv /\ LastInv /\ ClassInv

\* Where the rest of the answer to the last request is: in the kernel, or in the
\* queue.
InDump(l) == dump.active /\ dump.seq = sequenceNumber /\ l \in dump.left
Queued(l) == \E i \in 1 .. Len(queue) : Current(queue[i]) /\ l \in queue[i].part
Answered == \/ dump.active /\ dump.seq = sequenceNumber
            \/ \E i \in 1 .. Len(queue) : Current(queue[i])

\* An answer that is not discarded is whole: what it has not covered yet is
\* still under way.
CoverInv ==
    Enumerating /\ pc \in {"recv", "notify"} /\ Answered =>
        \A l \in Links : l \in whole[requested] \/ InDump(l) \/ Queued(l)

\* No reply is under way.
Quiet == ~dump.active /\ \A i \in 1 .. Len(queue) : queue[i].kind = "note"

\* No callback has called enumerateInterfaces.
Unnested == standing = <<>> /\ ~stale

\* Where the monitor is, and what it is waiting for.
ControlInv ==
    /\ pc \in {"user", "recv", "notify", "drain", "stopped"}
    /\ Unnested
    /\ ~Enumerating => Quiet /\ pc # "drain"
    /\ Enumerating => socket
    /\ Enumerating /\ pc = "user" => Quiet /\ cacheState = "links" /\ sequenceNumber = 0
    /\ Enumerating /\ pc # "user" => requested = cacheState /\ sequenceNumber # 0

\* The inductive invariant.
Inv == /\ TypeInv /\ ReplyInv /\ CoverInv /\ ControlInv
       /\ EnumerationIsWhole

\* A restriction of the theorems below, which no document of the monitor makes:
\* the client stops only a monitor that has come to its waiting state, and no
\* callback calls enumerateInterfaces.
CalmClient ==
    /\ StopStates \subseteq {"waiting"}
    /\ MaxNesting = 0

\* Nothing waits that could lose its tracker.
LEMMA UnnestedErased ==
    ASSUME Unnested
    PROVE  \A d : Erased(d) = <<>>
<1>1. standing = <<>>
  BY DEF Unnested
<1>2. \A x : [k \in DOMAIN <<>> |-> <<>>[k] \ {x}] = <<>>
  OBVIOUS
<1> QED BY <1>1, <1>2 DEF Erased

\* A return from a call that no callback has made.
LEMMA UnnestedReturn ==
    ASSUME Unnested, NEW stillRunning, Return(stillRunning)
    PROVE  pc' \in {"user", "recv", "stopped"} /\ Unnested'
  BY DEF Unnested, Return

\* What is known of Room.
LEMMA RoomIs ==
    ASSUME TypeInv
    PROVE  Room \in Nat /\ Room + 2 <= SeqModulus
<1>1. /\ events \in Nat /\ events <= MaxEvents /\ MaxEvents \in Nat
      /\ SeqModulus \in Nat /\ SeqModulus > 1
  BY DumpAssumption DEF TypeInv, TypeOK
<1> QED BY <1>1 DEF Room, Enough

-----------------------------------------------------------------------------
(* What happens to the queue.                                              *)

\* A queue without its first datagram.
LEMMA TailOf ==
    ASSUME NEW S, NEW q \in Seq(S), q # <<>>
    PROVE  /\ Tail(q) \in Seq(S) /\ Head(q) \in S /\ Head(q) = q[1]
           /\ Len(q) \in Nat /\ Len(q) >= 1 /\ Len(Tail(q)) = Len(q) - 1
           /\ \A i \in 1 .. Len(q) - 1 : Tail(q)[i] = q[i + 1]
  BY HeadTailProperties, LenProperties, EmptySeq

\* A queue with one more datagram.
LEMMA AppendOf ==
    ASSUME NEW S, NEW q \in Seq(S), NEW e \in S
    PROVE  /\ Append(q, e) \in Seq(S) /\ Len(q) \in Nat
           /\ Len(Append(q, e)) = Len(q) + 1
           /\ \A i \in 1 .. Len(q) : Append(q, e)[i] = q[i]
           /\ Append(q, e)[Len(q) + 1] = e
  BY AppendProperties, LenProperties

\* The first datagram is taken off the queue.
LEMMA TailKeeps ==
    ASSUME TypeInv, ReplyInv, queue # <<>>, queue' = Tail(queue),
           UNCHANGED <<dump, sequenceNumber, requested, events, overrun>>
    PROVE  ReplyInv'
<1>1. /\ Len(queue) \in Nat /\ Len(queue) >= 1 /\ Len(queue') = Len(queue) - 1
      /\ \A i \in 1 .. Len(queue') : i + 1 \in 1 .. Len(queue) /\ queue'[i] = queue[i + 1]
  <2>1. queue \in Seq(Datagram)
    BY DEF TypeInv, TypeOK
  <2> QED BY <2>1, TailOf
<1>2. AgeInv'
  BY <1>1 DEF ReplyInv, AgeInv, Age, Lag, Room
<1>3. LastInv'
  BY <1>1 DEF ReplyInv, LastInv, Current
<1>4. ClassInv'
  BY <1>1 DEF ReplyInv, ClassInv, Current
<1> QED BY <1>2, <1>3, <1>4 DEF ReplyInv

\* A notification is queued or dropped.
LEMMA NoteKeeps ==
    ASSUME TypeInv, TypeInv', ReplyInv, NEW n \in Datagram, n.kind = "note", Multicast(n),
           events' = events + 1, UNCHANGED <<sequenceNumber, requested>>, Counted',
           dump' = [dump EXCEPT !.changed = dump.active]
    PROVE  /\ ReplyInv'
           /\ CoverInv /\ UNCHANGED <<cacheState, pc, whole>> => CoverInv'
           /\ Quiet => Quiet'
<1>1. /\ dump'.active = dump.active /\ dump'.seq = dump.seq
      /\ dump'.class = dump.class /\ dump'.left = dump.left
  BY DEF TypeInv, TypeOK
<1>2. /\ Len(queue) \in Nat /\ Len(queue') \in Nat /\ Len(queue') >= Len(queue)
      /\ \A i \in 1 .. Len(queue) : i \in 1 .. Len(queue') /\ queue'[i] = queue[i]
      /\ \A i \in 1 .. Len(queue') : i > Len(queue) => queue'[i].kind = "note"
      /\ overrun => overrun'
  <2>1. queue \in Seq(Datagram)
    BY DEF TypeInv, TypeOK
  <2>2. CASE queue' = Append(queue, n) /\ UNCHANGED overrun
    BY <2>1, <2>2, AppendOf
  <2>3. CASE overrun' = TRUE /\ UNCHANGED queue
    BY <2>1, <2>3, LenProperties
  <2> QED BY <2>2, <2>3 DEF Multicast
<1>3. /\ Room \in Nat /\ overrun \in BOOLEAN /\ overrun' \in BOOLEAN
      /\ Room' = Room + 1 \/ (Room' = Room /\ ~overrun')
  <2>1. events \in Nat /\ overrun \in BOOLEAN /\ overrun' \in BOOLEAN
    BY DumpAssumption DEF TypeInv, TypeOK
  <2> QED BY <2>1 DEF Room, Counted, Enough
<1>4. \A s \in Nat : Age(sequenceNumber, s) \in Int
  BY DumpAssumption DEF Age, TypeInv, TypeOK
<1>5. \A i \in 1 .. Len(queue') : queue'[i].kind # "note" =>
          i \in 1 .. Len(queue) /\ queue'[i] = queue[i]
  BY <1>2
<1>6. AgeInv'
  <2>2. ASSUME NEW i \in 1 .. Len(queue'), queue'[i].kind = "part"
        PROVE  Age(sequenceNumber, queue'[i].seq) + Lag' <= Room'
    <3>1. i \in 1 .. Len(queue) /\ queue'[i] = queue[i]
      BY <1>5, <2>2
    <3>2. queue[i].seq \in Nat
      <4>1. queue[i] \in Datagram
        BY <3>1 DEF TypeInv, TypeOK
      <4> QED BY <2>2, <3>1, <4>1, DatagramKinds, DumpAssumption
    <3>3. Age(sequenceNumber, queue[i].seq) + Lag <= Room
      BY <2>2, <3>1 DEF ReplyInv, AgeInv
    <3> QED BY <1>2, <1>3, <1>4, <3>1, <3>2, <3>3 DEF Lag
  <2>3. dump'.active => Age(sequenceNumber, dump'.seq) + Lag' <= Room'
    <3>1. dump.seq \in Nat
      BY DumpAssumption DEF TypeInv, TypeOK
    <3> QED BY <1>1, <1>2, <1>3, <1>4, <3>1 DEF ReplyInv, AgeInv, Lag
  <2>4. overrun' => Room' > 0
    BY <1>3
  <2> QED BY <2>2, <2>3, <2>4 DEF AgeInv
<1>7. LastInv'
  BY <1>1, <1>2, <1>5 DEF ReplyInv, LastInv, Current
<1>8. ClassInv'
  BY <1>1, <1>5 DEF ReplyInv, ClassInv, Current
<1>9. ASSUME CoverInv, UNCHANGED <<cacheState, pc, whole>> PROVE CoverInv'
  <2>1. Answered' => Answered
    BY <1>1, <1>5 DEF Answered, Current
  <2>2. \A l : (InDump(l) => InDump(l)') /\ (Queued(l) => Queued(l)')
    BY <1>1, <1>2 DEF InDump, Queued, Current
  <2> QED BY <1>9, <2>1, <2>2 DEF CoverInv, Enumerating
<1>10. Quiet => Quiet'
  BY <1>1, <1>2 DEF Quiet
<1> QED BY <1>6, <1>7, <1>8, <1>9, <1>10 DEF ReplyInv

\* An overrun is over, or nothing of this has changed.
LEMMA OverrunEnds ==
    ASSUME TypeInv, TypeInv', ReplyInv, overrun' => overrun,
           UNCHANGED <<queue, dump, sequenceNumber, requested, events>>
    PROVE  ReplyInv'
<1>1. Room \in Nat /\ Room' = Room /\ overrun \in BOOLEAN /\ overrun' \in BOOLEAN
  BY RoomIs DEF TypeInv, TypeOK, Room
<1>2. \A s \in Nat : Age(sequenceNumber, s) \in Int
  BY DumpAssumption DEF Age, TypeInv, TypeOK
<1>3. dump.seq \in Nat /\ \A i \in 1 .. Len(queue) : queue[i].kind = "part" => queue[i].seq \in Nat
  <2>1. \A i \in 1 .. Len(queue) : queue[i] \in Datagram
    BY DEF TypeInv, TypeOK
  <2>2. dump.seq \in Nat
    BY DumpAssumption DEF TypeInv, TypeOK
  <2> QED BY <2>1, <2>2, DatagramKinds, DumpAssumption
<1>4. AgeInv'
  <2>1. Lag' <= Lag /\ Lag \in Int /\ Lag' \in Int
    BY <1>1 DEF Lag
  <2>2. AgeInv
    BY DEF ReplyInv
  <2>3. dump'.active => Age(sequenceNumber, dump'.seq) + Lag' <= Room
    BY <1>1, <1>2, <1>3, <2>1, <2>2 DEF AgeInv
  <2>4. ASSUME NEW i \in 1 .. Len(queue), queue[i].kind = "part"
        PROVE  Age(sequenceNumber, queue[i].seq) + Lag' <= Room
    <3>1. Age(sequenceNumber, queue[i].seq) + Lag <= Room
      BY <2>2, <2>4 DEF AgeInv
    <3>2. Age(sequenceNumber, queue[i].seq) \in Int
      BY <1>2, <1>3, <2>4
    <3> QED BY <1>1, <2>1, <3>1, <3>2
  <2>5. overrun' => Room > 0
    BY <1>1, <2>2 DEF AgeInv
  <2> QED BY <1>1, <2>3, <2>4, <2>5 DEF AgeInv
<1>5. LastInv' /\ ClassInv'
  BY DEF ReplyInv, LastInv, ClassInv, Current
<1> QED BY <1>4, <1>5 DEF ReplyInv

\* The kernel queues the next part of a dump.
LEMMA PartKeeps ==
    ASSUME TypeInv, TypeInv', ReplyInv, CoverInv,
           NEW part \in SUBSET Links, NEW last \in BOOLEAN, DumpPart(part, last)
    PROVE  ReplyInv' /\ CoverInv' /\ dump.active
<1> DEFINE n == Len(queue)
<1>1. PICK d \in Datagram :
         /\ d.kind = "part" /\ d.seq = dump.seq /\ d.class = dump.class
         /\ d.part = part /\ d.last = last
         /\ queue' = Append(queue, d)
  <2>1. PICK interrupted \in BOOLEAN : queue' = Append(queue,
            [kind |-> "part", seq |-> dump.seq, class |-> dump.class,
             part |-> part, facts |-> facts \cap ({dump.class} \X part),
             last |-> last, interrupted |-> interrupted])
    BY DEF DumpPart
  <2>2. /\ dump.class \in Class /\ dump.seq \in 1 .. SeqModulus - 1
        /\ facts \cap ({dump.class} \X part) \subseteq Fact
    BY DumpAssumption DEF DumpPart, TypeInv, TypeOK
  <2> DEFINE d == [kind |-> "part", seq |-> dump.seq, class |-> dump.class,
                   part |-> part, facts |-> facts \cap ({dump.class} \X part),
                   last |-> last, interrupted |-> interrupted]
  <2>3. d \in Datagram
    BY <2>2 DEF Datagram
  <2> QED BY <2>1, <2>3
<1>2. /\ n \in Nat /\ Len(queue') = n + 1 /\ queue'[n + 1] = d
      /\ \A i \in 1 .. n : queue'[i] = queue[i]
  <2>1. queue \in Seq(Datagram)
    BY DEF TypeInv, TypeOK
  <2> QED BY <1>1, <2>1, AppendOf
<1>3. /\ dump.active /\ part \subseteq dump.left
      /\ UNCHANGED <<events, overrun, cacheState, sequenceNumber, requested, whole, pc>>
      /\ last => ~dump'.active /\ part = dump.left
      /\ ~last => /\ dump'.active /\ dump'.seq = dump.seq /\ dump'.class = dump.class
                  /\ dump'.left = dump.left \ part
  <2>1. CASE last
    BY <2>1 DEF DumpPart, NoDump, kernel, request
  <2>2. CASE ~last
    BY <2>2 DEF DumpPart, TypeInv, TypeOK, kernel, request
  <2> QED BY <2>1, <2>2
<1> HIDE DEF n
<1>4. AgeInv'
  <2>1. ASSUME NEW i \in 1 .. Len(queue'), queue'[i].kind = "part"
        PROVE  Age(sequenceNumber, queue'[i].seq) + Lag <= Room
    <3>1. CASE i \in 1 .. n
      BY <1>2, <2>1, <3>1 DEF ReplyInv, AgeInv, n
    <3>2. CASE i = n + 1
      BY <1>1, <1>2, <1>3, <3>2 DEF ReplyInv, AgeInv
    <3> QED BY <1>2, <3>1, <3>2
  <2>2. Lag' = Lag /\ Room' = Room
    BY <1>3 DEF Lag, Room
  <2>3. dump'.active => Age(sequenceNumber, dump'.seq) + Lag <= Room
    BY <1>3 DEF ReplyInv, AgeInv
  <2> QED BY <1>3, <2>1, <2>2, <2>3 DEF ReplyInv, AgeInv
<1>5. LastInv'
  <2>1. ASSUME NEW i \in 1 .. Len(queue'), Current(queue[i])', queue'[i].last
        PROVE  /\ ~dump'.active
               /\ \A j \in 1 .. Len(queue') : ~(j > i)
    <3>1. i \notin 1 .. n
      BY <1>2, <1>3, <2>1 DEF ReplyInv, LastInv, Current, n
    <3>2. i = n + 1
      BY <1>2, <3>1
    <3> QED BY <1>1, <1>2, <1>3, <2>1, <3>2
  <2> QED BY <2>1 DEF LastInv
<1>6. ClassInv'
  BY <1>1, <1>2, <1>3 DEF ReplyInv, ClassInv, Current, n
<1>7. CoverInv'
  <2>1. Answered' => Answered
    BY <1>1, <1>2, <1>3 DEF Answered, Current, n
  <2>2. ASSUME NEW l, InDump(l) \/ Queued(l) PROVE InDump(l)' \/ Queued(l)'
    <3>1. CASE Queued(l)
      BY <1>2, <1>3, <3>1 DEF Queued, Current, n
    <3>2. CASE InDump(l) /\ l \in part
      <4>1. /\ n + 1 \in 1 .. Len(queue') /\ queue'[n + 1].kind = "part"
            /\ queue'[n + 1].seq = sequenceNumber' /\ l \in queue'[n + 1].part
        BY <1>1, <1>2, <1>3, <3>2 DEF InDump
      <4> QED BY <4>1 DEF Queued, Current
    <3>3. CASE InDump(l) /\ l \notin part
      BY <1>3, <3>3 DEF InDump
    <3> QED BY <2>2, <3>1, <3>2, <3>3
  <2> QED BY <1>3, <2>1, <2>2 DEF CoverInv, Enumerating
<1> QED BY <1>3, <1>4, <1>5, <1>6, <1>7 DEF ReplyInv

\* A request that is not too old is one older with the next request.
LEMMA AgeNext ==
    ASSUME NEW n \in 0 .. SeqModulus - 1, NEW s \in 1 .. SeqModulus - 1,
           Age(n, s) + 3 <= SeqModulus
    PROVE  /\ Age(NextSequenceNumber(n), s) = Age(n, s) + 1
           /\ NextSequenceNumber(n) # s
<1>0. SeqModulus \in Nat /\ SeqModulus > 1
  BY DumpAssumption
<1>1. CASE n = SeqModulus - 1
  <2>1. NextSequenceNumber(n) = 1
    BY <1>1, NextNumber
  <2> QED BY <1>0, <1>1, <2>1 DEF Age
<1>2. CASE n # SeqModulus - 1
  <2>1. NextSequenceNumber(n) = n + 1
    BY <1>2, NextNumber
  <2> QED BY <1>0, <1>2, <2>1 DEF Age
<1> QED BY <1>1, <1>2

\* A request is sent when the queue holds `q`: no answer to it is in the queue
\* yet, and what is left of earlier ones is one request older.
LEMMA SendKeeps ==
    ASSUME TypeInv, TypeInv', UNCHANGED events,
           NEW class \in Class, NEW q \in Seq(Datagram),
           NEW covered \in [Class -> SUBSET Links], Send(class, q, covered),
           \A i \in 1 .. Len(q) : q[i].kind = "part" =>
                ~overrun' /\ Age(sequenceNumber, q[i].seq) + 1 <= Room,
           dump.active => ~overrun' /\ Age(sequenceNumber, dump.seq) + 1 <= Room,
           overrun' => Room > 0
    PROVE  /\ ReplyInv' /\ CoverInv'
           /\ requested' = class /\ sequenceNumber' # 0
           /\ whole' = [covered EXCEPT ![class] = {}]
<1> DEFINE seq == NextSequenceNumber(sequenceNumber)
           n == Len(q)
<1>0. /\ SeqModulus \in Nat /\ SeqModulus > 1 /\ n \in Nat
      /\ sequenceNumber \in 0 .. SeqModulus - 1
      /\ Room \in Nat /\ Room' = Room /\ Room + 2 <= SeqModulus
  <2>1. Room' = Room
    BY DEF Room
  <2> QED BY <2>1, DumpAssumption, LenProperties, RoomIs DEF TypeInv, TypeOK
<1>1. seq \in 1 .. SeqModulus - 1
  BY <1>0, NextNumber
<1>2. /\ sequenceNumber' = seq /\ requested' = class
      /\ whole' = [covered EXCEPT ![class] = {}]
      /\ IF dump.active
         THEN queue' = Append(q, Busy(seq)) /\ UNCHANGED dump
         ELSE /\ queue' = q
              /\ dump' = [active |-> TRUE, class |-> class, seq |-> seq,
                          left |-> Links, changed |-> FALSE]
  BY DEF Send
<1>3. ASSUME NEW s \in 1 .. SeqModulus - 1, Age(sequenceNumber, s) + 1 <= Room
      PROVE  Age(seq, s) <= Room /\ seq # s
  <2>1. Age(sequenceNumber, s) \in Int
    BY <1>0 DEF Age
  <2>2. Age(sequenceNumber, s) + 3 <= SeqModulus
    BY <1>0, <1>3, <2>1
  <2>3. Age(seq, s) = Age(sequenceNumber, s) + 1 /\ seq # s
    BY <1>0, <2>2, AgeNext
  <2> QED BY <1>3, <2>3
<1>4. \A i \in 1 .. n : q[i] \in Datagram /\ (q[i].kind = "part" => q[i].seq \in 1 .. SeqModulus - 1)
  BY DatagramKinds
<1>5. ASSUME NEW i \in 1 .. Len(queue'), queue'[i].kind = "part"
      PROVE  i \in 1 .. n /\ queue'[i] = q[i]
  <2>1. CASE dump.active
    <3>1. Busy(seq) \in Datagram /\ Busy(seq).kind = "busy"
      BY <1>1, BusyType DEF Busy
    <3>2. /\ Len(queue') = n + 1 /\ queue'[n + 1] = Busy(seq)
          /\ \A j \in 1 .. n : queue'[j] = q[j]
      BY <1>2, <2>1, <3>1, AppendOf
    <3>3. i # n + 1
      BY <1>5, <3>1, <3>2
    <3> QED BY <1>0, <3>2, <3>3
  <2>2. CASE ~dump.active
    BY <1>2, <2>2
  <2> QED BY <2>1, <2>2
<1>6. ASSUME dump.active
      PROVE  ~overrun' /\ dump' = dump /\ Age(seq, dump.seq) <= Room /\ seq # dump.seq
  <2>1. dump.seq \in 1 .. SeqModulus - 1
    BY <1>0, <1>6 DEF TypeInv, TypeOK
  <2> QED BY <1>2, <1>3, <1>6, <2>1
<1> HIDE DEF seq, n
<1>7. \A i \in 1 .. Len(queue') : queue'[i].kind = "part" =>
         /\ ~overrun' /\ Age(seq, queue'[i].seq) <= Room /\ seq # queue'[i].seq
  BY <1>3, <1>4, <1>5 DEF n
<1>8. \/ dump' = dump /\ ~overrun' /\ Age(seq, dump.seq) <= Room /\ seq # dump.seq
      \/ dump'.active /\ dump'.seq = seq /\ dump'.left = Links /\ dump'.class = class
  BY <1>2, <1>6
<1>9. AgeInv'
  <2>1. overrun' \in BOOLEAN /\ (overrun' => Room > 0) /\ Room' = Room
    BY <1>0 DEF TypeInv, TypeOK
  <2>2. \A i \in 1 .. Len(queue') : queue'[i].kind = "part" =>
           Age(seq, queue'[i].seq) + Lag' <= Room
    <3>1. ASSUME NEW i \in 1 .. Len(queue'), queue'[i].kind = "part"
          PROVE  Age(seq, queue'[i].seq) + Lag' <= Room
      <4>1. ~overrun' /\ Age(seq, queue'[i].seq) <= Room
        BY <1>7, <3>1
      <4>2. queue'[i].seq \in 1 .. SeqModulus - 1
        BY <1>4, <1>5, <3>1
      <4>3. Age(seq, queue'[i].seq) \in Int
        BY <1>0, <1>1, <4>2 DEF Age
      <4> QED BY <4>1, <4>3 DEF Lag
    <3> QED BY <3>1
  <2>3. dump'.active => Age(seq, dump'.seq) + Lag' <= Room
    <3>1. Age(seq, seq) = 0
      BY <1>0, <1>1 DEF Age
    <3>2. dump'.seq \in Int
      BY <1>0 DEF TypeInv, TypeOK
    <3>3. Age(seq, dump'.seq) \in Int
      BY <1>0, <1>1, <3>2 DEF Age
    <3>4. CASE ~overrun' /\ Age(seq, dump'.seq) <= Room
      BY <1>0, <3>3, <3>4 DEF Lag
    <3>5. CASE dump'.seq = seq
      BY <1>0, <2>1, <3>1, <3>5 DEF Lag
    <3> QED BY <1>8, <3>4, <3>5
  <2> QED BY <1>2, <2>1, <2>2, <2>3 DEF AgeInv
<1>10. LastInv'
  BY <1>2, <1>7 DEF LastInv, Current
<1>11. ClassInv'
  BY <1>2, <1>7, <1>8 DEF ClassInv, Current
<1>12. CoverInv'
  <2>1. Answered' => \A l \in Links : InDump(l)'
    BY <1>2, <1>7, <1>8 DEF Answered, InDump, Current
  <2> QED BY <2>1 DEF CoverInv
<1> QED BY <1>1, <1>2, <1>9, <1>10, <1>11, <1>12 DEF ReplyInv

-----------------------------------------------------------------------------
(* Every step keeps the invariant.                                         *)

\* What is handled while the cache is not complete is of the dump that was
\* requested last, and an end is the last that is under way.
LEMMA HandledIsCurrent ==
    ASSUME Inv, NEW result, Receive(result), queue # <<>>
    PROVE  LET d == Head(queue)
           IN  /\ ~Enumerating => d.kind = "note" /\ result = "ok"
               /\ Enumerating /\ result \in {"ok", "stop"} /\ d.kind = "part" =>
                     Current(d) /\ d.class = requested
               /\ result = "stop" =>
                     /\ Enumerating /\ d.kind = "part" /\ d.last /\ ~dump.active
                     /\ \A j \in 1 .. Len(Tail(queue)) : Tail(queue)[j].kind = "note"
<1> DEFINE d == Head(queue)
<1>1. /\ d = queue[1] /\ 1 \in 1 .. Len(queue) /\ d \in Datagram
      /\ Len(Tail(queue)) = Len(queue) - 1 /\ Len(queue) \in Nat
      /\ \A j \in 1 .. Len(queue) - 1 : Tail(queue)[j] = queue[j + 1]
  <2>1. queue \in Seq(Datagram)
    BY DEF Inv, TypeInv, TypeOK
  <2> QED BY <2>1, TailOf
<1>2. result = Result(d) /\ pc = "recv"
  BY DEF Receive
<1> HIDE DEF d
<1>3. ASSUME ~Enumerating PROVE d.kind = "note" /\ result = "ok"
  <2>1. d.kind = "note"
    BY <1>1, <1>3 DEF Inv, ControlInv, Quiet
  <2> QED BY <1>2, <1>3, <2>1 DEF Result, Mismatch
<1>4. ASSUME Enumerating, result \in {"ok", "stop"}, d.kind = "part"
      PROVE  Current(d) /\ d.class = requested
  <2>1. d.seq # 0
    BY <1>1, <1>4, DatagramKinds
  <2>2. sequenceNumber # 0
    BY <1>2, <1>4 DEF Inv, ControlInv
  <2>3. ~Mismatch(d.seq)
    BY <1>2, <1>4 DEF Result
  <2>4. Current(d)
    BY <1>4, <2>1, <2>2, <2>3 DEF Mismatch, Current
  <2> QED BY <1>1, <2>4 DEF Inv, ReplyInv, ClassInv
<1>5. ASSUME result = "stop"
      PROVE  /\ Enumerating /\ d.kind = "part" /\ d.last /\ ~dump.active
             /\ \A j \in 1 .. Len(Tail(queue)) : Tail(queue)[j].kind = "note"
  <2>1. d.kind = "part" /\ d.last
    BY <1>1, <1>2, <1>5, DatagramKinds DEF Result
  <2>2. Enumerating
    BY <1>3, <1>5
  <2>3. Current(d)
    BY <1>4, <1>5, <2>1, <2>2
  <2>4. ~dump.active /\ \A j \in 1 .. Len(queue) : j > 1 => queue[j].kind = "note"
    BY <1>1, <2>1, <2>3 DEF Inv, ReplyInv, LastInv
  <2>5. \A j \in 1 .. Len(Tail(queue)) : Tail(queue)[j].kind = "note"
    BY <1>1, <2>4
  <2> QED BY <2>1, <2>2, <2>4, <2>5
<1> QED BY <1>3, <1>4, <1>5 DEF d

\* The kernel's side.
LEMMA KernelKeeps ==
    ASSUME Inv, TypeInv', Counted',
           \/ \E fact \in Fact, seq \in {0, FOREIGN} : NetworkChanges(fact, seq)
           \/ KernelStep
    PROVE  Inv'
<1>1. ASSUME NEW fact \in Fact, NEW seq \in {0, FOREIGN}, NetworkChanges(fact, seq)
      PROVE  Inv'
  <2>1. PICK op \in {"new", "del"} : Multicast(Note(op, fact, seq))
    BY <1>1 DEF NetworkChanges
  <2> DEFINE n == Note(op, fact, seq)
  <2>2. n \in Datagram /\ n.kind = "note" /\ Multicast(n)
    BY <2>1, NoteType DEF Note
  <2> HIDE DEF n
  <2>3. /\ events' = events + 1 /\ dump' = [dump EXCEPT !.changed = dump.active]
        /\ UNCHANGED <<cacheState, sequenceNumber, requested, whole, pc, standing, stale, socket>>
    BY <1>1 DEF NetworkChanges, request, call
  <2>4. ReplyInv' /\ CoverInv' /\ (Quiet => Quiet')
    BY <2>2, <2>3, NoteKeeps DEF Inv
  <2>5. ControlInv'
    BY <2>3, <2>4 DEF Inv, ControlInv, Unnested, Enumerating
  <2>6. EnumerationIsWhole'
    BY <2>3 DEF Inv, EnumerationIsWhole
  <2> QED BY <2>4, <2>5, <2>6 DEF Inv
<1>2. ASSUME NEW part \in SUBSET Links, NEW last \in BOOLEAN, DumpPart(part, last)
      PROVE  Inv'
  <2>1. UNCHANGED <<cacheState, sequenceNumber, requested, whole, pc, standing, stale, socket>>
    BY <1>2 DEF DumpPart, request, call
  <2>2. ReplyInv' /\ CoverInv' /\ dump.active
    BY <1>2, PartKeeps DEF Inv
  <2>3. ControlInv'
    BY <2>1, <2>2 DEF Inv, ControlInv, Unnested, Enumerating, Quiet
  <2>4. EnumerationIsWhole'
    BY <2>1 DEF Inv, EnumerationIsWhole
  <2> QED BY <2>2, <2>3, <2>4 DEF Inv
<1> QED BY <1>1, <1>2 DEF KernelStep

\* The program's calls, and stop in a callback.
LEMMA ClientKeeps ==
    ASSUME Inv, TypeInv', CalmClient,
           \/ EnumerateInterfaces \/ Run \/ RunStopped \/ Stop
           \/ \E link \in Links : Reenter(link)
           \/ \E handled \in SUBSET Fact : StopWhileHandling(handled)
    PROVE  /\ Inv'
           /\ dump.active /\ sequenceNumber' # sequenceNumber => overrun
<1>1. ASSUME NEW which, Enter(which)
      PROVE  /\ Inv'
             /\ dump.active /\ sequenceNumber' # sequenceNumber => overrun
  <2>1. pc = "user" /\ pc' = "recv" /\ UNCHANGED <<events, overrun, cacheState, standing, stale, socket>>
    BY <1>1 DEF Enter, kernel
  <2>2. CASE Enumerating
    <3>1. Send("links", queue, whole) /\ ~dump.active /\ cacheState = "links"
      BY <1>1, <2>1, <2>2 DEF Enter, Inv, ControlInv, Quiet
    <3>2. /\ queue \in Seq(Datagram) /\ whole \in [Class -> SUBSET Links]
          /\ "links" \in Class
      BY DEF Inv, TypeInv, TypeOK, Class
    <3>3. /\ \A i \in 1 .. Len(queue) : queue[i].kind = "note"
          /\ overrun' => Room > 0
      BY <2>1, <2>2 DEF Inv, ControlInv, Quiet, ReplyInv, AgeInv
    <3>4. ReplyInv' /\ CoverInv' /\ requested' = "links" /\ sequenceNumber' # 0
      BY <2>1, <3>1, <3>2, <3>3, SendKeeps DEF Inv
    <3>5. ControlInv'
      BY <2>1, <2>2, <3>1, <3>4 DEF Inv, ControlInv, Unnested, Enumerating
    <3>6. EnumerationIsWhole'
      BY <2>1, <3>1 DEF EnumerationIsWhole
    <3> QED BY <3>1, <3>4, <3>5, <3>6 DEF Inv
  <2>3. CASE ~Enumerating
    <3>1. UNCHANGED <<sequenceNumber, requested, whole, queue, dump>>
      BY <1>1, <2>3 DEF Enter, request
    <3>2. ReplyInv'
      BY <2>1, <3>1, OverrunEnds DEF Inv
    <3> QED BY <2>1, <2>3, <3>1, <3>2
            DEF Inv, CoverInv, ControlInv, Unnested, EnumerationIsWhole, Enumerating, Quiet
  <2> QED BY <2>2, <2>3
<1>2. CASE EnumerateInterfaces
  <2>1. socket
    BY <1>2 DEF EnumerateInterfaces, Inv, ControlInv
  <2> QED BY <1>1, <1>2, <2>1 DEF EnumerateInterfaces
<1>3. CASE Run
  BY <1>1, <1>3 DEF Run
<1>4. CASE \E link \in Links : Reenter(link)
  BY <1>4, EmptySeq DEF Reenter, CalmClient, Inv, ControlInv, Unnested
<1>5. CASE RunStopped
  <2>1. /\ pc' = "stopped" /\ ~Enumerating
        /\ UNCHANGED <<queue, dump, overrun, events, cacheState, sequenceNumber,
                       requested, whole, standing, stale, socket>>
    BY <1>5 DEF RunStopped, Inv, ControlInv, kernel, channel, request, call
  <2>2. ReplyInv'
    BY <2>1, OverrunEnds DEF Inv
  <2> QED BY <2>1, <2>2
          DEF Inv, CoverInv, ControlInv, Unnested, EnumerationIsWhole, Enumerating, Quiet
<1>6. ASSUME CloseSocket, pc' \in {"user", "recv", "notify", "stopped"}, Unnested',
             cacheState' = cacheState,
             UNCHANGED <<events, sequenceNumber, requested, whole>>
      PROVE  /\ Inv'
             /\ dump.active /\ sequenceNumber' # sequenceNumber => overrun
  <2>1. /\ ~Enumerating /\ queue' = <<>> /\ ~dump'.active /\ ~overrun'
    BY <1>6 DEF CloseSocket, CalmClient, Enumerating, NoDump
  <2>2. Len(queue') = 0
    BY <2>1, EmptySeq
  <2>3. ReplyInv'
    BY <2>1, <2>2 DEF ReplyInv, AgeInv, LastInv, ClassInv
  <2> QED BY <1>6, <2>1, <2>2, <2>3
          DEF Inv, CoverInv, ControlInv, Unnested, EnumerationIsWhole, Enumerating, Quiet
<1>7. CASE Stop
  BY <1>6, <1>7 DEF Stop, CloseSocket, kernel, request, frames, Inv, ControlInv, Unnested
<1>8. ASSUME NEW handled, StopWhileHandling(handled)
      PROVE  /\ Inv'
             /\ dump.active /\ sequenceNumber' # sequenceNumber => overrun
  <2>1. cacheState = "waiting" /\ CloseSocket
    BY <1>8 DEF StopWhileHandling, CloseSocket, CalmClient
  <2>2. UNCHANGED <<events, sequenceNumber, requested, whole>>
    BY <1>8 DEF StopWhileHandling, Receive, kernel, request
  <2>3. /\ pc' \in {"user", "recv", "notify", "stopped"} /\ Unnested'
        /\ cacheState' = cacheState
    <3>1. \/ EndAfterStop(FALSE)
          \/ /\ pc' = "notify" /\ standing' = Erased(Head(queue))
             /\ UNCHANGED <<cacheState, caller, stale>>
      BY <1>8 DEF StopWhileHandling
    <3>2. Unnested
      BY DEF Inv, ControlInv
    <3>3. CASE EndAfterStop(FALSE)
      BY <2>1, <3>2, <3>3, UnnestedReturn DEF EndAfterStop
    <3>4. CASE /\ pc' = "notify" /\ standing' = Erased(Head(queue))
               /\ UNCHANGED <<cacheState, caller, stale>>
      <4>1. standing' = <<>>
        BY <3>2, <3>4, UnnestedErased
      <4> QED BY <3>2, <3>4, <4>1 DEF Unnested
    <3> QED BY <3>1, <3>3, <3>4
  <2> QED BY <1>6, <2>1, <2>2, <2>3
<1> QED BY <1>2, <1>3, <1>4, <1>5, <1>7, <1>8

\* receiveAndProcess, up to the end of a dump.
LEMMA ReceiveKeeps ==
    ASSUME Inv, TypeInv', ReceiveData \/ ReceiveError \/ ReceiveNothing
    PROVE  Inv' /\ sequenceNumber' = sequenceNumber
<1>0. queue \in Seq(Datagram)
  BY DEF Inv, TypeInv, TypeOK
<1>1. CASE ReceiveData
  <2>1. Receive("ok") /\ queue # <<>>
    BY <1>1 DEF ReceiveData, Receive
  <2>2. /\ queue' = Tail(queue) /\ whole' = Covered(Head(queue)) /\ pc' = "notify"
        /\ UNCHANGED <<dump, sequenceNumber, requested, cacheState, socket, stale,
                       events, overrun>>
        /\ standing' = Erased(Head(queue))
    BY <1>1, <2>1 DEF ReceiveData, Receive, kernel
  <2>3. ReplyInv'
    BY <2>1, <2>2, TailKeeps DEF Inv
  <2> DEFINE d == Head(queue)
  <2>4. /\ d = queue[1] /\ Len(queue) \in Nat /\ Len(queue) >= 1 /\ d \in Datagram
        /\ Len(queue') = Len(queue) - 1
        /\ \A i \in 1 .. Len(queue') : queue'[i] = queue[i + 1]
    BY <1>0, <2>1, <2>2, TailOf
  <2>5. /\ ~Enumerating => d.kind = "note"
        /\ Enumerating /\ d.kind = "part" => Current(d) /\ d.class = requested
    BY <2>1, HandledIsCurrent
  <2>6. /\ d.kind # "part" => whole' = whole
        /\ d.kind = "part" => whole' = [whole EXCEPT ![d.class] = @ \cup d.part]
    BY <2>2 DEF Covered
  <2> HIDE DEF d
  <2>7. whole \in [Class -> SUBSET Links] /\ requested \in Class
    BY DEF Inv, TypeInv, TypeOK
  <2>8. \A c \in Class : whole[c] \subseteq whole'[c]
    BY <2>4, <2>6, <2>7, DatagramKinds
  <2>9. CoverInv'
    <3>1. SUFFICES ASSUME Enumerating, Answered', NEW l \in Links
                   PROVE  l \in whole'[requested] \/ InDump(l)' \/ Queued(l)'
      BY <2>2 DEF CoverInv, Enumerating
    <3>2. Answered
      BY <2>2, <2>4, <3>1 DEF Answered, Current
    <3>3. l \in whole[requested] \/ InDump(l) \/ Queued(l)
      BY <2>1, <3>1, <3>2 DEF Inv, CoverInv, Receive
    <3>4. CASE l \in whole[requested]
      BY <2>7, <2>8, <3>4
    <3>5. CASE InDump(l)
      BY <2>2, <3>5 DEF InDump
    <3>6. CASE Queued(l)
      <4>1. PICK i \in 1 .. Len(queue) : Current(queue[i]) /\ l \in queue[i].part
        BY <3>6 DEF Queued
      <4>2. CASE i = 1
        <5>1. d.kind = "part" /\ l \in d.part /\ d.class = requested
          BY <2>4, <2>5, <3>1, <4>1, <4>2 DEF Current
        <5> QED BY <2>6, <2>7, <5>1
      <4>3. CASE i # 1
        <5>1. i - 1 \in 1 .. Len(queue') /\ queue'[i - 1] = queue[i]
          BY <2>4, <4>3
        <5>2. Current(queue[i - 1])'
          BY <2>2, <4>1, <5>1 DEF Current
        <5> QED BY <4>1, <5>1, <5>2 DEF Queued
      <4> QED BY <4>2, <4>3
    <3> QED BY <3>3, <3>4, <3>5, <3>6
  <2>10. ControlInv'
    <3>1. Quiet => Quiet'
      BY <2>2, <2>4 DEF Quiet
    <3>2. Unnested'
      <4>1. Unnested
        BY DEF Inv, ControlInv
      <4> QED BY <2>2, <4>1, UnnestedErased DEF Unnested
    <3> QED BY <2>1, <2>2, <3>1, <3>2 DEF Inv, ControlInv, Enumerating, Receive
  <2>11. EnumerationIsWhole'
    <3>1. \A c \in Class : whole'[c] \subseteq Links
      BY DEF TypeInv, TypeOK
    <3> QED BY <2>2, <2>8, <3>1 DEF Inv, EnumerationIsWhole
  <2> QED BY <2>2, <2>3, <2>9, <2>10, <2>11 DEF Inv
<1>2. CASE ReceiveError
  <2>1. Receive("error") /\ queue # <<>> /\ pc = "recv"
    BY <1>2 DEF ReceiveError, Receive
  <2>2. /\ queue' = Tail(queue)
        /\ UNCHANGED <<dump, sequenceNumber, requested, whole, cacheState, standing, stale, socket,
                       events, overrun>>
    BY <1>2, <2>1 DEF ReceiveError, Receive, call, kernel, request
  <2>3. Enumerating
    BY <2>1, HandledIsCurrent
  <2>4. pc' = "drain"
    BY <1>2, <2>3 DEF ReceiveError
  <2>5. ReplyInv'
    BY <2>1, <2>2, TailKeeps DEF Inv
  <2> QED BY <2>1, <2>2, <2>3, <2>4, <2>5
          DEF Inv, CoverInv, ControlInv, Unnested, EnumerationIsWhole, Enumerating
<1>3. CASE ReceiveNothing
  <2>1. /\ pc = "recv" /\ ~overrun'
        /\ UNCHANGED <<queue, dump, sequenceNumber, requested, whole, cacheState, socket,
                       events>>
    BY <1>3 DEF ReceiveNothing, kernel, request
  <2>2. ReplyInv'
    BY <2>1, OverrunEnds DEF Inv
  <2>3. CASE Enumerating
    <3>1. UNCHANGED <<pc, standing, stale>>
      BY <1>3, <2>3 DEF ReceiveNothing, frames
    <3> QED BY <2>1, <2>2, <3>1
            DEF Inv, CoverInv, ControlInv, Unnested, EnumerationIsWhole, Enumerating, Quiet,
                Answered, InDump, Queued, Current
  <2>4. CASE ~Enumerating
    <3>1. pc' \in {"user", "recv", "stopped"} /\ Unnested'
      BY <1>3, <2>4, UnnestedReturn DEF ReceiveNothing, Inv, ControlInv
    <3> QED BY <2>1, <2>2, <2>4, <3>1
            DEF Inv, CoverInv, ControlInv, Unnested, EnumerationIsWhole, Enumerating, Quiet
  <2> QED BY <2>3, <2>4
<1> QED BY <1>1, <1>2, <1>3

\* The end of a dump: what it has covered is everything, and the next request
\* finds nothing under way.
LEMMA EndKeeps ==
    ASSUME Inv, TypeInv', CalmClient, ReceiveEnd
    PROVE  /\ Inv'
           /\ dump.active /\ sequenceNumber' # sequenceNumber => overrun
<1> DEFINE d == Head(queue)
<1>1. /\ Receive("stop") /\ queue # <<>> /\ pc = "recv"
      /\ UNCHANGED <<events, overrun, socket>>
  BY DEF ReceiveEnd, Receive, kernel
<1>2. /\ d = queue[1] /\ Len(queue) \in Nat /\ Len(queue) >= 1 /\ d \in Datagram
      /\ Len(Tail(queue)) = Len(queue) - 1 /\ Tail(queue) \in Seq(Datagram)
      /\ \A i \in 1 .. Len(Tail(queue)) : Tail(queue)[i] = queue[i + 1]
  <2>1. queue \in Seq(Datagram)
    BY DEF Inv, TypeInv, TypeOK
  <2> QED BY <1>1, <2>1, TailOf
<1>3. /\ Enumerating /\ d.kind = "part" /\ ~dump.active
      /\ \A j \in 1 .. Len(Tail(queue)) : Tail(queue)[j].kind = "note"
      /\ Current(d) /\ d.class = requested
  BY <1>1, HandledIsCurrent
<1>4. /\ requested = cacheState /\ requested \in Class
      /\ whole \in [Class -> SUBSET Links] /\ whole' \in [Class -> SUBSET Links]
      /\ Unnested /\ socket
  BY <1>1, <1>3 DEF Inv, ControlInv, TypeInv, TypeOK
<1> DEFINE covered == Covered(d)
<1> HIDE DEF d
<1>5. /\ covered \in [Class -> SUBSET Links]
      /\ covered = [whole EXCEPT ![requested] = @ \cup d.part]
  <2>1. d.part \subseteq Links
    BY <1>2, <1>3, DatagramKinds
  <2> QED BY <1>3, <1>4, <2>1 DEF Covered
<1>6. covered[requested] = Links
  <2>1. SUFFICES ASSUME NEW l \in Links PROVE l \in covered[requested]
    BY <1>4, <1>5
  <2>2. Answered
    <3>1. 1 \in 1 .. Len(queue)
      BY <1>2
    <3> QED BY <1>2, <1>3, <3>1 DEF Answered
  <2>3. l \in whole[requested] \/ InDump(l) \/ Queued(l)
    BY <1>1, <1>3, <2>2 DEF Inv, CoverInv
  <2>4. CASE Queued(l)
    <3>1. PICK i \in 1 .. Len(queue) : Current(queue[i]) /\ l \in queue[i].part
      BY <2>4 DEF Queued
    <3>2. i = 1
      <4>1. ASSUME i # 1 PROVE FALSE
        <5>1. i - 1 \in 1 .. Len(Tail(queue)) /\ Tail(queue)[i - 1] = queue[i]
          BY <1>2, <4>1
        <5> QED BY <1>3, <3>1, <5>1 DEF Current
      <4> QED BY <4>1
    <3> QED BY <1>2, <1>4, <1>5, <3>1, <3>2
  <2> QED BY <1>3, <1>4, <1>5, <2>3, <2>4 DEF InDump
<1>7. \A c \in Class : whole[c] = Links => covered[c] = Links
  BY <1>4, <1>5, <1>6
<1> HIDE DEF covered
<1>8. CASE cacheState \in {"links", "addresses"}
  <2> DEFINE class == Following[cacheState]
             q == Tail(queue)
  <2>1. /\ cacheState' = class /\ pc' = "notify" /\ Unnested'
        /\ Send(class, q, covered)
    BY <1>4, <1>8 DEF ReceiveEnd, covered, d, frames, Unnested
  <2>2. /\ cacheState = "links" => class = "addresses"
        /\ cacheState = "addresses" => class = "routes"
        /\ class \in Class /\ class # "waiting"
    BY <1>8 DEF Following, Class
  <2>3. q \in Seq(Datagram) /\ \A i \in 1 .. Len(q) : q[i].kind = "note"
    BY <1>2, <1>3
  <2>4. overrun' => Room > 0
    BY <1>1 DEF Inv, ReplyInv, AgeInv
  <2> HIDE DEF class, q
  <2>5. /\ ReplyInv' /\ CoverInv' /\ requested' = class /\ sequenceNumber' # 0
        /\ whole' = [covered EXCEPT ![class] = {}]
    BY <1>1, <1>3, <1>5, <2>1, <2>2, <2>3, <2>4, SendKeeps DEF Inv
  <2>6. ControlInv'
    BY <1>1, <1>4, <2>1, <2>2, <2>5 DEF ControlInv, Unnested, Enumerating
  <2>7. EnumerationIsWhole'
    BY <1>4, <1>5, <1>6, <1>7, <1>8, <2>1, <2>2, <2>5 DEF Inv, EnumerationIsWhole, Class
  <2> QED BY <1>3, <2>5, <2>6, <2>7 DEF Inv
<1>9. CASE cacheState \notin {"links", "addresses"}
  <2>1. /\ queue' = Tail(queue) /\ whole' = covered /\ cacheState' = "waiting"
        /\ pc' \in {"user", "recv", "stopped"} /\ Unnested'
        /\ UNCHANGED <<dump, sequenceNumber, requested>>
    BY <1>3, <1>4, <1>9, UnnestedReturn DEF ReceiveEnd, covered, d
  <2>2. cacheState = "routes"
    BY <1>4, <1>9 DEF Class
  <2>3. ReplyInv'
    BY <1>1, <2>1, TailKeeps DEF Inv
  <2>4. CoverInv' /\ ControlInv'
    BY <1>3, <2>1 DEF CoverInv, ControlInv, Unnested, Enumerating, Quiet
  <2>5. EnumerationIsWhole'
    BY <1>4, <1>6, <1>7, <2>1, <2>2 DEF Inv, EnumerationIsWhole
  <2> QED BY <2>1, <2>3, <2>4, <2>5 DEF Inv
<1> QED BY <1>8, <1>9

\* Back from the callbacks, and the retry.
LEMMA RetryKeeps ==
    ASSUME Inv, TypeInv', CalmClient, FinishNotify \/ Drain \/ Retry
    PROVE  /\ Inv'
           /\ dump.active /\ sequenceNumber' # sequenceNumber => overrun
<1>1. CASE FinishNotify
  <2>1. /\ pc = "notify"
        /\ UNCHANGED <<queue, dump, overrun, sequenceNumber, requested, whole, socket,
                       events>>
    BY <1>1 DEF FinishNotify, kernel, channel, request
  <2>2. ReplyInv'
    BY <2>1, OverrunEnds DEF Inv
  <2>3. CASE Enumerating
    <3>1. pc' = "recv" /\ cacheState' = cacheState /\ Unnested'
      <4>1. socket /\ Unnested
        BY <2>3 DEF Inv, ControlInv
      <4>2. GoesOn("recv")
        BY <1>1, <4>1 DEF FinishNotify
      <4> QED BY <4>1, <4>2 DEF GoesOn, Unnested
    <3> QED BY <2>1, <2>2, <3>1
            DEF Inv, CoverInv, ControlInv, Unnested, EnumerationIsWhole, Enumerating, Quiet,
                Answered, InDump, Queued, Current
  <2>4. CASE ~Enumerating
    <3>1. pc' \in {"user", "recv", "stopped"} /\ Unnested' /\ cacheState' = cacheState
      <4>1. Unnested /\ cacheState = "waiting"
        BY <2>4 DEF Inv, ControlInv, Enumerating
      <4>2. \/ GoesOn("recv")
            \/ EndAfterStop(running)
        BY <1>1, <2>4, <4>1 DEF FinishNotify, Mismatch, Unnested
      <4> QED BY <4>1, <4>2, UnnestedReturn DEF GoesOn, EndAfterStop, Unnested
    <3> QED BY <2>1, <2>2, <2>4, <3>1
            DEF Inv, CoverInv, ControlInv, Unnested, EnumerationIsWhole, Enumerating, Quiet
  <2> QED BY <2>1, <2>3, <2>4
<1>2. CASE Drain
  <2>1. /\ pc = "drain" /\ queue # <<>> /\ queue' = Tail(queue)
        /\ UNCHANGED <<dump, overrun, sequenceNumber, requested, whole, socket, events,
                       pc, cacheState, standing, stale>>
    BY <1>2 DEF Drain, kernel, request, call
  <2>2. ReplyInv'
    BY <2>1, TailKeeps DEF Inv
  <2> QED BY <2>1, <2>2
          DEF Inv, CoverInv, ControlInv, Unnested, EnumerationIsWhole, Enumerating
<1>3. CASE Retry
  <2>1. /\ pc = "drain" /\ Enumerating /\ requested = cacheState
        /\ overrun \/ (queue = <<>> /\ ~dump.active)
        /\ ~overrun' /\ pc' = "recv" /\ Send(requested, queue, whole)
        /\ UNCHANGED <<events, cacheState, socket, standing, stale>>
    BY <1>3 DEF Retry, Inv, ControlInv, kernel, call
  <2>2. /\ queue \in Seq(Datagram) /\ whole \in [Class -> SUBSET Links]
        /\ requested \in Class
    BY DEF Inv, TypeInv, TypeOK
  <2>3. /\ \A i \in 1 .. Len(queue) : queue[i].kind = "part" =>
              ~overrun' /\ Age(sequenceNumber, queue[i].seq) + 1 <= Room
        /\ dump.active => ~overrun' /\ Age(sequenceNumber, dump.seq) + 1 <= Room
    <3>1. CASE overrun
      BY <2>1, <3>1 DEF Inv, ReplyInv, AgeInv, Lag
    <3>2. CASE queue = <<>> /\ ~dump.active
      BY <3>2, EmptySeq
    <3> QED BY <2>1, <3>1, <3>2
  <2>4. /\ ReplyInv' /\ CoverInv' /\ requested' = requested /\ sequenceNumber' # 0
        /\ whole' = [whole EXCEPT ![requested] = {}]
    BY <2>1, <2>2, <2>3, SendKeeps DEF Inv
  <2>5. ControlInv'
    BY <2>1, <2>4 DEF Inv, ControlInv, Unnested, Enumerating
  <2>6. EnumerationIsWhole'
    BY <2>1, <2>2, <2>4 DEF Inv, EnumerationIsWhole
  <2> QED BY <2>1, <2>4, <2>5, <2>6 DEF Inv
<1> QED BY <1>1, <1>2, <1>3

\* Nothing is queued at first, and nothing asked for.
LEMMA InitInv == Init => Inv
<1> SUFFICES ASSUME Init PROVE Inv
  OBVIOUS
<1>1. TypeInv
  BY InitTypes
<1>2. Len(queue) = 0 /\ ~dump.active /\ ~overrun /\ sequenceNumber = 0
  BY EmptySeq DEF Init, NoDump
<1>3. ReplyInv
  BY <1>2 DEF ReplyInv, AgeInv, LastInv, ClassInv
<1>4. CoverInv /\ ControlInv /\ EnumerationIsWhole
  BY <1>2 DEF Init, CoverInv, ControlInv, Unnested, EnumerationIsWhole, Enumerating, Quiet
<1> QED BY <1>1, <1>3, <1>4 DEF Inv

\* One step per group of actions; and no step sends a request while a dump is
\* under way, but for the retry after an overrun.
LEMMA NextInv ==
    ASSUME Inv, CalmClient, Counted', [Next]_vars
    PROVE  /\ Inv'
           /\ dump.active /\ sequenceNumber' # sequenceNumber => overrun
<1>1. TypeInv'
  BY NextTypes DEF Inv
<1>2. ASSUME \/ \E fact \in Fact, seq \in {0, FOREIGN} : NetworkChanges(fact, seq)
             \/ KernelStep
      PROVE  Inv' /\ sequenceNumber' = sequenceNumber
  <2>1. sequenceNumber' = sequenceNumber
    BY <1>2 DEF NetworkChanges, KernelStep, DumpPart, request
  <2> QED BY <1>1, <1>2, <2>1, KernelKeeps
<1>3. ASSUME NEW fact \in Fact, NEW seq \in IF Foreign THEN {0, FOREIGN} ELSE {0},
             NetworkChanges(fact, seq)
      PROVE  Inv' /\ sequenceNumber' = sequenceNumber
  <2>1. seq \in {0, FOREIGN}
    BY <1>3
  <2> QED BY <1>2, <1>3, <2>1
<1>4. CASE UNCHANGED vars
  <2>1. Inv'
    BY <1>1, <1>4 DEF vars, Inv, ReplyInv, AgeInv, LastInv, ClassInv, CoverInv, ControlInv, Unnested,
              EnumerationIsWhole, Enumerating, Quiet, Answered, InDump, Queued,
              Current, Lag, Room
  <2> QED BY <1>4, <2>1 DEF vars
<1> QED BY <1>1, <1>2, <1>3, <1>4, ClientKeeps, ReceiveKeeps, EndKeeps, RetryKeeps
        DEF Next, MonitorStep

-----------------------------------------------------------------------------
(* What follows from the invariant, for a client that stops only a         *)
(* complete cache and does not enumerate in callbacks.                     *)
(* Counted is true of every behaviour of a monitor that has more numbers   *)
(* than the network has changes, and of every behaviour without an overrun *)
(* whatever numbers there are.                                             *)

\* A request is sent only when no dump is under way, but for the retry after an
\* overrun.
THEOREM OneDump ==
    ASSUME CalmClient
    PROVE  Spec /\ []Counted => OneDumpAtATime
<1>1. Inv /\ Counted' /\ [Next]_vars => Inv'
  BY NextInv
<1>2. Inv /\ Counted' /\ [Next]_vars =>
          [dump.active /\ sequenceNumber' # sequenceNumber => overrun]_vars
  BY NextInv
<1> QED BY <1>1, <1>2, InitInv, PTL DEF Spec, OneDumpAtATime

\* A cache state is left only after a dump of its class that has covered every
\* interface: interrupted replies, replies to earlier requests and overruns
\* never make a part of an enumeration pass for the whole.
THEOREM WholeEnumeration ==
    ASSUME CalmClient
    PROVE  Spec /\ []Counted => []EnumerationIsWhole
<1>1. Inv /\ Counted' /\ [Next]_vars => Inv'
  BY NextInv
<1>2. Inv => EnumerationIsWhole
  BY DEF Inv
<1> QED BY <1>1, <1>2, InitInv, PTL DEF Spec

\* No datagram, in whatever order, brings the monitor to the result it gives up
\* on.
THEOREM NoAbort ==
    ASSUME CalmClient
    PROVE  Spec /\ []Counted => []NeverAborts
<1>1. Inv /\ Counted' /\ [Next]_vars => Inv'
  BY NextInv
<1>2. Inv => NeverAborts
  BY DEF Inv, ControlInv, NeverAborts
<1> QED BY <1>1, <1>2, InitInv, PTL DEF Spec
=============================================================================
