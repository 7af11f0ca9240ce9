--------------------------- MODULE Replica_proofs ---------------------------
(***************************************************************************)
(* While no notification is lost and no request has to be repeated, the    *)
(* monitor's cache is a replica of the kernel's facts.                     *)
(***************************************************************************)
EXTENDS DumpProtocol_proofs, WellFoundedInduction

-----------------------------------------------------------------------------
(* What a datagram does to a set of facts.                                 *)

\* Does the fact f go when `fact` is deleted?
Lost(fact, f) == \/ f = fact
                 \/ fact[1] = "links" /\ f[2] = fact[2]
                 \/ fact[1] = "addresses" /\ f = <<"routes", fact[2]>>

\* What stays when a fact is deleted.
LEMMA WithoutIs ==
    ASSUME NEW fact \in Fact, NEW F
    PROVE  \A f : f \in Without(F, fact) <=> f \in F /\ ~Lost(fact, f)
<1>1. fact[1] \in {"links", "addresses", "routes"}
  BY DEF Fact, Class
<1>2. CASE fact[1] = "links"
  BY <1>2 DEF Without, Lost
<1>3. CASE fact[1] = "addresses"
  BY <1>3 DEF Without, Lost
<1>4. CASE fact[1] = "routes"
  BY <1>4 DEF Without, Lost
<1> QED BY <1>1, <1>2, <1>3, <1>4

\* What there is when facts are added.
LEMMA WithIs ==
    ASSUME NEW F, NEW new
    PROVE  /\ F \subseteq With(F, new) /\ With(F, new) \subseteq F \cup new
           /\ \A f \in new : f[1] = "links" \/ <<"links", f[2]>> \in F => f \in With(F, new)
  BY DEF With

-----------------------------------------------------------------------------
(* What the cache is going to be when the queue has been handled.          *)

\* S lists what the cache `from` becomes with each datagram of q.
Replays(from, q, S) ==
    /\ S \in [0 .. Len(q) -> SUBSET Fact]
    /\ S[0] = from
    /\ \A k \in 1 .. Len(q) : S[k] = Handled(S[k - 1], q[k])

\* One more datagram is queued.
LEMMA ReplayQueued ==
    ASSUME NEW from, NEW q \in Seq(Datagram), NEW S, Replays(from, q, S),
           NEW d \in Datagram, d.kind # "busy"
    PROVE  \E T : /\ Replays(from, Append(q, d), T)
                  /\ T[Len(Append(q, d))] = Handled(S[Len(q)], d)
<1> DEFINE n == Len(q)
           p == Append(q, d)
           T == [k \in 0 .. n + 1 |-> IF k = n + 1 THEN Handled(S[n], d) ELSE S[k]]
<1>1. /\ n \in Nat /\ Len(p) = n + 1 /\ p[n + 1] = d
      /\ \A k \in 1 .. n : p[k] = q[k]
  BY AppendOf
<1>2. /\ S \in [0 .. n -> SUBSET Fact] /\ S[0] = from
      /\ \A k \in 1 .. n : S[k] = Handled(S[k - 1], q[k])
  BY DEF Replays
<1>3. Handled(S[n], d) \subseteq Fact
  <2>1. S[n] \in SUBSET Fact
    BY <1>1, <1>2
  <2> QED BY <2>1, HandledType
<1> HIDE DEF n, p
<1>4. T \in [0 .. Len(p) -> SUBSET Fact] /\ T[0] = from
  BY <1>1, <1>2, <1>3
<1>5. ASSUME NEW k \in 1 .. Len(p) PROVE T[k] = Handled(T[k - 1], p[k])
  <2>1. CASE k \in 1 .. n
    <3>1. T[k] = S[k] /\ T[k - 1] = S[k - 1] /\ p[k] = q[k]
      BY <1>1, <2>1
    <3> QED BY <1>2, <2>1, <3>1
  <2>2. CASE k = n + 1
    <3>1. T[k] = Handled(S[n], d) /\ T[k - 1] = S[n] /\ p[k] = d
      BY <1>1, <2>2
    <3> QED BY <3>1
  <2> QED BY <1>1, <2>1, <2>2
<1>6. T[Len(p)] = Handled(S[n], d)
  BY <1>1
<1>7. Replays(from, p, T)
  BY <1>4, <1>5 DEF Replays
<1> QED BY <1>6, <1>7 DEF n, p

\* The first datagram is handled.
LEMMA ReplayHandled ==
    ASSUME NEW from, NEW q \in Seq(Datagram), q # <<>>, NEW S, Replays(from, q, S)
    PROVE  \E T : /\ Replays(Handled(from, Head(q)), Tail(q), T)
                  /\ T[Len(Tail(q))] = S[Len(q)]
<1> DEFINE n == Len(q)
           p == Tail(q)
           T == [k \in 0 .. n - 1 |-> S[k + 1]]
<1>1. /\ n \in Nat /\ n >= 1 /\ Len(p) = n - 1 /\ Head(q) = q[1]
      /\ \A k \in 1 .. n - 1 : p[k] = q[k + 1]
  BY TailOf
<1>2. /\ S \in [0 .. n -> SUBSET Fact] /\ S[0] = from
      /\ \A k \in 1 .. n : S[k] = Handled(S[k - 1], q[k])
  BY DEF Replays
<1> HIDE DEF n, p
<1>3. T \in [0 .. Len(p) -> SUBSET Fact] /\ T[Len(p)] = S[n]
  BY <1>1, <1>2
<1>4. T[0] = Handled(from, Head(q))
  <2>1. T[0] = S[1] /\ S[1] = Handled(S[0], q[1])
    BY <1>1, <1>2
  <2> QED BY <1>1, <1>2, <2>1
<1>5. ASSUME NEW k \in 1 .. Len(p) PROVE T[k] = Handled(T[k - 1], p[k])
  <2>1. T[k] = S[k + 1] /\ T[k - 1] = S[k] /\ p[k] = q[k + 1]
    BY <1>1
  <2>2. S[k + 1] = Handled(S[k], q[k + 1])
    <3>1. k + 1 \in 1 .. n /\ (k + 1) - 1 = k
      BY <1>1
    <3> QED BY <1>2, <3>1
  <2> QED BY <2>1, <2>2
<1>6. Replays(Handled(from, Head(q)), p, T)
  BY <1>3, <1>4, <1>5 DEF Replays
<1> QED BY <1>3, <1>6 DEF n, p

\* A set of natural numbers that is not empty has a least element.
LEMMA LeastNumber ==
    ASSUME NEW T, T \subseteq Nat, T # {}
    PROVE  \E n \in T : \A m \in T : n <= m
<1> DEFINE R == OpToRel(<, Nat)
<1>1. PICK x \in T : \A y \in T : ~(<<y, x>> \in R)
  BY WFMin, NatLessThanWellFounded
<1>2. \A u, v \in Nat : <<v, u>> \in R <=> v < u
  BY DEF OpToRel
<1> HIDE DEF R
<1>3. \A y \in T : ~(y < x)
  BY <1>1, <1>2
<1>4. \A y \in T : x <= y
  BY <1>3
<1> QED BY <1>4

\* The abstract specification's replica after the log is the last of the list.
LEMMA ReplayedIs ==
    ASSUME NEW from, NEW q \in Seq(Datagram), NEW S, Replays(from, q, S)
    PROVE  Mirror!Replayed(from, q) = S[Len(q)]
<1> DEFINE n == Len(q)
           g == CHOOSE f : f = [k \in 0 .. n |->
                         IF k = 0 THEN from ELSE Handled(f[k - 1], q[k])]
<1>1. Mirror!Replayed(from, q) = g[n]
  BY DEF Mirror!Replayed
<1>2. n \in Nat
  BY LenProperties
<1>3. /\ S \in [0 .. n -> SUBSET Fact] /\ S[0] = from
      /\ \A k \in 1 .. n : S[k] = Handled(S[k - 1], q[k])
  BY DEF Replays
<1> HIDE DEF n
<1>4. S = [k \in 0 .. n |-> IF k = 0 THEN from ELSE Handled(S[k - 1], q[k])]
  BY <1>2, <1>3
<1>5. g = [k \in 0 .. n |-> IF k = 0 THEN from ELSE Handled(g[k - 1], q[k])]
  BY <1>4
<1> HIDE DEF g
<1> DEFINE T == {k \in 0 .. n : g[k] # S[k]}
<1>6. ASSUME T # {} PROVE FALSE
  <2>1. T \subseteq Nat
    BY <1>2
  <2> HIDE DEF T
  <2>2. PICK k \in T : \A m \in T : k <= m
    BY <1>6, <2>1, LeastNumber
  <2>3. k \in 0 .. n /\ g[k] # S[k]
    BY <2>2 DEF T
  <2>4. k # 0
    BY <1>3, <1>5, <2>3
  <2>5. k - 1 \in 0 .. n /\ k \in 1 .. n /\ ~(k <= k - 1)
    BY <1>2, <2>3, <2>4
  <2>6. g[k - 1] = S[k - 1]
    BY <2>2, <2>5 DEF T
  <2>7. g[k] = Handled(g[k - 1], q[k]) /\ S[k] = Handled(S[k - 1], q[k])
    BY <1>3, <1>5, <2>4, <2>5
  <2> QED BY <2>3, <2>6, <2>7
<1> QED BY <1>1, <1>2, <1>6 DEF n

-----------------------------------------------------------------------------
(* The invariant.                                                          *)

\* An interface has an address only when it exists, and a gateway only when it
\* has an address.
Closed ==
    \A f \in facts : /\ <<"links", f[2]>> \in facts
                     /\ f[1] = "routes" => <<"addresses", f[2]>> \in facts

\* Every reply that is under way answers the last request.
Clean ==
    /\ \A i \in 1 .. Len(queue) : queue[i].kind = "note" \/ Current(queue[i])
    /\ dump.active => dump.seq = sequenceNumber

\* The facts of class c of the interface l have been read by a dump.
Done(c, l) ==
    \/ l \in whole[c]
    \/ \E i \in 1 .. Len(queue) :
          queue[i].kind = "part" /\ queue[i].class = c /\ l \in queue[i].part

\* Before the links are complete nothing else is read, and nothing before the
\* first request.
LinksFirst ==
    /\ \A c \in Class, l \in Links : Done(c, l) => c = "links" \/ whole["links"] = Links
    /\ Enumerating /\ pc = "user" => \A c \in Class : whole[c] = {}

\* F holds facts only, and all of those that a dump has read.
Holds(F) ==
    /\ F \subseteq facts
    /\ \A c \in Class, l \in Links : Done(c, l) /\ <<c, l>> \in facts => <<c, l>> \in F

\* What has still to be handled makes the cache hold what has been read.
ReplayInv == \E S : Replays(cache, queue, S) /\ Holds(S[Len(queue)])

\* The inductive invariant.
ReplicaInv == /\ Inv
              /\ socket => Closed /\ Clean /\ LinksFirst /\ ReplayInv

\* No notification is lost, and no request is repeated.
Undisturbed == ~overrun /\ pc # "drain"

-----------------------------------------------------------------------------
(* The kernel's side.                                                      *)

\* The network changes.
LEMMA ChangeReplays ==
    ASSUME ReplicaInv, Inv', Undisturbed', NEW fact \in Fact, NEW seq \in {0, FOREIGN},
           NetworkChanges(fact, seq)
    PROVE  /\ ReplicaInv'
           /\ \E d \in Datagram : /\ queue' = Append(queue, d)
                                  /\ facts' = Handled(facts, d)
<1> DEFINE n == Len(queue)
<1>1. /\ socket /\ facts \subseteq Fact /\ queue \in Seq(Datagram) /\ n \in Nat
      /\ Closed /\ Clean /\ LinksFirst /\ ReplayInv
  <2>1. queue \in Seq(Datagram) /\ facts \subseteq Fact
    BY DEF ReplicaInv, Inv, TypeInv, TypeOK
  <2> QED BY <2>1, LenProperties DEF NetworkChanges, ReplicaInv
<1>2. /\ dump' = [dump EXCEPT !.changed = dump.active]
      /\ UNCHANGED <<cache, cacheState, sequenceNumber, whole, pc, socket>>
  BY DEF NetworkChanges, request, call
<1>3. /\ dump'.active = dump.active /\ dump'.seq = dump.seq
  BY <1>2 DEF ReplicaInv, Inv, TypeInv, TypeOK
<1>4. PICK d \in Datagram :
         /\ d.kind = "note" /\ d.fact = fact /\ queue' = Append(queue, d)
         /\ \/ /\ d.op = "new"
               /\ fact[1] # "links" => <<"links", fact[2]>> \in facts
               /\ fact[1] = "routes" => <<"addresses", fact[2]>> \in facts
               /\ facts' = facts \cup {fact}
            \/ d.op = "del" /\ facts' = Without(facts, fact)
  <2>1. ASSUME NEW op \in {"new", "del"}, Multicast(Note(op, fact, seq))
        PROVE  /\ Note(op, fact, seq) \in Datagram
               /\ Note(op, fact, seq).kind = "note" /\ Note(op, fact, seq).fact = fact
               /\ Note(op, fact, seq).op = op
               /\ queue' = Append(queue, Note(op, fact, seq))
    BY <2>1, NoteType DEF Note, Multicast, Undisturbed
  <2>2. CASE /\ fact[1] # "links" => <<"links", fact[2]>> \in facts
             /\ fact[1] = "routes" => <<"addresses", fact[2]>> \in facts
             /\ facts' = facts \cup {fact}
             /\ Multicast(Note("new", fact, seq))
    BY <2>1, <2>2
  <2>3. CASE facts' = Without(facts, fact) /\ Multicast(Note("del", fact, seq))
    BY <2>1, <2>3
  <2> QED BY <2>2, <2>3 DEF NetworkChanges
<1>5. /\ Len(queue') = n + 1 /\ queue'[n + 1] = d
      /\ \A i \in 1 .. n : queue'[i] = queue[i]
  BY <1>1, <1>4, AppendOf
<1> HIDE DEF n
<1>6. \A F : Handled(F, d) = IF d.op = "new" THEN With(F, {fact}) ELSE Without(F, fact)
  BY <1>4 DEF Handled
<1>7. facts' = Handled(facts, d)
  <2>1. CASE d.op = "new"
    <3>1. \A f \in {fact} : f[1] = "links" \/ <<"links", f[2]>> \in facts
      BY <1>4, <2>1
    <3>2. With(facts, {fact}) = facts \cup {fact}
      BY <3>1, WithIs
    <3> QED BY <1>4, <1>6, <2>1, <3>2
  <2>2. CASE d.op = "del"
    BY <1>4, <1>6, <2>2
  <2> QED BY <1>4, <2>1, <2>2
<1>8. Closed'
  <2>1. CASE facts' = facts \cup {fact} /\ d.op = "new"
    <3>1. /\ fact = <<fact[1], fact[2]>>
          /\ <<"links", fact[2]>> \in facts'
      BY <1>4, <2>1 DEF Fact
    <3> QED BY <1>1, <1>4, <2>1, <3>1 DEF Closed
  <2>2. CASE facts' = Without(facts, fact)
    <3>1. \A f : f \in facts' <=> f \in facts /\ ~Lost(fact, f)
      BY <2>2, WithoutIs
    <3>2. ASSUME NEW f \in facts'
          PROVE  /\ <<"links", f[2]>> \in facts'
                 /\ f[1] = "routes" => <<"addresses", f[2]>> \in facts'
      <4>1. /\ f \in facts /\ ~Lost(fact, f) /\ <<"links", f[2]>> \in facts
            /\ f[1] = "routes" => <<"addresses", f[2]>> \in facts
        BY <1>1, <3>1, <3>2 DEF Closed
      <4>2. /\ f \in Fact /\ f = <<f[1], f[2]>> /\ fact = <<fact[1], fact[2]>>
        BY <1>1, <4>1 DEF Fact
      <4>3. ~Lost(fact, <<"links", f[2]>>)
        BY <4>1, <4>2 DEF Lost
      <4>4. f[1] = "routes" => ~Lost(fact, <<"addresses", f[2]>>)
        BY <4>1, <4>2 DEF Lost
      <4> QED BY <3>1, <4>1, <4>3, <4>4
    <3> QED BY <3>2 DEF Closed
  <2> QED BY <1>4, <2>1, <2>2
<1>9. Clean'
  BY <1>1, <1>2, <1>3, <1>4, <1>5 DEF Clean, Current, n
<1>10. \A c, l : Done(c, l)' <=> Done(c, l)
  BY <1>1, <1>2, <1>4, <1>5 DEF Done, n
<1>11. LinksFirst'
  BY <1>1, <1>2, <1>10 DEF LinksFirst, Enumerating
<1>12. ReplayInv'
  <2>1. PICK S : Replays(cache, queue, S) /\ Holds(S[n])
    BY <1>1 DEF ReplayInv, n
  <2> DEFINE End == S[n]
  <2>2. PICK T, F : /\ Replays(cache, queue', T) /\ F = T[Len(queue')]
                    /\ F = Handled(End, d)
    <3>1. d.kind # "busy"
      BY <1>4
    <3> QED BY <1>1, <1>4, <2>1, <3>1, ReplayQueued DEF n
  <2>3. End \subseteq facts /\ \A c \in Class, l \in Links :
            Done(c, l) /\ <<c, l>> \in facts => <<c, l>> \in End
    BY <2>1 DEF Holds
  <2> HIDE DEF End
  <2>4. Handled(End, d) \subseteq facts'
    <3>1. CASE d.op = "new" /\ facts' = facts \cup {fact}
      BY <1>6, <2>3, <3>1, WithIs
    <3>2. CASE d.op = "del" /\ facts' = Without(facts, fact)
      BY <1>6, <2>3, <3>2, WithoutIs
    <3> QED BY <1>4, <3>1, <3>2
  <2>5. ASSUME NEW c \in Class, NEW l \in Links, Done(c, l), <<c, l>> \in facts'
        PROVE  <<c, l>> \in Handled(End, d)
    <3>1. CASE d.op = "new" /\ facts' = facts \cup {fact}
      <4>1. CASE <<c, l>> \in facts
        BY <1>6, <2>3, <2>5, <3>1, <4>1, WithIs
      <4>2. CASE <<c, l>> = fact
        <5>1. c = "links" \/ <<"links", l>> \in End
          <6>1. CASE c # "links"
            <7>1. <<"links", l>> \in facts /\ whole["links"] = Links
              <8>1. fact[1] = c /\ fact[2] = l
                BY <4>2
              <8>2. whole["links"] = Links
                BY <1>1, <2>5, <6>1 DEF LinksFirst
              <8> QED BY <1>4, <3>1, <6>1, <8>1, <8>2
            <7>2. Done("links", l) /\ "links" \in Class
              BY <7>1 DEF Done, Class
            <7> QED BY <2>3, <7>1, <7>2
          <6> QED BY <6>1
        <5>2. <<c, l>> \in With(End, {fact})
          BY <4>2, <5>1, WithIs
        <5> QED BY <1>6, <3>1, <5>2
      <4> QED BY <2>5, <3>1, <4>1, <4>2
    <3>2. CASE d.op = "del" /\ facts' = Without(facts, fact)
      <4>1. <<c, l>> \in facts /\ ~Lost(fact, <<c, l>>)
        BY <2>5, <3>2, WithoutIs
      <4>2. <<c, l>> \in Without(End, fact)
        BY <2>3, <2>5, <4>1, WithoutIs
      <4> QED BY <1>6, <3>2, <4>2
    <3> QED BY <1>4, <3>1, <3>2
  <2>6. Holds(F)'
    BY <1>10, <2>2, <2>4, <2>5 DEF Holds
  <2> QED BY <1>2, <2>2, <2>6 DEF ReplayInv
<1> QED BY <1>4, <1>7, <1>8, <1>9, <1>11, <1>12 DEF ReplicaInv

\* The next part of a dump is read from the kernel's tables.
LEMMA PartReplays ==
    ASSUME ReplicaInv, Inv', NEW part \in SUBSET Links, NEW last \in BOOLEAN,
           DumpPart(part, last)
    PROVE  ReplicaInv'
<1> DEFINE n == Len(queue)
<1>0. /\ queue \in Seq(Datagram) /\ n \in Nat /\ facts \subseteq Fact
      /\ whole \in [Class -> SUBSET Links]
  BY LenProperties DEF ReplicaInv, Inv, TypeInv, TypeOK
<1>1. /\ dump.active
      /\ UNCHANGED <<facts, cache, cacheState, sequenceNumber, requested, whole, pc, socket>>
      /\ dump'.active => ~last /\ dump'.seq = dump.seq
  <2>1. CASE last
    BY <2>1 DEF DumpPart, NoDump, kernel, request, call
  <2>2. CASE ~last
    BY <2>2 DEF DumpPart, kernel, request, call, ReplicaInv, Inv, TypeInv, TypeOK
  <2> QED BY <2>1, <2>2
<1>2. /\ Enumerating /\ socket /\ pc # "user" /\ requested = cacheState
      /\ Closed /\ Clean /\ LinksFirst /\ ReplayInv
  BY <1>1 DEF ReplicaInv, Inv, ControlInv, Quiet
<1>3. /\ dump.seq = sequenceNumber /\ dump.class = cacheState /\ dump.class \in Class
      /\ dump.seq \in 1 .. SeqModulus - 1
  <2>1. dump.seq = sequenceNumber
    BY <1>1, <1>2 DEF Clean
  <2>2. dump.class = cacheState
    BY <1>1, <1>2, <2>1 DEF ReplicaInv, Inv, ReplyInv, ClassInv
  <2> QED BY <1>1, <2>1, <2>2, DumpAssumption DEF ReplicaInv, Inv, TypeInv, TypeOK
<1>4. PICK d \in Datagram :
         /\ d.kind = "part" /\ d.seq = dump.seq /\ d.class = dump.class
         /\ d.part = part /\ d.facts = facts \cap ({dump.class} \X part)
         /\ queue' = Append(queue, d)
  <2>1. PICK interrupted \in BOOLEAN : queue' = Append(queue,
            [kind |-> "part", seq |-> dump.seq, class |-> dump.class,
             part |-> part, facts |-> facts \cap ({dump.class} \X part),
             last |-> last, interrupted |-> interrupted])
    BY DEF DumpPart
  <2> DEFINE d == [kind |-> "part", seq |-> dump.seq, class |-> dump.class,
                   part |-> part, facts |-> facts \cap ({dump.class} \X part),
                   last |-> last, interrupted |-> interrupted]
  <2>2. facts \cap ({dump.class} \X part) \subseteq Fact
    BY <1>0
  <2>3. d \in Datagram
    BY <1>3, <2>2 DEF Datagram
  <2> QED BY <2>1, <2>3
<1>5. /\ Len(queue') = n + 1 /\ queue'[n + 1] = d
      /\ \A i \in 1 .. n : queue'[i] = queue[i]
  BY <1>0, <1>4, AppendOf
<1> HIDE DEF n
<1>6. Clean'
  BY <1>0, <1>1, <1>2, <1>3, <1>4, <1>5 DEF Clean, Current, n
<1>7. \A c, l : Done(c, l)' <=> Done(c, l) \/ (c = cacheState /\ l \in part)
  <2>1. ASSUME NEW c, NEW l, Done(c, l)'
        PROVE  Done(c, l) \/ (c = cacheState /\ l \in part)
    <3>1. CASE l \in whole[c]
      BY <3>1 DEF Done
    <3>2. CASE \E i \in 1 .. n + 1 :
                 queue'[i].kind = "part" /\ queue'[i].class = c /\ l \in queue'[i].part
      <4>1. PICK i \in 1 .. n + 1 :
                 queue'[i].kind = "part" /\ queue'[i].class = c /\ l \in queue'[i].part
        BY <3>2
      <4>2. CASE i = n + 1
        BY <1>3, <1>4, <1>5, <4>1, <4>2
      <4>3. CASE i \in 1 .. n
        BY <1>5, <4>1, <4>3 DEF Done, n
      <4> QED BY <1>0, <4>1, <4>2, <4>3
    <3> QED BY <1>1, <1>5, <2>1, <3>1, <3>2 DEF Done
  <2>2. ASSUME NEW c, NEW l, Done(c, l) PROVE Done(c, l)'
    BY <1>0, <1>1, <1>5, <2>2 DEF Done, n
  <2>3. ASSUME NEW c, c = cacheState, NEW l \in part PROVE Done(c, l)'
    <3>1. /\ n + 1 \in 1 .. Len(queue') /\ queue'[n + 1].kind = "part"
          /\ queue'[n + 1].class = c /\ l \in queue'[n + 1].part
      BY <1>0, <1>3, <1>4, <1>5, <2>3
    <3> QED BY <3>1 DEF Done
  <2> QED BY <2>1, <2>2, <2>3
<1>8. cacheState # "links" => whole["links"] = Links
  BY <1>3 DEF ReplicaInv, Inv, EnumerationIsWhole, Class
<1>9. LinksFirst'
  BY <1>1, <1>2, <1>7, <1>8 DEF LinksFirst, Enumerating
<1>10. ReplayInv'
  <2>1. PICK S : Replays(cache, queue, S) /\ Holds(S[n])
    BY <1>2 DEF ReplayInv, n
  <2> DEFINE End == S[n]
  <2>2. PICK T, F : /\ Replays(cache, queue', T) /\ F = T[Len(queue')]
                    /\ F = Handled(End, d)
    <3>1. d.kind # "busy"
      BY <1>4
    <3> QED BY <1>0, <1>4, <2>1, <3>1, ReplayQueued DEF n
  <2>3. End \subseteq facts /\ \A c \in Class, l \in Links :
            Done(c, l) /\ <<c, l>> \in facts => <<c, l>> \in End
    BY <2>1 DEF Holds
  <2> HIDE DEF End
  <2>4. F = With(End, d.facts)
    BY <1>4, <2>2 DEF Handled
  <2>5. F \subseteq facts
    BY <1>4, <2>3, <2>4, WithIs
  <2>6. ASSUME NEW c \in Class, NEW l \in Links, Done(c, l)', <<c, l>> \in facts
        PROVE  <<c, l>> \in F
    <3>1. CASE Done(c, l)
      BY <2>3, <2>4, <2>6, <3>1, WithIs
    <3>2. CASE c = cacheState /\ l \in part
      <4>1. <<c, l>> \in d.facts
        BY <1>3, <1>4, <2>6, <3>2
      <4>2. c = "links" \/ <<"links", l>> \in End
        <5>1. CASE c # "links"
          <6>1. whole["links"] = Links
            BY <1>8, <3>2, <5>1
          <6>2. Done("links", l) /\ "links" \in Class
            BY <6>1 DEF Done, Class
          <6>3. <<"links", l>> \in facts
            <7>1. <<c, l>>[2] = l
              OBVIOUS
            <7> QED BY <1>2, <2>6, <7>1 DEF Closed
          <6> QED BY <2>3, <6>2, <6>3
        <5> QED BY <5>1
      <4>3. <<c, l>>[1] = c /\ <<c, l>>[2] = l
        OBVIOUS
      <4> QED BY <2>4, <4>1, <4>2, <4>3, WithIs
    <3> QED BY <1>7, <2>6, <3>1, <3>2
  <2>7. Holds(F)'
    BY <1>1, <2>5, <2>6 DEF Holds
  <2> QED BY <1>1, <2>2, <2>7 DEF ReplayInv
<1>11. Closed'
  BY <1>1, <1>2 DEF Closed
<1> QED BY <1>6, <1>9, <1>10, <1>11 DEF ReplicaInv

-----------------------------------------------------------------------------
(* The monitor's side.                                                     *)

\* A datagram is handled: the rest of the list stays as it is.
LEMMA HandlingReplays ==
    ASSUME ReplicaInv, socket, NEW result \in {"ok", "stop"}, Receive(result),
           queue' = Tail(queue), cache' = Handled(cache, Head(queue))
    PROVE  /\ facts' = facts
           /\ \E T, F : /\ Replays(cache', queue', T) /\ F = T[Len(queue')]
                        /\ F \subseteq facts
                        /\ \A c \in Class, l \in Links :
                              Done(c, l) /\ <<c, l>> \in facts => <<c, l>> \in F
<1>1. queue \in Seq(Datagram) /\ queue # <<>> /\ facts' = facts
  BY DEF Receive, kernel, ReplicaInv, Inv, TypeInv, TypeOK
<1>2. PICK S : Replays(cache, queue, S) /\ Holds(S[Len(queue)])
  BY DEF ReplicaInv, ReplayInv
<1>3. PICK T : Replays(cache', queue', T) /\ T[Len(queue')] = S[Len(queue)]
  BY <1>1, <1>2, ReplayHandled
<1> QED BY <1>1, <1>2, <1>3 DEF Holds

\* What is read is a notification, or a part of the last dump, and stays read.
LEMMA HandlingCovers ==
    ASSUME ReplicaInv, socket, NEW result \in {"ok", "stop"}, Receive(result),
           queue' = Tail(queue)
    PROVE  LET covered == Covered(Head(queue))
           IN  /\ covered \in [Class -> SUBSET Links]
               /\ \A c \in Class : whole[c] \subseteq covered[c]
               /\ \A c \in Class, l \in Links : l \in covered[c] => Done(c, l)
               /\ \A c \in Class, l \in Links, i \in 1 .. Len(queue') :
                     queue'[i].kind = "part" /\ queue'[i].class = c /\ l \in queue'[i].part
                        => Done(c, l)
               /\ \A i \in 1 .. Len(queue') : queue'[i].kind = "note" \/ Current(queue'[i])
<1> DEFINE d == Head(queue)
           covered == Covered(d)
<1>1. /\ d = queue[1] /\ Len(queue) \in Nat /\ Len(queue) >= 1 /\ d \in Datagram
      /\ Len(queue') = Len(queue) - 1
      /\ \A i \in 1 .. Len(queue') : queue'[i] = queue[i + 1]
  <2>1. queue \in Seq(Datagram) /\ queue # <<>>
    BY DEF Receive, ReplicaInv, Inv, TypeInv, TypeOK
  <2> QED BY <2>1, TailOf
<1>2. whole \in [Class -> SUBSET Links] /\ Clean
  BY DEF ReplicaInv, Inv, TypeInv, TypeOK
<1>3. covered \in [Class -> SUBSET Links] /\ \A c \in Class : whole[c] \subseteq covered[c]
  BY <1>1, <1>2, DatagramKinds DEF Covered
<1>4. ASSUME NEW c \in Class, NEW l \in covered[c] PROVE Done(c, l)
  <2>1. CASE l \in whole[c]
    BY <2>1 DEF Done
  <2>2. CASE l \notin whole[c]
    <3>1. d.kind = "part" /\ c = d.class /\ l \in d.part
      BY <1>1, <1>2, <1>4, <2>2, DatagramKinds DEF Covered
    <3>2. 1 \in 1 .. Len(queue)
      BY <1>1
    <3> QED BY <1>1, <3>1, <3>2 DEF Done
  <2> QED BY <2>1, <2>2
<1>5. ASSUME NEW c \in Class, NEW l \in Links, NEW i \in 1 .. Len(queue'),
             queue'[i].kind = "part", queue'[i].class = c, l \in queue'[i].part
      PROVE  Done(c, l)
  <2>1. i + 1 \in 1 .. Len(queue) /\ queue'[i] = queue[i + 1]
    BY <1>1
  <2> QED BY <1>5, <2>1 DEF Done
<1>6. \A i \in 1 .. Len(queue') : queue'[i].kind = "note" \/ Current(queue'[i])
  <2>1. \A i \in 1 .. Len(queue') : i + 1 \in 1 .. Len(queue)
    BY <1>1
  <2> QED BY <1>1, <1>2, <2>1 DEF Clean
<1> HIDE DEF covered, d
<1> QED BY <1>3, <1>4, <1>5, <1>6 DEF covered, d

\* Nothing is read, queued or sent.
LEMMA NothingRead ==
    ASSUME ReplicaInv, Inv', Enumerating => pc' # "user",
           UNCHANGED <<facts, queue, dump, cache, cacheState, sequenceNumber, whole, socket>>
    PROVE  ReplicaInv' /\ UNCHANGED Mirror!replication
<1>1. socket => Closed' /\ Clean' /\ LinksFirst' /\ ReplayInv'
  BY DEF ReplicaInv, Closed, Clean, LinksFirst, ReplayInv, Replays, Holds, Done, Current,
         Enumerating
<1>2. UNCHANGED Mirror!replication
  BY DEF Mirror!replication, Enumerating
<1> QED BY <1>1, <1>2 DEF ReplicaInv

\* stop: nothing is read any more.
LEMMA StopReplicates ==
    ASSUME ReplicaInv, Inv', CloseSocket, facts' = facts
    PROVE  ReplicaInv' /\ Mirror!Next
<1>1. socket /\ ~socket'
  BY DEF CloseSocket
<1>2. Mirror!Disconnect
  BY <1>1 DEF Mirror!Disconnect
<1> QED BY <1>1, <1>2 DEF ReplicaInv, Mirror!Next

\* The kernel's steps extend the log.
LEMMA KernelReplicates ==
    ASSUME ReplicaInv, Inv', Undisturbed',
           \/ \E fact \in Fact, seq \in {0, FOREIGN} : NetworkChanges(fact, seq)
           \/ KernelStep
    PROVE  ReplicaInv' /\ Mirror!Next
<1>1. ASSUME NEW fact \in Fact, NEW seq \in {0, FOREIGN}, NetworkChanges(fact, seq)
      PROVE  ReplicaInv' /\ Mirror!Next
  <2>1. ReplicaInv' /\ \E d \in Datagram : /\ queue' = Append(queue, d)
                                           /\ facts' = Handled(facts, d)
    BY <1>1, ChangeReplays
  <2>2. PICK d \in Datagram : queue' = Append(queue, d) /\ facts' = Handled(facts, d)
    BY <2>1
  <2>3. queue \in Seq(Datagram)
    BY DEF ReplicaInv, Inv, TypeInv, TypeOK
  <2>4. /\ Len(queue) \in Nat /\ Len(queue') = Len(queue) + 1
        /\ queue'[Len(queue')] = d
    BY <2>2, <2>3, AppendOf
  <2>5. Len(queue') > Len(queue) /\ Mirror!Last(queue') = d
    BY <2>4 DEF Mirror!Last
  <2>6. socket /\ UNCHANGED <<cache, cacheState, socket>>
    BY <1>1 DEF NetworkChanges, call
  <2>7. Mirror!SourceChanges
    BY <2>2, <2>5, <2>6 DEF Mirror!SourceChanges, Enumerating
  <2> QED BY <2>1, <2>7 DEF Mirror!Next
<1>2. ASSUME NEW part \in SUBSET Links, NEW last \in BOOLEAN, DumpPart(part, last)
      PROVE  ReplicaInv' /\ Mirror!Next
  <2>1. ReplicaInv'
    BY <1>2, PartReplays
  <2>2. dump.active /\ UNCHANGED <<facts, cacheState, socket>>
    BY <1>2 DEF DumpPart, kernel, call
  <2>3. Enumerating /\ socket
    BY <2>2 DEF ReplicaInv, Inv, ControlInv, Quiet
  <2>4. Mirror!Load
    BY <2>2, <2>3 DEF Mirror!Load, Enumerating
  <2> QED BY <2>1, <2>4 DEF Mirror!Next
<1> QED BY <1>1, <1>2 DEF KernelStep

\* A datagram that is not the end of a dump is loaded or replayed.
LEMMA DataReplicates ==
    ASSUME ReplicaInv, Inv', ReceiveData
    PROVE  ReplicaInv' /\ Mirror!Next
<1>1. /\ Receive("ok") /\ socket /\ queue # <<>>
      /\ queue' = Tail(queue) /\ cache' = Handled(cache, Head(queue))
      /\ whole' = Covered(Head(queue)) /\ pc' = "notify"
      /\ UNCHANGED <<dump, cacheState, sequenceNumber, socket>>
  BY DEF ReceiveData, Receive, call
<1>2. /\ facts' = facts
      /\ \E T, F : /\ Replays(cache', queue', T) /\ F = T[Len(queue')]
                   /\ F \subseteq facts
                   /\ \A c \in Class, l \in Links :
                         Done(c, l) /\ <<c, l>> \in facts => <<c, l>> \in F
  BY <1>1, HandlingReplays
<1>3. /\ whole' \in [Class -> SUBSET Links] /\ \A c \in Class : whole[c] \subseteq whole'[c]
      /\ \A c \in Class, l \in Links : Done(c, l)' => Done(c, l)
      /\ \A i \in 1 .. Len(queue') : queue'[i].kind = "note" \/ Current(queue[i])'
  BY <1>1, HandlingCovers DEF Done, Current
<1>4. Closed' /\ Clean'
  BY <1>1, <1>2, <1>3 DEF ReplicaInv, Closed, Clean
<1>5. LinksFirst'
  <2>1. "links" \in Class
    BY DEF Class
  <2> QED BY <1>1, <1>3, <2>1 DEF ReplicaInv, LinksFirst
<1>6. ReplayInv'
  <2>1. PICK T, F : /\ Replays(cache', queue', T) /\ F = T[Len(queue')]
                    /\ F \subseteq facts
                    /\ \A c \in Class, l \in Links :
                          Done(c, l) /\ <<c, l>> \in facts => <<c, l>> \in F
    BY <1>2
  <2>2. Holds(F)'
    BY <1>2, <1>3, <2>1 DEF Holds
  <2> QED BY <2>1, <2>2 DEF ReplayInv
<1>7. CASE Enumerating
  <2>1. Mirror!Load
    BY <1>1, <1>2, <1>7 DEF Mirror!Load, Enumerating
  <2> QED BY <1>1, <1>4, <1>5, <1>6, <2>1 DEF ReplicaInv, Mirror!Next
<1>8. CASE ~Enumerating
  <2>1. Mirror!Replay
    BY <1>1, <1>2, <1>8 DEF Mirror!Replay, Enumerating
  <2> QED BY <1>1, <1>4, <1>5, <1>6, <2>1 DEF ReplicaInv, Mirror!Next
<1> QED BY <1>7, <1>8

\* The end of a dump: the next one starts with nothing covered, or everything
\* has been read, and what is left in the queue makes up the facts.
LEMMA EndReplicates ==
    ASSUME ReplicaInv, Inv', ReceiveEnd
    PROVE  ReplicaInv' /\ Mirror!Next
<1> DEFINE covered == Covered(Head(queue))
<1>1. /\ Receive("stop") /\ socket /\ socket' /\ queue # <<>>
      /\ cache' = Handled(cache, Head(queue))
  BY DEF ReceiveEnd, Receive
<1>2. /\ Enumerating /\ ~dump.active
      /\ \A j \in 1 .. Len(Tail(queue)) : Tail(queue)[j].kind = "note"
  BY <1>1, HandledIsCurrent DEF ReplicaInv
<1>3. /\ \/ /\ cacheState \in {"links", "addresses"} /\ cacheState' = Following[cacheState]
            /\ Send(Following[cacheState], Tail(queue), covered) /\ pc' = "notify"
         \/ /\ cacheState \notin {"links", "addresses"} /\ cacheState' = "waiting"
            /\ whole' = covered /\ queue' = Tail(queue) /\ dump' = dump
  BY DEF ReceiveEnd
<1>4. /\ queue' = Tail(queue)
      /\ dump'.active => dump'.seq = sequenceNumber'
      /\ Enumerating' => pc' # "user"
      /\ \A c \in Class : whole'[c] \in {covered[c], {}}
      /\ whole'["links"] = covered["links"]
  <2>1. covered \in [Class -> SUBSET Links]
    <3>1. queue \in Seq(Datagram)
      BY DEF ReplicaInv, Inv, TypeInv, TypeOK
    <3>2. Head(queue) \in Datagram
      BY <1>1, <3>1, TailOf
    <3> QED BY <3>2, DatagramKinds DEF Covered, ReplicaInv, Inv, TypeInv, TypeOK
  <2> HIDE DEF covered
  <2>2. CASE /\ cacheState \in {"links", "addresses"}
             /\ Send(Following[cacheState], Tail(queue), covered) /\ pc' = "notify"
    <3>1. Following[cacheState] \in {"addresses", "routes"}
      BY <2>2 DEF Following
    <3> QED BY <1>2, <2>1, <2>2, <3>1 DEF Send, Class
  <2>3. CASE /\ cacheState' = "waiting" /\ whole' = covered
             /\ queue' = Tail(queue) /\ dump' = dump
    BY <1>2, <2>1, <2>3 DEF Enumerating
  <2> QED BY <1>3, <2>2, <2>3
<1>5. /\ facts' = facts
      /\ \E T, F : /\ Replays(cache', queue', T) /\ F = T[Len(queue')]
                   /\ F \subseteq facts
                   /\ \A c \in Class, l \in Links :
                         Done(c, l) /\ <<c, l>> \in facts => <<c, l>> \in F
  BY <1>1, <1>4, HandlingReplays
<1>6. /\ covered \in [Class -> SUBSET Links]
      /\ \A c \in Class : whole[c] \subseteq covered[c]
      /\ \A c \in Class, l \in Links : l \in covered[c] => Done(c, l)
  BY <1>1, <1>4, HandlingCovers
<1>7. \A i \in 1 .. Len(queue') : queue'[i].kind = "note"
  BY <1>2, <1>4
<1>8. \A c \in Class, l \in Links : Done(c, l)' => Done(c, l)
  BY <1>4, <1>6, <1>7 DEF Done
<1>9. Closed' /\ Clean'
  BY <1>1, <1>4, <1>5, <1>7 DEF ReplicaInv, Closed, Clean
<1>10. LinksFirst'
  <2>1. "links" \in Class
    BY DEF Class
  <2> QED BY <1>1, <1>4, <1>6, <1>8, <2>1 DEF ReplicaInv, LinksFirst
<1>11. PICK T, F : /\ Replays(cache', queue', T) /\ F = T[Len(queue')]
                   /\ F \subseteq facts
                   /\ \A c \in Class, l \in Links :
                         Done(c, l) /\ <<c, l>> \in facts => <<c, l>> \in F
  BY <1>5
<1>12. ReplayInv'
  <2>1. Holds(F)'
    BY <1>5, <1>8, <1>11 DEF Holds
  <2> QED BY <1>11, <2>1 DEF ReplayInv
<1>13. ASSUME ~Enumerating' PROVE F = facts
  <2>1. \A c \in Class : whole'[c] = Links
    BY <1>13 DEF Inv, EnumerationIsWhole, Enumerating, Class
  <2>2. \A f \in facts : f \in F
    <3>1. SUFFICES ASSUME NEW f \in facts PROVE f \in F
      OBVIOUS
    <3>2. PICK c \in Class, l \in Links : f = <<c, l>>
      BY <3>1 DEF ReplicaInv, Inv, TypeInv, TypeOK, Fact
    <3>3. Done(c, l)
      BY <1>8, <2>1, <3>2 DEF Done
    <3> QED BY <1>11, <3>1, <3>2, <3>3
  <2> QED BY <1>11, <2>2
<1>14. Mirror!Replayed(cache', queue') = F
  <2>1. queue' \in Seq(Datagram)
    BY DEF Inv, TypeInv, TypeOK
  <2> QED BY <1>11, <2>1, ReplayedIs
<1>15. Mirror!Load
  BY <1>1, <1>2, <1>5, <1>13, <1>14 DEF Mirror!Load
<1> QED BY <1>1, <1>9, <1>10, <1>12, <1>15 DEF ReplicaInv, Mirror!Next

\* The program's calls.
LEMMA ClientReplicates ==
    ASSUME ReplicaInv, Inv', CalmClient,
           \/ EnumerateInterfaces \/ Run \/ RunStopped \/ Stop
           \/ \E link \in Links : Reenter(link)
           \/ \E handled \in SUBSET Fact : StopWhileHandling(handled)
    PROVE  ReplicaInv' /\ (Mirror!Next \/ UNCHANGED Mirror!replication)
<1>1. ASSUME NEW which, Enter(which)
      PROVE  ReplicaInv' /\ UNCHANGED Mirror!replication
  <2>1. /\ pc = "user" /\ pc' = "recv" /\ socket /\ UNCHANGED <<facts, cache, cacheState, socket>>
    BY <1>1 DEF Enter, kernel
  <2>2. CASE Enumerating
    <3>1. /\ Send("links", queue, whole) /\ ~dump.active
          /\ \A i \in 1 .. Len(queue) : queue[i].kind = "note"
      BY <1>1, <2>1, <2>2 DEF Enter, ReplicaInv, Inv, ControlInv, Quiet
    <3>2. /\ queue' = queue /\ dump'.active /\ dump'.seq = sequenceNumber'
          /\ whole' = [whole EXCEPT !["links"] = {}]
      BY <3>1 DEF Send
    <3>3. \A c \in Class : whole[c] = {} /\ whole'[c] = {}
      BY <2>1, <2>2, <3>2 DEF ReplicaInv, LinksFirst, Inv, TypeInv, TypeOK
    <3>4. \A c \in Class : \A l : Done(c, l)' => Done(c, l)
      BY <3>2, <3>3 DEF Done
    <3>5. Clean'
      BY <3>1, <3>2 DEF Clean
    <3>6. Closed'
      BY <2>1 DEF ReplicaInv, Closed
    <3>7. LinksFirst'
      <4>1. \A c \in Class : \A l : ~Done(c, l)'
        BY <3>1, <3>2, <3>3 DEF Done
      <4> QED BY <3>3, <4>1 DEF LinksFirst
    <3>8. ReplayInv'
      BY <2>1, <3>2, <3>4 DEF ReplicaInv, ReplayInv, Replays, Holds
    <3>9. UNCHANGED Mirror!replication
      BY <2>1, <3>2 DEF Mirror!replication, Enumerating
    <3> QED BY <3>5, <3>6, <3>7, <3>8, <3>9 DEF ReplicaInv
  <2>3. CASE ~Enumerating
    <3>1. UNCHANGED <<sequenceNumber, whole, queue, dump>>
      BY <1>1, <2>3 DEF Enter, request
    <3> QED BY <2>1, <3>1, NothingRead
  <2> QED BY <2>2, <2>3
<1>2. CASE EnumerateInterfaces
  <2>1. socket
    BY <1>2 DEF EnumerateInterfaces, ReplicaInv, Inv, ControlInv
  <2> QED BY <1>1, <1>2, <2>1 DEF EnumerateInterfaces
<1>3. CASE Run
  BY <1>1, <1>3 DEF Run
<1>4. CASE \E link \in Links : Reenter(link)
  BY <1>4, EmptySeq DEF Reenter, CalmClient, ReplicaInv, Inv, ControlInv, Unnested
<1>5. CASE RunStopped
  <2>1. pc' = "stopped" /\ UNCHANGED <<facts, queue, dump, cache, cacheState,
                                       sequenceNumber, whole, socket>>
    BY <1>5 DEF RunStopped, kernel, channel, request, call
  <2> QED BY <2>1, NothingRead
<1>6. CASE Stop
  <2>1. CloseSocket /\ facts' = facts
    BY <1>6 DEF Stop, kernel
  <2> QED BY <2>1, StopReplicates
<1>7. ASSUME NEW handled, StopWhileHandling(handled)
      PROVE  ReplicaInv' /\ Mirror!Next
  <2>1. CloseSocket /\ facts' = facts
    BY <1>7 DEF StopWhileHandling, Receive, kernel
  <2> QED BY <2>1, StopReplicates
<1> QED BY <1>2, <1>3, <1>4, <1>5, <1>6, <1>7

\* The rest of the monitor's steps read nothing, as long as it is undisturbed.
LEMMA MonitorReplicates ==
    ASSUME ReplicaInv, Inv', Undisturbed, Undisturbed', MonitorStep
    PROVE  ReplicaInv' /\ (Mirror!Next \/ UNCHANGED Mirror!replication)
<1>1. CASE ReceiveData
  BY <1>1, DataReplicates
<1>2. CASE ReceiveEnd
  BY <1>2, EndReplicates
<1>3. CASE ReceiveError
  <2>1. Receive("error") /\ queue # <<>>
    BY <1>3 DEF ReceiveError, Receive
  <2>2. Enumerating
    BY <2>1, HandledIsCurrent DEF ReplicaInv
  <2> QED BY <1>3, <2>2 DEF ReceiveError, Undisturbed
<1>4. CASE ReceiveNothing
  <2>1. /\ UNCHANGED <<facts, queue, dump, cache, cacheState, sequenceNumber, whole, socket>>
        /\ Enumerating => pc' # "user"
    BY <1>4 DEF ReceiveNothing, kernel, request
  <2> QED BY <2>1, NothingRead
<1>5. CASE FinishNotify
  <2>1. UNCHANGED <<facts, queue, dump, cache, sequenceNumber, whole, socket>>
    BY <1>5 DEF FinishNotify, kernel, channel, request
  <2>2. cacheState' = cacheState /\ (Enumerating => pc' # "user")
    BY <1>5 DEF FinishNotify, GoesOn, EndAfterStop, Mismatch, ReplicaInv, Inv, ControlInv,
                Enumerating
  <2> QED BY <2>1, <2>2, NothingRead
<1>6. CASE Drain
  BY <1>6 DEF Drain, Undisturbed
<1>7. CASE Retry
  BY <1>7 DEF Retry, Undisturbed
<1> QED BY <1>1, <1>2, <1>3, <1>4, <1>5, <1>6, <1>7 DEF MonitorStep

\* One step per action: it keeps the invariant and is a step of the replica or
\* none.
LEMMA NextReplicates ==
    ASSUME ReplicaInv, CalmClient, Undisturbed, Undisturbed', [Next]_vars
    PROVE  ReplicaInv' /\ [Mirror!Next]_(Mirror!replication)
<1>1. Inv'
  <2>1. Counted'
    BY DEF Counted, Undisturbed
  <2> QED BY <2>1, NextInv DEF ReplicaInv
<1>2. ASSUME NEW fact \in Fact, NEW seq \in IF Foreign THEN {0, FOREIGN} ELSE {0},
             NetworkChanges(fact, seq)
      PROVE  ReplicaInv' /\ Mirror!Next
  <2>1. seq \in {0, FOREIGN}
    BY <1>2
  <2> QED BY <1>1, <1>2, <2>1, KernelReplicates
<1>3. CASE KernelStep
  BY <1>1, <1>3, KernelReplicates
<1>4. CASE UNCHANGED vars
  <2>1. UNCHANGED <<facts, queue, dump, cache, cacheState, sequenceNumber, whole, socket, pc>>
    BY <1>4 DEF vars
  <2>2. socket => Closed' /\ Clean' /\ LinksFirst' /\ ReplayInv'
    BY <2>1 DEF ReplicaInv, Closed, Clean, LinksFirst, ReplayInv, Replays, Holds, Done,
                Current, Enumerating
  <2>3. UNCHANGED Mirror!replication
    BY <2>1 DEF Mirror!replication, Enumerating
  <2> QED BY <1>1, <2>1, <2>2, <2>3 DEF ReplicaInv
<1> QED BY <1>1, <1>2, <1>3, <1>4, ClientReplicates, MonitorReplicates DEF Next

\* Nothing is queued at first, and nothing has been loaded.
LEMMA InitReplicates == Init => ReplicaInv /\ Mirror!Init
<1> SUFFICES ASSUME Init PROVE ReplicaInv /\ Mirror!Init
  OBVIOUS
<1>1. Inv
  BY InitInv
<1>2. Len(queue) = 0 /\ ~dump.active
  BY EmptySeq DEF Init, NoDump
<1>3. \A c \in Class : \A l : ~Done(c, l) /\ whole[c] = {}
  BY <1>2 DEF Init, Done
<1>4. Closed /\ Clean /\ LinksFirst
  BY <1>2, <1>3, DumpAssumption DEF Init, Closed, Clean, LinksFirst
<1>5. ReplayInv
  <2> DEFINE S == [k \in 0 .. 0 |-> {}]
  <2>1. Replays(cache, queue, S) /\ S[Len(queue)] = {}
    BY <1>2 DEF Init, Replays
  <2>2. Holds({})
    BY <1>3 DEF Holds
  <2> QED BY <2>1, <2>2 DEF ReplayInv
<1>6. Mirror!Init
  BY DEF Init, Mirror!Init, Enumerating
<1> QED BY <1>1, <1>4, <1>5, <1>6 DEF ReplicaInv

-----------------------------------------------------------------------------
(* When nothing disturbs the enumeration.                                  *)

\* Nothing in the queue asks for a retry.
Plain == \A i \in 1 .. Len(queue) :
            /\ queue[i].kind = "note" => queue[i].seq = 0
            /\ queue[i].kind = "part" => ~queue[i].interrupted

\* The kernel's dumps are not interrupted by changes, and notifications are
\* nobody's answers.
CalmKernel == ~Interrupts /\ ~Foreign

\* Handling a datagram asks for no retry later.
LEMMA PlainTail ==
    ASSUME TypeInv, Plain, queue # <<>>, queue' = Tail(queue)
    PROVE  Plain'
<1>1. /\ Len(queue) \in Nat /\ Len(queue') = Len(queue) - 1
      /\ \A i \in 1 .. Len(queue') : i + 1 \in 1 .. Len(queue) /\ queue'[i] = queue[i + 1]
  <2>1. queue \in Seq(Datagram)
    BY DEF TypeInv, TypeOK
  <2> QED BY <2>1, TailOf
<1> QED BY <1>1 DEF Plain

\* Nor does a datagram that is plain itself.
LEMMA PlainAppend ==
    ASSUME TypeInv, Plain, NEW d \in Datagram, queue' = Append(queue, d),
           d.kind = "note" => d.seq = 0, d.kind = "part" => ~d.interrupted
    PROVE  Plain'
<1>1. /\ Len(queue) \in Nat /\ Len(queue') = Len(queue) + 1
      /\ queue'[Len(queue) + 1] = d
      /\ \A i \in 1 .. Len(queue) : queue'[i] = queue[i]
  <2>1. queue \in Seq(Datagram)
    BY DEF TypeInv, TypeOK
  <2> QED BY <2>1, AppendOf
<1>2. ASSUME NEW i \in 1 .. Len(queue')
      PROVE  /\ queue'[i].kind = "note" => queue'[i].seq = 0
             /\ queue'[i].kind = "part" => ~queue'[i].interrupted
  <2>1. CASE i \in 1 .. Len(queue)
    BY <1>1, <2>1 DEF Plain
  <2>2. CASE i = Len(queue) + 1
    BY <1>1, <2>2
  <2> QED BY <1>1, <2>1, <2>2
<1> QED BY <1>2 DEF Plain

\* The monitor does not come to repeat a request.
LEMMA NextPlain ==
    ASSUME ReplicaInv, Plain, CalmClient, CalmKernel, Undisturbed, ~overrun', [Next]_vars
    PROVE  Plain' /\ Undisturbed'
<1>0. TypeInv /\ Inv
  BY DEF ReplicaInv, Inv
<1>1. ASSUME queue' = queue PROVE Plain'
  BY <1>1 DEF Plain
<1>2. ASSUME queue' = <<>> PROVE Plain'
  BY <1>2, EmptySeq DEF Plain
<1>3. ASSUME NEW fact \in Fact, NEW seq \in IF Foreign THEN {0, FOREIGN} ELSE {0},
             NetworkChanges(fact, seq)
      PROVE  Plain' /\ pc' = pc
  <2>1. seq = 0
    BY <1>3 DEF CalmKernel
  <2>2. PICK op \in {"new", "del"} : Multicast(Note(op, fact, seq))
    BY <1>3 DEF NetworkChanges
  <2>3. /\ Note(op, fact, seq) \in Datagram /\ Note(op, fact, seq).seq = 0
        /\ Note(op, fact, seq).kind = "note"
    BY <2>1, NoteType DEF Note
  <2> DEFINE d == Note(op, fact, seq)
  <2>4. queue' = Append(queue, d) \/ queue' = queue
    BY <2>2 DEF Multicast
  <2> HIDE DEF d
  <2>5. d \in Datagram /\ d.seq = 0 /\ d.kind = "note"
    BY <2>3 DEF d
  <2>6. Plain'
    BY <1>0, <1>1, <2>4, <2>5, PlainAppend
  <2> QED BY <1>3, <2>6 DEF NetworkChanges
<1>4. CASE KernelStep
  <2>1. PICK part \in SUBSET Links, last \in BOOLEAN : DumpPart(part, last)
    BY <1>4 DEF KernelStep
  <2>2. queue' = Append(queue,
            [kind |-> "part", seq |-> dump.seq, class |-> dump.class,
             part |-> part, facts |-> facts \cap ({dump.class} \X part),
             last |-> last, interrupted |-> FALSE])
    BY <2>1 DEF DumpPart, CalmKernel
  <2> DEFINE d == [kind |-> "part", seq |-> dump.seq, class |-> dump.class,
                   part |-> part, facts |-> facts \cap ({dump.class} \X part),
                   last |-> last, interrupted |-> FALSE]
  <2>3. d \in Datagram
    <3>1. /\ dump.class \in Class /\ dump.seq \in 1 .. SeqModulus - 1
          /\ facts \cap ({dump.class} \X part) \subseteq Fact
      BY <1>0, <2>1, DumpAssumption DEF DumpPart, TypeInv, TypeOK
    <3> QED BY <3>1 DEF Datagram
  <2>4. d.kind = "part" /\ ~d.interrupted
    OBVIOUS
  <2> HIDE DEF d
  <2>5. Plain'
    BY <1>0, <2>2, <2>3, <2>4, PlainAppend DEF d
  <2> QED BY <2>1, <2>5 DEF DumpPart, Undisturbed
<1>5. ASSUME NEW which, Enter(which) PROVE Plain' /\ pc' # "drain"
  <2>1. queue' = queue
    <3>1. CASE Enumerating
      BY <1>0, <1>5, <3>1 DEF Enter, Inv, ControlInv, Quiet, Send
    <3>2. CASE ~Enumerating
      BY <1>5, <3>2 DEF Enter
    <3> QED BY <3>1, <3>2
  <2> QED BY <1>1, <1>5, <2>1 DEF Enter
<1>6. CASE EnumerateInterfaces
  BY <1>1, <1>5, <1>6 DEF EnumerateInterfaces, channel, Undisturbed
<1>7. CASE Run
  BY <1>5, <1>7 DEF Run, Undisturbed
<1>8. CASE \E link \in Links : Reenter(link)
  BY <1>8, EmptySeq DEF Reenter, CalmClient, ReplicaInv, Inv, ControlInv, Unnested
<1>9. CASE RunStopped
  BY <1>1, <1>9 DEF RunStopped, channel, Undisturbed
<1>10. CASE Stop
  BY <1>2, <1>10 DEF Stop, CloseSocket, Undisturbed
<1>11. ASSUME NEW handled, StopWhileHandling(handled) PROVE Plain' /\ pc' # "drain"
  BY <1>2, <1>11 DEF StopWhileHandling, CloseSocket, EndAfterStop, Return
<1>12. CASE ReceiveData
  <2>1. queue # <<>> /\ queue' = Tail(queue) /\ pc' = "notify"
    BY <1>12 DEF ReceiveData, Receive
  <2> QED BY <1>0, <2>1, PlainTail DEF Undisturbed
<1>13. CASE ReceiveEnd
  <2>1. Receive("stop") /\ queue # <<>>
    BY <1>13 DEF ReceiveEnd, Receive
  <2>2. ~dump.active
    BY <1>0, <2>1, HandledIsCurrent
  <2>3. queue' = Tail(queue) /\ pc' # "drain"
    BY <1>13, <2>2 DEF ReceiveEnd, Send, Return
  <2> QED BY <1>0, <2>1, <2>3, PlainTail DEF Undisturbed
<1>14. CASE ReceiveError
  <2>1. Receive("error") /\ queue # <<>> /\ socket
    BY <1>14 DEF ReceiveError, Receive
  <2>2. Enumerating
    BY <1>0, <2>1, HandledIsCurrent
  <2> DEFINE d == Head(queue)
  <2>3. d \in Datagram /\ d = queue[1] /\ 1 \in 1 .. Len(queue)
    BY <1>0, <2>1, TailOf DEF TypeInv, TypeOK
  <2>4. Result(d) = "error"
    BY <2>1 DEF Receive
  <2> HIDE DEF d
  <2>5. d.kind = "note" \/ Current(d)
    BY <2>1, <2>3 DEF ReplicaInv, Clean
  <2>6. CASE d.kind = "note"
    <3>1. d.seq = 0
      BY <2>3, <2>6 DEF Plain
    <3> QED BY <2>4, <2>6, <3>1 DEF Result, Mismatch
  <2>7. CASE Current(d)
    <3>1. d.kind = "part" /\ ~d.interrupted /\ d.seq = sequenceNumber
      BY <2>3, <2>7 DEF Plain, Current
    <3> QED BY <2>4, <3>1 DEF Result, Mismatch
  <2> QED BY <2>5, <2>6, <2>7
<1>15. CASE ReceiveNothing
  BY <1>1, <1>15 DEF ReceiveNothing, Return, Undisturbed
<1>16. CASE FinishNotify
  BY <1>1, <1>16 DEF FinishNotify, GoesOn, EndAfterStop, Return, channel, Undisturbed
<1>17. CASE Drain
  BY <1>17 DEF Drain, Undisturbed
<1>18. CASE Retry
  BY <1>18 DEF Retry, Undisturbed
<1>19. CASE UNCHANGED vars
  BY <1>1, <1>19 DEF vars, Undisturbed
<1>20. CASE Next
  BY <1>3, <1>4, <1>6, <1>7, <1>8, <1>9, <1>10, <1>11, <1>12, <1>13, <1>14, <1>15,
     <1>16, <1>17, <1>18, <1>20 DEF Next, MonitorStep, Undisturbed
<1> QED BY <1>19, <1>20 DEF Undisturbed

-----------------------------------------------------------------------------
(* What follows.                                                           *)

\* As long as no notification is lost and no request is repeated, the cache
\* implements the replica: however the three dumps and the notifications of
\* changes race, the cache that the enumeration ends with, and what is still in
\* the socket, make up the kernel's facts; and then change after change is
\* replayed, none left out and none twice.
THEOREM CacheIsReplica ==
    ASSUME CalmClient
    PROVE  Spec /\ []Undisturbed => IsReplica
<1>1. ReplicaInv /\ Undisturbed /\ Undisturbed' /\ [Next]_vars =>
          ReplicaInv' /\ [Mirror!Next]_(Mirror!replication)
  BY NextReplicates
<1>2. Init => ReplicaInv /\ Mirror!Init
  BY InitReplicates
<1> QED BY <1>1, <1>2, PTL DEF Spec, IsReplica, Mirror!Spec

\* So a complete cache with nothing left to receive is what the kernel says.
THEOREM CacheMirrors ==
    ASSUME CalmClient
    PROVE  Spec /\ []Undisturbed => []CacheMirrorsKernel
<1>1. ReplicaInv /\ Undisturbed /\ Undisturbed' /\ [Next]_vars => ReplicaInv'
  BY NextReplicates
<1>2. Init => ReplicaInv
  BY InitReplicates
<1>3. ReplicaInv => CacheMirrorsKernel
  <2>1. SUFFICES ASSUME ReplicaInv, socket, cacheState = "waiting", queue = <<>>
                 PROVE  cache = facts
    BY DEF CacheMirrorsKernel
  <2>2. PICK S : Replays(cache, queue, S) /\ Holds(S[Len(queue)])
    BY <2>1 DEF ReplicaInv, ReplayInv
  <2>3. Len(queue) = 0 /\ S[0] = cache
    BY <2>1, <2>2, EmptySeq DEF Replays
  <2>4. \A c \in Class : whole[c] = Links
    BY <2>1 DEF ReplicaInv, Inv, EnumerationIsWhole, Class
  <2>5. \A f \in facts : f \in cache
    <3>1. SUFFICES ASSUME NEW f \in facts PROVE f \in cache
      OBVIOUS
    <3>2. PICK c \in Class, l \in Links : f = <<c, l>>
      BY <2>1, <3>1 DEF ReplicaInv, Inv, TypeInv, TypeOK, Fact
    <3>3. Done(c, l)
      BY <2>4, <3>2 DEF Done
    <3> QED BY <2>2, <2>3, <3>1, <3>2, <3>3 DEF Holds
  <2> QED BY <2>2, <2>3, <2>5 DEF Holds
<1> QED BY <1>1, <1>2, <1>3, PTL DEF Spec

\* A kernel that neither marks its dumps as interrupted nor puts another
\* program's number on a notification disturbs nothing but by an overrun.
THEOREM CalmIsUndisturbed ==
    ASSUME CalmClient, CalmKernel
    PROVE  Spec /\ [](~overrun) => []Undisturbed
<1> DEFINE I == ReplicaInv /\ Plain /\ Undisturbed
<1>1. Init => I
  <2>1. Init => Plain /\ Undisturbed
    BY EmptySeq DEF Init, Plain, Undisturbed
  <2> QED BY <2>1, InitReplicates
<1>2. I /\ ~overrun' /\ [Next]_vars => I'
  BY NextPlain, NextReplicates
<1>3. I => Undisturbed
  OBVIOUS
<1> HIDE DEF I
<1> QED BY <1>1, <1>2, <1>3, PTL DEF Spec

\* On a calm network only a lost notification makes the cache wrong.
THEOREM CalmCacheMirrors ==
    ASSUME CalmClient, CalmKernel
    PROVE  Spec /\ [](~overrun) => IsReplica /\ []CacheMirrorsKernel
<1>1. Spec /\ [](~overrun) => []Undisturbed
  BY CalmIsUndisturbed
<1>2. Spec /\ []Undisturbed => IsReplica
  BY CacheIsReplica
<1>3. Spec /\ []Undisturbed => []CacheMirrorsKernel
  BY CacheMirrors
<1> QED BY <1>1, <1>2, <1>3, PTL
=============================================================================
