------------------------ MODULE AddressMessage_proofs ------------------------
(***************************************************************************)
(* An address message becomes the kernel's address, for all addresses and  *)
(* every order of the attributes; and what the predicates and the order of *)
(* ip::Address are for every sequence of 4 or 16 bytes.                    *)
(***************************************************************************)
EXTENDS AddressMessage, FiniteSetTheorems, SequenceTheorems, TLAPS

-----------------------------------------------------------------------------
(* The predicates, byte by byte.                                           *)

\* What ip::Address can hold: four bytes or sixteen.
IsAddress(a) == a \in Seq(Byte) /\ (IsV4(a) \/ IsV6(a))

\* An address has its bytes.
LEMMA BytesOfAddress ==
    ASSUME NEW a, IsAddress(a)
    PROVE  /\ IsV4(a) => /\ Len(a) = 4 /\ ~IsV6(a)
                         /\ \A k \in 1 .. 4 : a[k] \in Byte
           /\ IsV6(a) => /\ Len(a) = 16 /\ ~IsV4(a)
                         /\ \A k \in 1 .. 16 : a[k] \in Byte
           /\ a = [k \in 1 .. Len(a) |-> a[k]]
           /\ \A k \in 1 .. Len(a) : a[k] \in Byte
<1>1. a \in [1 .. Len(a) -> Byte]
  BY LenProperties DEF IsAddress
<1>2. a = [k \in 1 .. Len(a) |-> a[k]] /\ \A k \in 1 .. Len(a) : a[k] \in Byte
  BY <1>1
<1>3. IsV4(a) => Len(a) = 4 /\ ~IsV6(a) /\ \A k \in 1 .. 4 : a[k] \in Byte
  BY <1>2 DEF IsV4, IsV6, IPV4_ADDR_LEN, IPV6_ADDR_LEN
<1>4. IsV6(a) => Len(a) = 16 /\ ~IsV4(a) /\ \A k \in 1 .. 16 : a[k] \in Byte
  BY <1>2 DEF IsV4, IsV6, IPV4_ADDR_LEN, IPV6_ADDR_LEN
<1> QED BY <1>2, <1>3, <1>4

\* The masks of fe80::/10 and fc00::/7 are the first two and the first seven
\* bits of a byte, and the bounds of 224/4 are the first four.
LEMMA MasksAreQuotients ==
    ASSUME NEW x \in Byte
    PROVE  /\ BitAnd(x, 192) = 128 <=> x \div 64 = 2
           /\ BitAnd(x, 254) = 252 <=> x \div 2 = 126
           /\ x >= 224 /\ x <= 239 <=> x \div 16 = 14
BY SMTT(30) DEF Byte, BitAnd

\* The first bits of an address, for the lengths of the classes' prefixes.
LEMMA PrefixesAreBytes ==
    ASSUME NEW a
    PROVE  /\ InPrefix(a, <<224>>, 4) <=> a[1] \div 16 = 14
           /\ InPrefix(a, <<252>>, 7) <=> a[1] \div 2 = 126
           /\ \A b : InPrefix(a, <<b>>, 8) <=> a[1] = b
           /\ InPrefix(a, <<254, 128>>, 10) <=> a[1] = 254 /\ a[2] \div 64 = 2
           /\ InPrefix(a, <<169, 254>>, 16) <=> a[1] = 169 /\ a[2] = 254
<1>1. InPrefix(a, <<224>>, 4) <=> a[1] \div 16 = 14
  BY DEF InPrefix
<1>2. InPrefix(a, <<252>>, 7) <=> a[1] \div 2 = 126
  BY DEF InPrefix
<1>3. ASSUME NEW b PROVE InPrefix(a, <<b>>, 8) <=> a[1] = b
  BY DEF InPrefix
<1>4. InPrefix(a, <<254, 128>>, 10) <=> a[1] = 254 /\ a[2] \div 64 = 2
  BY DEF InPrefix
<1>5. InPrefix(a, <<169, 254>>, 16) <=> a[1] = 169 /\ a[2] = 254
  BY DEF InPrefix
<1> QED BY <1>1, <1>2, <1>3, <1>4, <1>5

\* Each predicate is membership in the networks the RFCs define.
LEMMA PredicatesArePrefixes ==
    ASSUME NEW a, IsAddress(a)
    PROVE  /\ IsMulticast(a) <=> InMulticast(a)
           /\ IsUnicastLinkLocal(a) <=> InLinkLocal(a)
           /\ IsUniqueLocal(a) <=> InUniqueLocal(a)
           /\ IsLoopback(a) <=> InLoopback(a)
<1>1. /\ a[1] \in Byte /\ a[2] \in Byte
      /\ a = [k \in 1 .. Len(a) |-> a[k]]
  BY BytesOfAddress DEF IsAddress
<1>2. IsMulticast(a) <=> InMulticast(a)
  <2>1. a[1] >= 224 /\ a[1] <= 239 <=> a[1] \div 16 = 14
    BY <1>1, MasksAreQuotients
  <2> QED BY <2>1, PrefixesAreBytes DEF IsMulticast, InMulticast
<1>3. IsUnicastLinkLocal(a) <=> InLinkLocal(a)
  BY <1>1, MasksAreQuotients, PrefixesAreBytes DEF IsUnicastLinkLocal, InLinkLocal
<1>4. IsUniqueLocal(a) <=> InUniqueLocal(a)
  BY <1>1, MasksAreQuotients, PrefixesAreBytes DEF IsUniqueLocal, InUniqueLocal
<1>5. IsLoopback(a) <=> InLoopback(a)
  <2>1. CASE IsV4(a)
    BY <2>1, PrefixesAreBytes DEF IsLoopback, InLoopback
  <2>2. CASE ~IsV4(a)
    <3> DEFINE one == [k \in 1 .. IPV6_ADDR_LEN |-> IF k = IPV6_ADDR_LEN THEN 1 ELSE 0]
    <3>1. Len(a) = IPV6_ADDR_LEN
      BY <2>2 DEF IsAddress, IsV6
    <3>2. IsLoopback(a) => \A k \in 1 .. IPV6_ADDR_LEN : a[k] = one[k]
      BY <2>2 DEF IsLoopback, IPV6_ADDR_LEN
    <3>3. (\A k \in 1 .. IPV6_ADDR_LEN : a[k] = one[k]) => a = one
      BY <1>1, <3>1
    <3>4. a = one => IsLoopback(a)
      BY <2>2 DEF IsLoopback, IPV6_ADDR_LEN
    <3> QED BY <2>2, <3>2, <3>3, <3>4 DEF InLoopback
  <2> QED BY <2>1, <2>2
<1> QED BY <1>2, <1>3, <1>4, <1>5

\* No address is of two classes.
LEMMA OneClass ==
    ASSUME NEW a, IsAddress(a), NEW c \in Class, NEW d \in Class,
           IsOfClass(a, c), IsOfClass(a, d)
    PROVE  c = d
<1>1. a[1] \in Byte /\ a[2] \in Byte
  BY BytesOfAddress DEF IsAddress
<1> DEFINE Of(x) == \/ x = "multicast" /\ IsMulticast(a)
                    \/ x = "linkLocal" /\ IsUnicastLinkLocal(a)
                    \/ x = "uniqueLocal" /\ IsUniqueLocal(a)
                    \/ x = "loopback" /\ IsLoopback(a)
                    \/ x = "broadcast" /\ IsBroadcast(a)
<1>2. ASSUME NEW x \in Class, IsOfClass(a, x) PROVE Of(x)
  BY <1>2 DEF IsOfClass, Class
<1>3. Of(c) /\ Of(d)
  BY <1>2
<1>4. CASE IsV4(a)
  <2>1. /\ IsMulticast(a) <=> a[1] >= 224 /\ a[1] <= 239
        /\ IsUnicastLinkLocal(a) <=> a[1] = 169 /\ a[2] = 254
        /\ ~IsUniqueLocal(a)
        /\ IsLoopback(a) <=> a[1] = 127
        /\ IsBroadcast(a) => a[1] = 255
    BY <1>4, BytesOfAddress DEF IsMulticast, IsUnicastLinkLocal, IsUniqueLocal,
                                IsLoopback, IsBroadcast, IPV4_ADDR_LEN
  <2> QED BY <1>1, <1>3, <2>1 DEF Byte
<1>5. CASE ~IsV4(a)
  <2>1. /\ IsMulticast(a) <=> a[1] = 255
        /\ IsUnicastLinkLocal(a) => a[1] = 254
        /\ IsUniqueLocal(a) => a[1] \div 2 = 126
        /\ IsLoopback(a) => a[1] = 0
        /\ ~IsBroadcast(a)
    BY <1>1, <1>5, MasksAreQuotients
       DEF IsMulticast, IsUnicastLinkLocal, IsUniqueLocal, IsLoopback, IsBroadcast,
           IPV6_ADDR_LEN
  <2> QED BY <1>1, <1>3, <2>1 DEF Byte
<1> QED BY <1>4, <1>5

-----------------------------------------------------------------------------
(* The order.                                                              *)

\* Two addresses of a family differ in a first byte, unless they are equal.
LEMMA FirstDifference ==
    ASSUME NEW a, NEW b, IsAddress(a), IsAddress(b), Len(a) = Len(b), a # b
    PROVE  \E k \in 1 .. Len(a) : /\ a[k] # b[k]
                                  /\ \A j \in 1 .. k - 1 : a[j] = b[j]
<1> DEFINE T == {k \in 1 .. Len(a) : a[k] # b[k]}
<1>1. Len(a) \in {4, 16}
  BY DEF IsAddress, IsV4, IsV6, IPV4_ADDR_LEN, IPV6_ADDR_LEN
<1>2. T # {}
  <2>1. a = [k \in 1 .. Len(a) |-> a[k]] /\ b = [k \in 1 .. Len(a) |-> b[k]]
    BY BytesOfAddress
  <2> QED BY <2>1
<1>3. T \subseteq Nat
  BY <1>1
<1> DEFINE R == OpToRel(<, Nat)
<1>4. PICK k \in T : \A j \in T : ~(<<j, k>> \in R)
  BY <1>2, <1>3, WFMin, NatLessThanWellFounded
<1>5. \A u, v \in Nat : <<v, u>> \in R <=> v < u
  BY DEF OpToRel
<1> HIDE DEF R
<1>6. \A j \in T : ~(j < k)
  BY <1>3, <1>4, <1>5
<1>7. k \in 1 .. Len(a) /\ a[k] # b[k]
  OBVIOUS
<1>8. \A j \in 1 .. k - 1 : a[j] = b[j]
  BY <1>1, <1>6, <1>7
<1> QED BY <1>7, <1>8

\* The order of two addresses of a family.
Less(a, b) ==
    \E k \in 1 .. Len(a) : a[k] < b[k] /\ \A j \in 1 .. k - 1 : a[j] = b[j]

\* Precedes, with the families as lengths.
LEMMA PrecedesIs ==
    \A a, b : Precedes(a, b) <=> \/ Len(a) = 4 /\ Len(b) = 16
                                 \/ Len(a) = Len(b) /\ Less(a, b)
<1> TAKE a, b
<1>1. Precedes(a, b) <=> (IsV4(a) /\ IsV6(b)) \/ (Len(a) = Len(b) /\ Less(a, b))
  BY Zenon DEF Precedes, Less
<1>2. (IsV4(a) <=> Len(a) = 4) /\ (IsV6(b) <=> Len(b) = 16)
  BY DEF IsV4, IsV6, IPV4_ADDR_LEN, IPV6_ADDR_LEN
<1> QED BY <1>1, <1>2, Zenon

\* Of two addresses exactly one comes first, unless they are equal.
LEMMA Trichotomy ==
    ASSUME NEW a, NEW b, IsAddress(a), IsAddress(b)
    PROVE  /\ a = b <=> ~Precedes(a, b) /\ ~Precedes(b, a)
           /\ ~(Precedes(a, b) /\ Precedes(b, a))
<1>1. Len(a) \in {4, 16} /\ Len(b) \in {4, 16}
  BY DEF IsAddress, IsV4, IsV6, IPV4_ADDR_LEN, IPV6_ADDR_LEN
<1>2. /\ \A k \in 1 .. Len(a) : a[k] \in Int
      /\ \A k \in 1 .. Len(b) : b[k] \in Int
  <2>1. \A x \in Byte : x \in Int
    BY DEF Byte
  <2> QED BY <2>1, BytesOfAddress
<1>3. /\ Precedes(a, b) <=> \/ Len(a) = 4 /\ Len(b) = 16
                            \/ Len(a) = Len(b) /\ Less(a, b)
      /\ Precedes(b, a) <=> \/ Len(b) = 4 /\ Len(a) = 16
                            \/ Len(b) = Len(a) /\ Less(b, a)
  BY PrecedesIs, Zenon
<1>4. CASE Len(a) # Len(b)
  BY <1>1, <1>3, <1>4
<1>5. CASE Len(a) = Len(b)
  <2>1. /\ Precedes(a, b) <=> Less(a, b)
        /\ Precedes(b, a) <=> Less(b, a)
    <3>1. 4 # 16
      OBVIOUS
    <3> QED BY <1>3, <1>5, <3>1, Zenon
  <2>2. ~(Less(a, b) /\ Less(b, a))
    <3>1. SUFFICES ASSUME NEW k \in 1 .. Len(a), NEW l \in 1 .. Len(a),
                          a[k] < b[k], \A j \in 1 .. k - 1 : a[j] = b[j],
                          b[l] < a[l], \A j \in 1 .. l - 1 : b[j] = a[j]
                   PROVE  FALSE
      BY <1>5 DEF Less
    <3>2. k \in Int /\ l \in Int
      OBVIOUS
    <3>3. CASE k < l
      BY <1>2, <1>5, <3>1, <3>2, <3>3
    <3>4. CASE l < k
      BY <1>2, <1>5, <3>1, <3>2, <3>4
    <3>5. CASE k = l
      BY <1>2, <1>5, <3>1, <3>5
    <3> QED BY <3>2, <3>3, <3>4, <3>5
  <2>3. a = b => ~Less(a, b)
    BY <2>2
  <2>4. ASSUME a # b PROVE Less(a, b) \/ Less(b, a)
    <3>1. PICK k \in 1 .. Len(a) : a[k] # b[k] /\ \A j \in 1 .. k - 1 : a[j] = b[j]
      BY <1>5, <2>4, FirstDifference
    <3>2. a[k] < b[k] \/ b[k] < a[k]
      BY <1>2, <1>5, <3>1
    <3> QED BY <1>5, <3>1, <3>2 DEF Less
  <2> QED BY <2>1, <2>2, <2>3, <2>4
<1> QED BY <1>4, <1>5

\* std::set also needs the order to be transitive, which no run checks.
THEOREM OrderIsTransitive ==
    ASSUME NEW a, NEW b, NEW c, IsAddress(a), IsAddress(b), IsAddress(c),
           Precedes(a, b), Precedes(b, c)
    PROVE  Precedes(a, c)
<1>1. /\ Len(a) \in {4, 16} /\ Len(b) \in {4, 16} /\ Len(c) \in {4, 16}
  BY DEF IsAddress, IsV4, IsV6, IPV4_ADDR_LEN, IPV6_ADDR_LEN
<1>2. /\ \A k \in 1 .. Len(a) : a[k] \in Int
      /\ \A k \in 1 .. Len(b) : b[k] \in Int
      /\ \A k \in 1 .. Len(c) : c[k] \in Int
  <2>1. \A x \in Byte : x \in Int
    BY DEF Byte
  <2> QED BY <2>1, BytesOfAddress
<1>3. /\ (Len(a) = 4 /\ Len(b) = 16) \/ (Len(a) = Len(b) /\ Less(a, b))
      /\ (Len(b) = 4 /\ Len(c) = 16) \/ (Len(b) = Len(c) /\ Less(b, c))
      /\ (Len(a) = 4 /\ Len(c) = 16) \/ (Len(a) = Len(c) /\ Less(a, c))
            => Precedes(a, c)
  BY PrecedesIs, Zenon
<1>4. CASE Len(a) # Len(b) \/ Len(b) # Len(c)
  BY <1>1, <1>3, <1>4
<1>5. CASE Len(a) = Len(b) /\ Len(b) = Len(c)
  <2>0. Len(a) = Len(c) /\ Less(a, b) /\ Less(b, c)
    BY <1>1, <1>3, <1>5
  <2>1. PICK k \in 1 .. Len(a) : a[k] < b[k] /\ \A j \in 1 .. k - 1 : a[j] = b[j]
    BY <1>5, <2>0 DEF Less
  <2>2. PICK l \in 1 .. Len(a) : b[l] < c[l] /\ \A j \in 1 .. l - 1 : b[j] = c[j]
    BY <1>5, <2>0 DEF Less
  <2>3. k \in Int /\ l \in Int
    OBVIOUS
  <2>4. \E m \in 1 .. Len(a) : a[m] < c[m] /\ \A j \in 1 .. m - 1 : a[j] = c[j]
    <3>1. CASE k <= l
      <4>1. a[k] < c[k]
        BY <1>2, <1>5, <2>1, <2>2, <2>3, <3>1
      <4>2. \A j \in 1 .. k - 1 : a[j] = c[j]
        BY <1>5, <2>1, <2>2, <2>3, <3>1
      <4> QED BY <4>1, <4>2
    <3>2. CASE l < k
      <4>1. a[l] < c[l]
        BY <1>2, <1>5, <2>1, <2>2, <2>3, <3>2
      <4>2. \A j \in 1 .. l - 1 : a[j] = c[j]
        BY <1>5, <2>1, <2>2, <2>3, <3>2
      <4> QED BY <4>1, <4>2
    <3> QED BY <2>3, <3>1, <3>2
  <2> QED BY <1>3, <2>0, <2>4 DEF Less
<1> QED BY <1>4, <1>5

-----------------------------------------------------------------------------
(* The message.                                                            *)

\* An attribute.
At(type, length, value) == [type |-> type, length |-> length, value |-> value]

\* The kernel's address as the decoding needs it: ips that have a family, and
\* no value that could be taken for none.
LEMMA GivenType ==
    ASSUME NEW k \in Given
    PROVE  /\ k.local \in Ips /\ k.local # None /\ IsAddress(k.local)
           /\ k.peer # None => /\ k.peer \in Ips /\ IsAddress(k.peer)
                               /\ Len(k.peer) = Len(k.local)
           /\ k.broadcast # None => IsV4(k.local)
           /\ k.label # None /\ k.flags # None
           /\ k.flags \subseteq 0 .. 31
           /\ k.old \in BOOLEAN
           /\ k.old => k.flags \subseteq 0 .. 7 /\ k.proto = None
<1>1. k \in KernelAddress(Ips)
  BY GivenAssumption
<1>2. /\ k.local \in Ips /\ k.peer \in Ips \cup {None} /\ k.label \in Labels
      /\ k.flags \in SUBSET Bits /\ k.old \in BOOLEAN
      /\ k.peer # None => (IsV4(k.peer) <=> IsV4(k.local))
      /\ k.broadcast # None => IsV4(k.local)
      /\ k.old => k.flags \subseteq 0 .. 7 /\ k.proto = None
  BY <1>1 DEF KernelAddress
<1>3. \A ip \in Ips : IsAddress(ip) /\ ip # None
  BY MessageAssumption DEF IsAddress
<1>4. k.peer # None => Len(k.peer) = Len(k.local)
  BY <1>2, <1>3 DEF IsAddress, IsV4, IsV6
<1> QED BY <1>2, <1>3, <1>4, MessageAssumption, NoneAssumption

\* The attributes of a message, one by one.
LEMMA EncodedIs ==
    ASSUME NEW k \in Given, NEW a
    PROVE  a \in Encoded(k) <=>
             \/ a = At("IFA_ADDRESS", Len(k.local),
                       IF k.peer # None THEN k.peer ELSE k.local)
             \/ /\ IsV4(k.local) \/ k.peer # None
                /\ a = At("IFA_LOCAL", Len(k.local), k.local)
             \/ k.broadcast # None /\ a = At("IFA_BROADCAST", 4, k.broadcast)
             \/ IsV4(k.local) /\ a = At("IFA_LABEL", 16, k.label)
             \/ ~k.old /\ a = At("IFA_FLAGS", 4, k.flags)
             \/ k.proto # None /\ a = At("IFA_PROTO", 1, k.proto)
             \/ ~k.old /\ "newer" # None /\ a = At("newer", 4, "newer")
<1> DEFINE address == IF k.peer # None THEN k.peer ELSE k.local
<1>1. /\ address # None /\ k.local # None /\ k.label # None
  BY GivenType
<1>2. ASSUME NEW type, NEW length, NEW value
      PROVE  a \in Attribute(type, length, value)
                <=> value # None /\ a = At(type, length, value)
  BY DEF Attribute, At
<1>3. a \in Attribute("IFA_ADDRESS", Len(k.local), address)
        <=> a = At("IFA_ADDRESS", Len(k.local), address)
  BY <1>1, <1>2
<1> DEFINE local == IF IsV4(k.local) \/ k.peer # None THEN k.local ELSE None
           label == IF IsV4(k.local) THEN k.label ELSE None
           newer == IF k.old THEN None ELSE "newer"
           flags == IF k.old THEN {} ELSE {At("IFA_FLAGS", 4, k.flags)}
<1>4. a \in Attribute("IFA_LOCAL", Len(k.local), local)
        <=> /\ IsV4(k.local) \/ k.peer # None
            /\ a = At("IFA_LOCAL", Len(k.local), k.local)
  BY <1>1, <1>2
<1>5. a \in Attribute("IFA_LABEL", 16, label)
        <=> IsV4(k.local) /\ a = At("IFA_LABEL", 16, k.label)
  BY <1>1, <1>2
<1>6. a \in Attribute("newer", 4, newer)
        <=> ~k.old /\ "newer" # None /\ a = At("newer", 4, "newer")
  BY <1>2
<1>7. a \in flags <=> ~k.old /\ a = At("IFA_FLAGS", 4, k.flags)
  OBVIOUS
<1>8. /\ a \in Attribute("IFA_BROADCAST", 4, k.broadcast)
            <=> k.broadcast # None /\ a = At("IFA_BROADCAST", 4, k.broadcast)
      /\ a \in Attribute("IFA_PROTO", 1, k.proto)
            <=> k.proto # None /\ a = At("IFA_PROTO", 1, k.proto)
  BY <1>2
<1>9. Encoded(k) = Attribute("IFA_ADDRESS", Len(k.local), address)
                     \cup Attribute("IFA_LOCAL", Len(k.local), local)
                     \cup Attribute("IFA_BROADCAST", 4, k.broadcast)
                     \cup Attribute("IFA_LABEL", 16, label)
                     \cup flags
                     \cup Attribute("IFA_PROTO", 1, k.proto)
                     \cup Attribute("newer", 4, newer)
  BY DEF Encoded, At
<1> HIDE DEF address, local, label, newer, flags
<1>10. a \in Encoded(k) <=> \/ a \in Attribute("IFA_ADDRESS", Len(k.local), address)
                            \/ a \in Attribute("IFA_LOCAL", Len(k.local), local)
                            \/ a \in Attribute("IFA_BROADCAST", 4, k.broadcast)
                            \/ a \in Attribute("IFA_LABEL", 16, label)
                            \/ a \in flags
                            \/ a \in Attribute("IFA_PROTO", 1, k.proto)
                            \/ a \in Attribute("newer", 4, newer)
  BY <1>9
<1> QED BY <1>3, <1>4, <1>5, <1>6, <1>7, <1>8, <1>10, Zenon DEF address

\* There are finitely many, and one of a type.
LEMMA EncodedType ==
    ASSUME NEW k \in Given
    PROVE  /\ IsFiniteSet(Encoded(k))
           /\ \A a, b \in Encoded(k) : a.type = b.type => a = b
<1> DEFINE address == At("IFA_ADDRESS", Len(k.local),
                         IF k.peer # None THEN k.peer ELSE k.local)
           local == At("IFA_LOCAL", Len(k.local), k.local)
           broadcast == At("IFA_BROADCAST", 4, k.broadcast)
           label == At("IFA_LABEL", 16, k.label)
           flags == At("IFA_FLAGS", 4, k.flags)
           proto == At("IFA_PROTO", 1, k.proto)
           newer == At("newer", 4, "newer")
           All == {address} \cup ({local} \cup ({broadcast} \cup ({label} \cup
                    ({flags} \cup ({proto} \cup {newer})))))
<1>1. Encoded(k) \subseteq All
  BY EncodedIs
<1>2. \A a, b \in All : a.type = b.type => a = b
  <2>1. /\ address.type = "IFA_ADDRESS" /\ local.type = "IFA_LOCAL"
        /\ broadcast.type = "IFA_BROADCAST" /\ label.type = "IFA_LABEL"
        /\ flags.type = "IFA_FLAGS" /\ proto.type = "IFA_PROTO"
        /\ newer.type = "newer"
    BY DEF At
  <2> HIDE DEF address, local, broadcast, label, flags, proto, newer
  <2> QED BY <2>1
<1> HIDE DEF address, local, broadcast, label, flags, proto, newer
<1>3. IsFiniteSet(All)
  BY FS_Singleton, FS_Union
<1> QED BY <1>1, <1>2, <1>3, FS_Subset

\* The table has what has been parsed, and every attribute is counted when it
\* leaves the message.
TableInv ==
    /\ given \in Given /\ left \subseteq Encoded(given)
    /\ table = [type \in KnownTypes |-> table[type]]
    /\ \A type \in KnownTypes :
          \/ /\ table[type] = None
             /\ \A a \in Encoded(given) : a.type = type => a \in left
          \/ table[type] \in Encoded(given) \ left /\ table[type].type = type
    /\ seen \in Nat /\ unknown \in Nat
    /\ seen + unknown + Cardinality(left) = Cardinality(Encoded(given))

\* The inductive invariant.  What has been decoded stays: nothing but Decode,
\* which happens once, touches it.
IInv == TableInv /\ DecodedIsGiven

\* A getter, once the message is parsed: an attribute of the expected length is
\* found, and nothing is found if there is none.
LEMMA GetIs ==
    ASSUME TableInv, left = {}, NEW type \in KnownTypes, NEW length
    PROVE  /\ \A a \in Encoded(given) :
                a.type = type /\ a.length = length => Get(type, length) = a.value
           /\ (\A a \in Encoded(given) : a.type = type => a.length # length)
                => Get(type, length) = None
<1>1. given \in Given /\ None \notin Encoded(given)
  BY NoneAssumption DEF TableInv
<1>2. ASSUME NEW a \in Encoded(given), a.type = type, a.length = length
      PROVE  Get(type, length) = a.value
  <2>1. table[type] \in Encoded(given) /\ table[type].type = type
    BY <1>2 DEF TableInv
  <2>2. table[type] = a
    BY <1>1, <1>2, <2>1, EncodedType
  <2> QED BY <1>1, <1>2, <2>2 DEF Get
<1>3. ASSUME \A a \in Encoded(given) : a.type = type => a.length # length
      PROVE  Get(type, length) = None
  <2>1. CASE table[type] = None
    BY <2>1 DEF Get
  <2>2. CASE table[type] # None
    <3>1. table[type] \in Encoded(given) /\ table[type].type = type
      BY <2>2 DEF TableInv
    <3> QED BY <1>3, <2>2, <3>1 DEF Get
  <2> QED BY <2>1, <2>2
<1> QED BY <1>2, <1>3

\* What each getter of parseAddressMessage returns.
LEMMA GettersAre ==
    ASSUME TableInv, left = {}
    PROVE  /\ AddressIp = IF IsV6(given.local) /\ given.peer # None
                          THEN given.peer ELSE given.local
           /\ Get("IFA_BROADCAST", 4) = given.broadcast
           /\ Get("IFA_FLAGS", 4) = IF given.old THEN None ELSE given.flags
           /\ Get("IFA_PROTO", 1) = given.proto
<1> DEFINE k == given
           address == IF k.peer # None THEN k.peer ELSE k.local
           Has(type, length, value) == At(type, length, value) \in Encoded(k)
           Hasnt(type, length) ==
              \A a \in Encoded(k) : a.type = type => a.length # length
<1>1. k \in Given
  BY DEF TableInv
<1>2. {"IFA_ADDRESS", "IFA_LOCAL", "IFA_BROADCAST", "IFA_FLAGS", "IFA_PROTO"}
        \subseteq KnownTypes
  BY DEF KnownTypes
<1>3. ASSUME NEW type \in KnownTypes, NEW length, NEW value, Has(type, length, value)
      PROVE  Get(type, length) = value
  BY <1>3, GetIs DEF At
<1>4. ASSUME NEW type \in KnownTypes, NEW length, Hasnt(type, length)
      PROVE  Get(type, length) = None
  BY <1>4, GetIs
<1>5. /\ k.local \in Ips /\ k.local # None /\ IsAddress(k.local)
      /\ k.peer # None => Len(k.peer) = Len(k.local)
      /\ k.flags # None /\ k.old \in BOOLEAN
  BY <1>1, GivenType
<1>6. IsV4(k.local) <=> ~IsV6(k.local)
  BY <1>5, BytesOfAddress DEF IsAddress
<1>7. AddressIp = IF IsV6(k.local) /\ k.peer # None THEN k.peer ELSE k.local
  <2>1. CASE IsV6(k.local)
    <3>1. Has("IFA_ADDRESS", 16, address)
      BY <1>1, <2>1, EncodedIs DEF IsV6, IPV6_ADDR_LEN
    <3>2. Get("IFA_ADDRESS", 16) = address
      BY <1>2, <1>3, <3>1
    <3> QED BY <1>5, <2>1, <3>2 DEF AddressIp
  <2>2. CASE IsV4(k.local)
    <3>1. Len(k.local) = 4
      BY <2>2 DEF IsV4, IPV4_ADDR_LEN
    <3>2. Hasnt("IFA_ADDRESS", 16)
      <4>1. ASSUME NEW a \in Encoded(k), a.type = "IFA_ADDRESS"
            PROVE  a.length = Len(k.local)
        BY <1>1, <4>1, EncodedIs DEF At
      <4> QED BY <3>1, <4>1
    <3>3. Has("IFA_LOCAL", 4, k.local)
      BY <1>1, <2>2, <3>1, EncodedIs
    <3>4. Get("IFA_ADDRESS", 16) = None /\ Get("IFA_LOCAL", 4) = k.local
      BY <1>2, <1>3, <1>4, <3>2, <3>3
    <3> QED BY <1>5, <1>6, <2>2, <3>4 DEF AddressIp
  <2> QED BY <1>6, <2>1, <2>2
<1>8. Get("IFA_BROADCAST", 4) = k.broadcast
  <2>1. CASE k.broadcast # None
    <3>1. Has("IFA_BROADCAST", 4, k.broadcast)
      BY <1>1, <2>1, EncodedIs
    <3> QED BY <1>2, <1>3, <3>1
  <2>2. CASE k.broadcast = None
    <3>1. Hasnt("IFA_BROADCAST", 4)
      BY <1>1, <2>2, EncodedIs DEF At
    <3> QED BY <1>2, <1>4, <2>2, <3>1
  <2> QED BY <2>1, <2>2
<1>9. Get("IFA_FLAGS", 4) = IF k.old THEN None ELSE k.flags
  <2>1. CASE ~k.old
    <3>1. Has("IFA_FLAGS", 4, k.flags)
      BY <1>1, <2>1, EncodedIs
    <3> QED BY <1>2, <1>3, <2>1, <3>1
  <2>2. CASE k.old
    <3>1. Hasnt("IFA_FLAGS", 4)
      BY <1>1, <2>2, EncodedIs DEF At
    <3> QED BY <1>2, <1>4, <2>2, <3>1
  <2> QED BY <2>1, <2>2
<1>10. Get("IFA_PROTO", 1) = k.proto
  <2>1. CASE k.proto # None
    <3>1. Has("IFA_PROTO", 1, k.proto)
      BY <1>1, <2>1, EncodedIs
    <3> QED BY <1>2, <1>3, <3>1
  <2>2. CASE k.proto = None
    <3>1. Hasnt("IFA_PROTO", 1)
      BY <1>1, <2>2, EncodedIs DEF At
    <3> QED BY <1>2, <1>4, <2>2, <3>1
  <2> QED BY <2>1, <2>2
<1> QED BY <1>7, <1>8, <1>9, <1>10

\* parseAttribute puts one attribute into the table, or counts it as unknown.
LEMMA ParseKeepsTable ==
    ASSUME TableInv, NEW a \in left, ParseAttribute(a)
    PROVE  TableInv'
<1>1. /\ given \in Given /\ left \subseteq Encoded(given) /\ a \in Encoded(given)
      /\ given' = given /\ left' = left \ {a}
  BY DEF TableInv, ParseAttribute
<1>2. Cardinality(left') = Cardinality(left) - 1 /\ Cardinality(left) \in Nat
  BY <1>1, EncodedType, FS_Subset, FS_RemoveElement, FS_CardinalityType
<1>3. Cardinality(Encoded(given)) \in Nat
  BY <1>1, EncodedType, FS_CardinalityType
<1>4. \A b \in Encoded(given) : b.type = a.type => b = a
  BY <1>1, EncodedType
<1>5. /\ seen' \in Nat /\ unknown' \in Nat
      /\ seen' + unknown' = seen + unknown + 1
  BY DEF ParseAttribute, TableInv
<1>6. seen' + unknown' + Cardinality(left') = Cardinality(Encoded(given))
  BY <1>2, <1>3, <1>5 DEF TableInv
<1>7. table' = [type \in KnownTypes |-> table'[type]]
  BY DEF ParseAttribute, TableInv
<1>8. ASSUME NEW type \in KnownTypes
      PROVE  \/ /\ table'[type] = None
                /\ \A b \in Encoded(given) : b.type = type => b \in left'
             \/ table'[type] \in Encoded(given) \ left' /\ table'[type].type = type
  <2>1. CASE a.type = type
    <3>1. table'[type] = a
      BY <1>8, <2>1 DEF ParseAttribute, TableInv
    <3> QED BY <1>1, <2>1, <3>1
  <2>2. CASE a.type # type
    <3>1. table'[type] = table[type]
      BY <1>8, <2>2 DEF ParseAttribute, TableInv
    <3> QED BY <1>1, <1>8, <2>2, <3>1 DEF TableInv
  <2> QED BY <2>1, <2>2
<1> QED BY <1>1, <1>5, <1>6, <1>7, <1>8 DEF TableInv

\* parseAddressMessage reads the table right.
LEMMA DecodeIsRight ==
    ASSUME TableInv, Decode
    PROVE  DecodedIsGiven'
<1>1. left = {} /\ given' = given /\ given \in Given
  BY DEF Decode, TableInv
<1>2. /\ given.flags \subseteq 0 .. 31 /\ given.flags # None
      /\ given.old => given.flags \subseteq 0 .. 7
      /\ given.old \in BOOLEAN
  BY <1>1, GivenType
<1>3. /\ decoded'.ip = AddressIp
      /\ decoded'.broadcast = Get("IFA_BROADCAST", 4)
      /\ decoded'.scope = FromRtnlScope(given.scope)
      /\ decoded'.flags = FlagsOf(IF Get("IFA_FLAGS", 4) # None
                                  THEN Get("IFA_FLAGS", 4)
                                  ELSE given.flags \cap 0 .. 7)
      /\ decoded'.proto = Get("IFA_PROTO", 1)
  BY DEF Decode
<1>4. decoded'.flags = {b \in given.flags : b < 12}
  <2>1. decoded'.flags = FlagsOf(given.flags)
    <3>1. given.old => given.flags \cap 0 .. 7 = given.flags
      BY <1>2
    <3>2. Get("IFA_FLAGS", 4) = IF given.old THEN None ELSE given.flags
      BY <1>1, GettersAre
    <3>3. (IF Get("IFA_FLAGS", 4) # None THEN Get("IFA_FLAGS", 4)
           ELSE given.flags \cap 0 .. 7) = given.flags
      BY <1>2, <3>1, <3>2
    <3> QED BY <1>3, <3>3
  <2>2. FlagsOf(given.flags) = {b \in given.flags : b < 12}
    BY <1>2 DEF FlagsOf
  <2> QED BY <2>1, <2>2
<1>5. decoded'.scope = "Global" <=> given.scope \notin {200, 253, 254, 255}
  BY <1>3 DEF FromRtnlScope
<1> QED BY <1>1, <1>3, <1>4, <1>5, GettersAre DEF DecodedIsGiven

\* The invariant holds of a message that has just arrived, and stays.
LEMMA MessageIsTable == Spec => []IInv
<1>1. Init => IInv
  <2> SUFFICES ASSUME Init PROVE IInv
    OBVIOUS
  <2>1. Cardinality(Encoded(given)) \in Nat
    BY EncodedType, FS_CardinalityType DEF Init
  <2>2. \A type \in KnownTypes : table[type] = None
    BY DEF Init
  <2> QED BY <2>1, <2>2 DEF Init, IInv, TableInv, DecodedIsGiven
<1>2. IInv /\ [Next]_vars => IInv'
  <2> SUFFICES ASSUME IInv, [Next]_vars PROVE IInv'
    OBVIOUS
  <2>1. ASSUME NEW a \in left, ParseAttribute(a) PROVE IInv'
    <3>1. TableInv'
      BY <2>1, ParseKeepsTable DEF IInv
    <3>2. DecodedIsGiven'
      BY <2>1 DEF IInv, ParseAttribute, DecodedIsGiven
    <3> QED BY <3>1, <3>2 DEF IInv
  <2>2. CASE Decode
    <3>1. TableInv'
      BY <2>2 DEF IInv, TableInv, Decode
    <3> QED BY <2>2, <3>1, DecodeIsRight DEF IInv
  <2>3. CASE UNCHANGED vars
    BY <2>3 DEF IInv, TableInv, DecodedIsGiven, vars
  <2> QED BY <2>1, <2>2, <2>3 DEF Next
<1> QED BY <1>1, <1>2, PTL DEF Spec

-----------------------------------------------------------------------------
(* What the run checks, for every set of addresses and every message.      *)

\* What is decoded is an address.
LEMMA DecodedType ==
    ASSUME IInv, decoded # None
    PROVE  IsAddress(decoded.ip)
BY GivenType DEF IInv, TableInv, DecodedIsGiven

\* The order of the attributes, unknown ones among them and an old kernel make
\* no difference to the address; an IPv6 peer does.
THEOREM MessagesAreDecoded == Spec => []DecodedIsGiven
BY MessageIsTable, PTL DEF IInv

\* When the message is parsed each of its attributes has been counted once.
THEOREM AttributesAreCounted == Spec => []EveryAttributeIsCounted
<1>1. IInv => EveryAttributeIsCounted
  <2> SUFFICES ASSUME IInv, left = {}
               PROVE  seen + unknown = Cardinality(Encoded(given))
    BY DEF EveryAttributeIsCounted
  <2>1. Cardinality(left) = 0
    BY FS_EmptySet
  <2> QED BY <2>1 DEF IInv, TableInv
<1> QED BY <1>1, MessageIsTable, PTL

\* For every address: the masks and bytes are those of the RFCs' networks.
THEOREM PredicatesAreNetworks == Spec => []ClassesArePrefixes
<1>1. IInv => ClassesArePrefixes
  BY DecodedType, PredicatesArePrefixes DEF ClassesArePrefixes
<1> QED BY <1>1, MessageIsTable, PTL

\* For every address: it is of one class at most.
THEOREM AtMostOneClass == Spec => []ClassesAreDisjoint
<1>1. IInv => ClassesAreDisjoint
  BY DecodedType, OneClass DEF ClassesAreDisjoint
<1> QED BY <1>1, MessageIsTable, PTL

\* For every two addresses: one comes first or they are equal.
THEOREM AddressesAreOrdered == Spec => []OrderIsTotal
<1>1. IInv => OrderIsTotal
  <2> SUFFICES ASSUME IInv, decoded # None, NEW other \in Ips
               PROVE  /\ decoded.ip = other <=> /\ ~Precedes(decoded.ip, other)
                                                /\ ~Precedes(other, decoded.ip)
                      /\ ~(Precedes(decoded.ip, other) /\ Precedes(other, decoded.ip))
    BY DEF OrderIsTotal
  <2>1. IsAddress(decoded.ip) /\ IsAddress(other)
    BY DecodedType, MessageAssumption DEF IsAddress
  <2>2. PICK a : a = decoded.ip
    OBVIOUS
  <2>3. /\ a = other <=> ~Precedes(a, other) /\ ~Precedes(other, a)
        /\ ~(Precedes(a, other) /\ Precedes(other, a))
    BY <2>1, <2>2, Trichotomy
  <2> QED BY <2>2, <2>3
<1> QED BY <1>1, MessageIsTable, PTL
=============================================================================
