---------------------------- MODULE AddressTypes ----------------------------
(***************************************************************************)
(* ip::Address as a sequence of bytes: the predicates that classify it,    *)
(* which test bytes and masks, against the prefixes that define the        *)
(* classes, and the order of addresses.  AddressMessage decodes and then   *)
(* classifies them.                                                        *)
(***************************************************************************)
EXTENDS Integers, Sequences

Byte == 0 .. 255
IPV4_ADDR_LEN == 4
IPV6_ADDR_LEN == 16

\* std::variant<V4Bytes, V6Bytes>
IsV4(a) == Len(a) = IPV4_ADDR_LEN
IsV6(a) == Len(a) = IPV6_ADDR_LEN

\* A default constructed address is 0.0.0.0.
AnyAddress == <<0, 0, 0, 0>>

-----------------------------------------------------------------------------
(* The predicates of ip::Address.                                          *)

IsMulticast(a) ==
    IF IsV4(a) THEN a[1] >= 224 /\ a[1] <= 239 ELSE a[1] = 255

\* The bits two bytes have in common: (x & y).
BitAnd(x, y) ==
    LET Common(u) == IF (x \div u) % 2 = 1 /\ (y \div u) % 2 = 1 THEN u ELSE 0
    IN  Common(1) + Common(2) + Common(4) + Common(8)
            + Common(16) + Common(32) + Common(64) + Common(128)

\* Mutant: the second byte is not masked.
IsUnicastLinkLocalUnmasked(a) ==
    IF IsV4(a) THEN a[1] = 169 /\ a[2] = 254 ELSE a[1] = 254 /\ a[2] = 128

IsUnicastLinkLocal(a) ==
    IF IsV4(a) THEN a[1] = 169 /\ a[2] = 254
    ELSE a[1] = 254 /\ BitAnd(a[2], 192) = 128

\* Mutant: the mask has six bits instead of seven.
IsUniqueLocalWide(a) == IsV6(a) /\ BitAnd(a[1], 252) = 252

IsUniqueLocal(a) == IsV6(a) /\ BitAnd(a[1], 254) = 252

IsLoopback(a) ==
    IF IsV4(a) THEN a[1] = 127
    ELSE /\ \A k \in 1 .. IPV6_ADDR_LEN - 1 : a[k] = 0
         /\ a[IPV6_ADDR_LEN] = 1

IsBroadcast(a) == IsV4(a) /\ \A k \in 1 .. IPV4_ADDR_LEN : a[k] = 255

\* Mutant: the bytes are compared although the families differ.
PrecedesByBytes(a, b) ==
    \E k \in 1 .. IPV4_ADDR_LEN :
        a[k] < b[k] /\ \A j \in 1 .. k - 1 : a[j] = b[j]

\* operator<=>: every IPv4 address before every IPv6 address, then by bytes.
Precedes(a, b) ==
    \/ IsV4(a) /\ IsV6(b)
    \/ /\ Len(a) = Len(b)
       /\ \E k \in 1 .. Len(a) : a[k] < b[k] /\ \A j \in 1 .. k - 1 : a[j] = b[j]

\* The classes an address is of, by name.
IsOfClass(a, class) ==
    CASE class = "multicast"   -> IsMulticast(a)
      [] class = "linkLocal"   -> IsUnicastLinkLocal(a)
      [] class = "uniqueLocal" -> IsUniqueLocal(a)
      [] class = "loopback"    -> IsLoopback(a)
      [] class = "broadcast"   -> IsBroadcast(a)

Class == {"multicast", "linkLocal", "uniqueLocal", "loopback", "broadcast"}

-----------------------------------------------------------------------------
(* The reference.                                                          *)

\* The first n bits of a are those of prefix: all bytes the prefix covers as a
\* whole are equal, and the quotient of the next one by what is left of it.
InPrefix(a, prefix, n) ==
    /\ \A k \in 1 .. n \div 8 : a[k] = prefix[k]
    /\ n % 8 # 0 =>
         LET k == (n \div 8) + 1
             u == 2 ^ (8 - (n % 8))
         IN  a[k] \div u = prefix[k] \div u

\* The networks that RFC 1122, 3927, 4193, 4291 and 5771 define.
InMulticast(a) == IF IsV4(a) THEN InPrefix(a, <<224>>, 4) ELSE InPrefix(a, <<255>>, 8)

InLinkLocal(a) == IF IsV4(a) THEN InPrefix(a, <<169, 254>>, 16)
                             ELSE InPrefix(a, <<254, 128>>, 10)

InUniqueLocal(a) == IsV6(a) /\ InPrefix(a, <<252>>, 7)

InLoopback(a) == IF IsV4(a) THEN InPrefix(a, <<127>>, 8)
                 ELSE a = [k \in 1 .. IPV6_ADDR_LEN |-> IF k = IPV6_ADDR_LEN THEN 1 ELSE 0]
=============================================================================
