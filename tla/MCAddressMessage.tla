-------------------------- MODULE MCAddressMessage --------------------------
(* Two IPv4 and two IPv6 addresses with every combination of attributes     *)
(* (flags of the header, of IFA_FLAGS and beyond AddressFlag, a scope with  *)
(* and without a name), and plain addresses on both sides of every boundary *)
(* of a class.                                                              *)
EXTENDS AddressMessage, Bitwise

CONSTANTS eth0, lo

\* BitAnd is the operator of the community modules, for the masks in the code.
ASSUME MaskAssumption ==
    \A x \in Byte : \A mask \in {192, 254} : BitAnd(x, mask) = x & mask

Tail4 == {<<0, 0>>, <<0, 1>>, <<255, 255>>}
Tail6 == {[k \in 1 .. 14 |-> 0], [k \in 1 .. 14 |-> IF k = 14 THEN 1 ELSE 0],
          [k \in 1 .. 14 |-> IF k = 1 THEN 1 ELSE 0]}

MCIps ==
    ({<<p, q>> \o t : p \in {0, 126, 127, 128, 169, 223, 224, 238, 239, 240, 255},
                      q \in {0, 253, 254, 255}, t \in Tail4}
     \cup
     {<<p, q>> \o t : p \in {0, 1, 251, 252, 253, 254, 255},
                      q \in {0, 127, 128, 129, 191, 192}, t \in Tail6})
    \ {AnyAddress}

Plain(ip) == [local |-> ip, peer |-> None, broadcast |-> None, label |-> eth0,
              flags |-> {}, proto |-> None, scope |-> 0, old |-> TRUE]

TwoOfEach == {<<126, 0, 0, 1>>, <<169, 254, 0, 1>>,
              <<252, 0>> \o [k \in 1 .. 14 |-> IF k = 14 THEN 1 ELSE 0],
              <<254, 128>> \o [k \in 1 .. 14 |-> IF k = 14 THEN 1 ELSE 0]}

MCGiven == KernelAddress(TwoOfEach) \cup {Plain(ip) : ip \in MCIps}
=============================================================================
