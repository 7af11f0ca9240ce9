--------------------------- MODULE MCDumpProtocol ---------------------------
(* Instances of the conversation with one or two interfaces.               *)
EXTENDS DumpProtocol, TLC

CONSTANTS l1, l2

OneLink == {l1}
TwoLinks == {l1, l2}
\* One complete interface, and an interface without an address.
MCInitially == {{<<"links", l1>>, <<"addresses", l1>>, <<"routes", l1>>},
                {<<"links", l1>>}}
Symmetry == Permutations({l1, l2})
=============================================================================
