----------------------------- MODULE Cli_proofs -----------------------------
(***************************************************************************)
(* The example program enumerates as often as it was told to, for every    *)
(* number and every width of the counter that can hold it.                 *)
(***************************************************************************)
EXTENDS Cli, TLAPS

\* While the counter is not 0 yet, what it says is what there is still to do;
\* a program told to enumerate for ever never leaves its loop.
CountedDown ==
    /\ enum_loop \in 0 .. MaxLoop
    /\ loop \in Nat /\ enumerations \in Nat
    /\ pc \in {"loop", "repeat", "enumerate", "subscribe", "stop",
               "run", "exit"}
    /\ enum_loop = 0 => pc \in {"loop", "repeat"}
    /\ enum_loop # 0 =>
         /\ pc \in {"loop", "repeat", "enumerate"} =>
                loop \in 1 .. enum_loop /\ enumerations = enum_loop - loop
         /\ pc = "repeat" => loop > 1
         /\ pc = "enumerate" => loop = 1
         /\ pc \in {"subscribe", "stop", "run", "exit"} => enumerations = enum_loop

\* The counter counts down by one, whatever its width, unless it is 0.
LEMMA CountDown ==
    ASSUME NEW n \in Nat, n # 0, n <= MaxLoop
    PROVE  (n + WordSize - 1) % WordSize = n - 1
<1>1. WordSize \in Nat /\ n - 1 \in Nat /\ n - 1 < WordSize
  BY CliAssumption
<1> DEFINE m == n - 1
<1>2. (m + WordSize) % WordSize = m
  <2> HIDE DEF m
  <2>1. m \in Nat /\ WordSize \in Nat /\ m < WordSize
    BY <1>1 DEF m
  <2> QED BY <2>1
<1>3. n + WordSize - 1 = m + WordSize
  BY <1>1
<1> QED BY <1>2, <1>3

\* Nothing has been counted down at first.
LEMMA InitCounted == Init => CountedDown
  BY CliAssumption DEF Init, CountedDown

\* One step per statement of main.
LEMMA NextCounted == CountedDown /\ [Next]_vars => CountedDown'
<1> SUFFICES ASSUME CountedDown, [Next]_vars PROVE CountedDown'
  OBVIOUS
<1>0. MaxLoop \in Nat /\ WordSize \in Nat \ {0}
  BY CliAssumption
<1>1. ASSUME NEW i \in Interfaces, NetworkChanges(i) PROVE CountedDown'
  BY <1>1 DEF CountedDown, NetworkChanges, flags
<1>2. CASE Construct
  <2>1. /\ pc = "loop" /\ enum_loop \in 0 .. MaxLoop
        /\ UNCHANGED <<enum_loop, loop, enumerations>>
        /\ loop \in Nat /\ enumerations \in Nat
        /\ enum_loop # 0 => loop \in 1 .. enum_loop /\ enumerations = enum_loop - loop
    BY <1>2 DEF CountedDown, Construct, flags
  <2>2. /\ pc' \in {"repeat", "enumerate"}
        /\ pc' = "repeat" <=> (enum_loop = 0 \/ loop > 1)
    BY <1>2 DEF Construct, Again
  <2> QED BY <2>1, <2>2 DEF CountedDown
<1>3. CASE EnumerateInLoop
  <2>1. enum_loop' = enum_loop /\ pc = "repeat" /\ pc' = "loop"
    BY <1>3 DEF EnumerateInLoop, Enumerate, flags
  <2>2. /\ loop' = (loop + WordSize - 1) % WordSize
        /\ enumerations' = IF enumerations > MaxLoop THEN enumerations
                           ELSE enumerations + 1
    BY <1>3 DEF EnumerateInLoop, Enumerate
  <2>3. loop' \in Nat /\ enumerations' \in Nat
    <3>1. loop + WordSize - 1 \in Nat /\ WordSize \in Nat \ {0}
      BY <1>0 DEF CountedDown
    <3> QED BY <2>2, <3>1 DEF CountedDown
  <2>4. CASE enum_loop = 0
    BY <2>1, <2>3, <2>4 DEF CountedDown
  <2>5. CASE enum_loop # 0
    <3>1. /\ loop \in 2 .. enum_loop /\ enum_loop \in 0 .. MaxLoop
          /\ enumerations = enum_loop - loop
      BY <2>1, <2>5 DEF CountedDown
    <3>2. loop' = loop - 1
      <4>1. loop \in Nat /\ loop # 0 /\ loop <= MaxLoop
        BY <1>0, <3>1
      <4> QED BY <4>1, <2>2, CountDown
    <3>3. enumerations' = enumerations + 1
      BY <1>0, <2>2, <3>1
    <3> QED BY <2>1, <2>5, <3>1, <3>2, <3>3 DEF CountedDown
  <2> QED BY <2>4, <2>5
<1>4. CASE EnumerateInterfaces
  <2>1. /\ pc = "enumerate" /\ pc' = "subscribe"
        /\ UNCHANGED <<enum_loop, loop>>
        /\ enumerations' = IF enumerations > MaxLoop THEN enumerations
                           ELSE enumerations + 1
    BY <1>4 DEF EnumerateInterfaces, Enumerate, flags
  <2>2. /\ enum_loop \in 1 .. MaxLoop /\ loop = 1
        /\ enumerations = enum_loop - 1
    BY <1>0, <2>1 DEF CountedDown
  <2>3. enumerations' = enum_loop
    BY <1>0, <2>1, <2>2
  <2> QED BY <1>0, <2>1, <2>2, <2>3 DEF CountedDown
<1>5. CASE Subscribe
  BY <1>5 DEF CountedDown, Subscribe, flags
<1>6. CASE Stop
  BY <1>6 DEF CountedDown, Stop, flags
<1>7. CASE Run
  BY <1>7 DEF CountedDown, Run, flags
<1>8. CASE Drain
  BY <1>8 DEF CountedDown, Drain, flags
<1>9. CASE Overrun
  BY <1>9 DEF CountedDown, Overrun, flags
<1>10. CASE UNCHANGED vars
  BY <1>10 DEF CountedDown, vars
<1> QED BY <1>1, <1>2, <1>3, <1>4, <1>5, <1>6, <1>7, <1>8, <1>9, <1>10
        DEF Next, Main

\* "Run enumeration loop N times" holds for every N and every counter wide
\* enough: main has enumerated N times when it subscribes.
THEOREM EnumeratesAsTold == Spec => []EnumeratesNTimes
<1>1. CountedDown => EnumeratesNTimes
  BY DEF CountedDown, EnumeratesNTimes
<1> QED BY <1>1, InitCounted, NextCounted, PTL DEF Spec
=============================================================================
