--------------------------------- MODULE Cli ---------------------------------
(***************************************************************************)
(* The command line example: it enumerates the interfaces a number of      *)
(* times, each time with a monitor of its own, then once more with the     *)
(* monitor it subscribes to and runs.  What it asks of the monitor is      *)
(* abstracted to what DumpProtocol and SubscriberNotification show of it:  *)
(* enumerateInterfaces returns the interfaces there are, if nothing has    *)
(* changed meanwhile; if something has, its dump may have to be repeated,  *)
(* and on a blocking socket, which is what the program uses, the retry     *)
(* waits for an overrun; subscribe refuses an empty set, run after stop    *)
(* returns at once.                                                        *)
(***************************************************************************)
EXTENDS Naturals, FiniteSets

CONSTANTS
    Interfaces,     \* the network interfaces there can be
    MaxLoop,        \* bound on FLAGS_enum_loop
    WordSize        \* number of values of a uint32_t

ASSUME CliAssumption == MaxLoop \in Nat /\ WordSize \in Nat /\ MaxLoop < WordSize

VARIABLES
    enum_loop,              \* FLAGS_enum_loop
    exit_after_enumeration, \* FLAGS_exit_after_enumeration
    present,                \* the interfaces there are
    loop,                   \* the local variable of that name
    intfs,                  \* what the last enumeration has found
    monitor,                \* the NetworkMonitor: "none", "open", "stopped"
    watched,                \* the subscription; {} if there is none
    enumerations,           \* calls of enumerateInterfaces so far
    dumping,                \* the enumeration under way: "clean", "disturbed" by
                            \* a change of the network, or "draining" for a retry
    pc                      \* the statement main is at

flags == <<enum_loop, exit_after_enumeration>>
vars  == <<enum_loop, exit_after_enumeration, present, loop, intfs, monitor,
           watched, enumerations, dumping, pc>>

Init == /\ enum_loop \in 0 .. MaxLoop
        /\ exit_after_enumeration \in BOOLEAN
        /\ present \in SUBSET Interfaces
        /\ loop = enum_loop
        /\ intfs = {} /\ monitor = "none" /\ watched = {}
        /\ enumerations = 0 /\ dumping = "clean"
        /\ pc = "loop"

\* An interface comes or goes, perhaps in the middle of an enumeration.
NetworkChanges(i) ==
    /\ present' = IF i \in present THEN present \ {i} ELSE present \cup {i}
    /\ dumping' = IF pc \in {"repeat", "enumerate"} /\ dumping = "clean"
                  THEN "disturbed" ELSE dumping
    /\ UNCHANGED <<flags, loop, intfs, monitor, watched, enumerations, pc>>

\* Mutant: the last enumeration of the loop is forgotten.
AgainOnce == enum_loop = 0 \/ loop > 2

\* The condition of the loop: endless for 0, or until the last monitor's turn.
Again == enum_loop = 0 \/ loop > 1

\* A monitor is made, for the loop or to stay.
Construct ==
    /\ pc = "loop"
    /\ monitor' = "open" /\ dumping' = "clean"
    /\ pc' = IF Again THEN "repeat" ELSE "enumerate"
    /\ UNCHANGED <<flags, present, loop, intfs, watched, enumerations>>

\* A change has interrupted the dump: the retry first drains the socket, and
\* without RuntimeFlag::NonBlocking an empty one keeps it waiting ...
Drain ==
    /\ dumping = "disturbed" /\ dumping' = "draining"
    /\ pc \in {"repeat", "enumerate"}
    /\ UNCHANGED <<flags, present, loop, intfs, monitor, watched, enumerations, pc>>

\* ... unless so many notifications come that the buffer overruns.
Overrun ==
    /\ dumping = "draining" /\ dumping' = "disturbed"
    /\ UNCHANGED <<flags, present, loop, intfs, monitor, watched, enumerations, pc>>

\* enumerateInterfaces returns; what it has found is out of date if the network
\* has changed.  The counter is capped in the endless loop.
Enumerate(next) ==
    /\ dumping # "draining"
    /\ intfs' \in IF dumping = "clean" THEN {present} ELSE SUBSET Interfaces
    /\ enumerations' = IF enumerations > MaxLoop THEN enumerations
                       ELSE enumerations + 1
    /\ pc' = next

\* An enumeration of the loop: its result is ignored and its monitor destroyed.
\* An endless loop counts down from 0, which wraps.
EnumerateInLoop ==
    /\ pc = "repeat"
    /\ Enumerate("loop")
    /\ loop' = (loop + WordSize - 1) % WordSize
    /\ monitor' = "none"
    /\ UNCHANGED <<flags, present, watched, dumping>>

EnumerateInterfaces ==
    /\ pc = "enumerate"
    /\ Enumerate("subscribe")
    /\ UNCHANGED <<flags, present, loop, monitor, watched, dumping>>

\* subscribe; with an empty set it warns and subscribes nobody.
Subscribe ==
    /\ pc = "subscribe"
    /\ watched' = intfs
    /\ pc' = IF exit_after_enumeration THEN "stop" ELSE "run"
    /\ UNCHANGED <<flags, present, loop, intfs, monitor, enumerations, dumping>>

\* Mutant: the monitor is not stopped.
StopForgotten ==
    /\ pc = "stop"
    /\ pc' = "run"
    /\ UNCHANGED <<flags, present, loop, intfs, monitor, watched, enumerations, dumping>>

Stop ==
    /\ pc = "stop"
    /\ monitor' = "stopped" /\ pc' = "run"
    /\ UNCHANGED <<flags, present, loop, intfs, watched, enumerations, dumping>>

\* run returns only if the monitor has been stopped.
Run ==
    /\ pc = "run"
    /\ monitor = "stopped"
    /\ pc' = "exit"
    /\ UNCHANGED <<flags, present, loop, intfs, monitor, watched, enumerations, dumping>>

Main == \/ Construct
        \/ EnumerateInLoop
        \/ EnumerateInterfaces
        \/ Drain
        \/ Subscribe
        \/ Stop
        \/ Run

Next == \/ \E i \in Interfaces : NetworkChanges(i)
        \/ Overrun
        \/ Main

\* The program keeps going, whatever the network does.
Spec == Init /\ [][Next]_vars /\ WF_vars(Main)

-----------------------------------------------------------------------------

\* "Run enumeration loop N times": when the program subscribes it has enumerated
\* N times, the monitor it subscribes to included; the endless loop never gets
\* there.
EnumeratesNTimes ==
    pc \in {"subscribe", "stop", "run", "exit"} =>
        enum_loop # 0 /\ enumerations = enum_loop

\* With exit_after_enumeration the program ends after any number of
\* enumerations, unless the loop is endless or a change of the network
\* interrupts a dump: the retry then waits in its drain loop, perhaps for ever
\* (DumpProtocol's EnumerationCompletes fails on a blocking socket).
ExitsAfterEnumeration ==
    exit_after_enumeration /\ enum_loop # 0 ~> pc = "exit" \/ dumping = "draining"
==============================================================================
