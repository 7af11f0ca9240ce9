------------------------------ MODULE Replica -------------------------------
(***************************************************************************)
(* What the monitor's cache is meant to be: a replica of the kernel's      *)
(* facts.  Every change of the source is logged.  The replica is loaded in *)
(* some way while the source keeps changing; when it is complete, it and   *)
(* the rest of the log make up the source, and from then on it replays the *)
(* log in order, entry by entry, until it is disconnected.                 *)
(***************************************************************************)
EXTENDS Naturals, Sequences, SequencesExt

CONSTANT Apply(_, _)    \* the replica after one more entry of the log

VARIABLES
    source,     \* what is so
    replica,    \* what the replica says is so
    log,        \* changes the replica has still to replay
    complete,   \* the replica has been loaded
    connected   \* changes are still logged

replication == <<source, replica, log, complete, connected>>

Init == /\ replica = {} /\ log = <<>>
        /\ complete = FALSE /\ connected = TRUE

\* The source with the rest of the log: what the replica is going to be.
Replayed(from, entries) ==
    LET after[k \in 0 .. Len(entries)] ==
            IF k = 0 THEN from ELSE Apply(after[k - 1], entries[k])
    IN  after[Len(entries)]

SourceChanges == /\ connected
                 /\ Len(log') > Len(log) /\ log' = Append(log, Last(log'))
                 /\ source' = Apply(source, Last(log'))
                 /\ UNCHANGED <<replica, complete, connected>>

Load == /\ connected /\ ~complete
        /\ complete' => Replayed(replica', log') = source
        /\ UNCHANGED <<source, connected>>

Replay == /\ complete
          /\ log # <<>>
          /\ replica' = Apply(replica, Head(log))
          /\ log' = Tail(log)
          /\ UNCHANGED <<source, complete, connected>>

Disconnect == /\ connected /\ ~connected'
              /\ UNCHANGED source

Next == SourceChanges \/ Load \/ Replay \/ Disconnect

Spec == Init /\ [][Next]_replication
=============================================================================
