----------------------------- MODULE ChangeFeed -----------------------------
(***************************************************************************)
(* What the monitor promises its subscribers.  There are sources, whose    *)
(* state anything may change, and receivers, each of which keeps a picture *)
(* of the sources it follows.  A picture of a source is replaced as a      *)
(* whole, by the state the source has at that moment, and is dropped when  *)
(* the source is gone or the receiver follows nothing any more.  A         *)
(* receiver that changes what it follows is up to date at once about the   *)
(* sources that exist, and while the feed is quiet every receiver is up to *)
(* date about all it follows.                                              *)
(*                                                                         *)
(* A state, and a picture of it, is a set of at most one value: {} is a    *)
(* source that does not exist, or of which a receiver has no picture.      *)
(***************************************************************************)
EXTENDS Naturals

CONSTANTS Sources, Receivers

VARIABLES
    current,    \* the state of every source
    follows,    \* the sources each receiver follows
    picture,    \* what each receiver has been handed about each source
    quiet       \* the feed waits, with nothing left to hand over

feed == <<current, follows, picture, quiet>>

Init == /\ current = [i \in Sources |-> {}]
        /\ follows = [r \in Receivers |-> {}]
        /\ picture = [r \in Receivers |-> [i \in Sources |-> {}]]
        /\ ~quiet

UpToDate(r, i) == picture[r][i] = current[i]

\* A source appears, changes or disappears, without anybody being told yet.
Change(i) == /\ current' = [current EXCEPT ![i] = current'[i]]
             /\ ~quiet'
             /\ UNCHANGED <<follows, picture>>

\* What a receiver can be handed: the current state or, when it leaves, nothing.
Offered(r, i) == {current[i]} \cup (IF follows'[r] = {} THEN {{}} ELSE {})

\* Some receivers are handed something, or change what they follow.
Hand == /\ UNCHANGED current
        /\ \A r \in Receivers :
              /\ \A i \in Sources :
                    picture'[r][i] \in {picture[r][i]} \cup Offered(r, i)
              /\ \A i \in follows'[r] :
                    \/ follows'[r] = follows[r] \/ current[i] = {}
                    \/ UpToDate(r, i)'
        /\ quiet' => \A r \in Receivers : \A i \in follows'[r] : UpToDate(r, i)'

Next == Hand \/ \E i \in Sources : Change(i)

Spec == Init /\ [][Next]_feed
=============================================================================
