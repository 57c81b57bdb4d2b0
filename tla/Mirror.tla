------------------------------- MODULE Mirror -------------------------------
(***************************************************************************)
(* What Home Assistant is promised of a watch's reading.  Readings are     *)
(* taken up only while the watch is in the list the publisher works from,  *)
(* each newer than the last; what is shown is the last one taken up, and   *)
(* only moves forward.  It may skip readings, be away for a while (a       *)
(* broker that lost its retained messages), and come back as the newest    *)
(* that was ever shown or as a later one.  Once the watch has left the     *)
(* list nothing more is taken up: the last reading may still be shown, if  *)
(* its place was kept, or is given up.  Publisher implements it.           *)
(***************************************************************************)
EXTENDS Naturals

CONSTANT Names

VARIABLES
    member,   \* the watches the publisher publishes
    said,     \* readings each watch took, counted
    taken,    \* the one the publisher last took up, 0 for none
    newest,   \* the newest of them ever shown
    shown     \* the one shown now, 0 for none

vars == <<member, said, taken, newest, shown>>

Init ==
    /\ member = {}
    /\ said = [n \in Names |-> 0]
    /\ taken = said /\ newest = said /\ shown = said

Typed == /\ taken' \in [Names -> Nat] /\ newest' \in [Names -> Nat]
         /\ shown' \in [Names -> Nat]

\* One step may concern several watches: a broker that restarts, a resync.
Keeps(n)  == taken'[n] \in {0, taken[n]}
TakesUp(n) ==
    /\ n \in member /\ taken'[n] \in 1..said[n]
    /\ taken[n] <= taken'[n] /\ newest[n] <= taken'[n]
Fades(n)  == shown'[n] \in {0, shown[n]} /\ newest'[n] = newest[n]
Shows(n)  ==
    /\ shown'[n] = taken'[n] /\ shown'[n] > 0 /\ newest[n] <= shown'[n]
    /\ newest'[n] = shown'[n]

Says(n) == said' = [said EXCEPT ![n] = @ + 1] /\ UNCHANGED <<member, taken, newest, shown>>

Publishes ==
    /\ \A n \in Names : (Keeps(n) \/ TakesUp(n)) /\ (Fades(n) \/ Shows(n))
    /\ Typed
    /\ UNCHANGED <<member, said>>

Lists ==
    /\ member' \in SUBSET Names
    /\ \A n \in Names : Keeps(n) /\ Fades(n)
    /\ Typed
    /\ UNCHANGED said

Next == Publishes \/ Lists \/ \E n \in Names : Says(n)

Spec == Init /\ [][Next]_vars
=============================================================================
