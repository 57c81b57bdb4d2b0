-------------------------- MODULE MCPublisherDrop --------------------------
(***************************************************************************)
(* Publisher with a queue of one job, and a record of the last word said   *)
(* of each watch's stream, whether the queue had room for it or not.       *)
(***************************************************************************)
EXTENDS MCPublisher

VARIABLE word   \* the last one said while the worker had the saved list

dropVars == <<vars, word>>
MCDrop == {Health}

DropInit == Init /\ word = [n \in Names |-> None]
SaysWord == \E e \in Running, x \in {"online", "offline"} :
    /\ OnHealth(e, x)
    /\ word' = [word EXCEPT ![e.name] = IF Current THEN <<x>> ELSE None]
SavesList == \E list \in scene.lists : Save(list) /\ word' = [n \in Names |-> None]
SaysElse ==
    /\ \/ Worker \/ Network \/ SyncAsync \/ Close
       \/ \E e \in Running : \E k \in {0, said[e.name], said[e.name] + 1} : OnEvent(e, k)
    /\ word' = word
DropNext == SaysWord \/ SavesList \/ SaysElse
DropSpec == DropInit /\ [][DropNext]_dropVars

\* What enqueue's comment says ("why a drop is safe"), of a stream that goes or
\* comes back: at rest the broker retains the last word said of each watch. It
\* does not hold: every reading carries the whole reading, but none the health,
\* and a word the full queue turned away is not said again.
DropsAreSafe ==
    Quiet /\ conn /\ handed /\ p.listed =>
        \A e \in Winners(saved) :
            word[e.name] # None => broker[SlugOf[e.name]].state.health = word[e.name]
=============================================================================
