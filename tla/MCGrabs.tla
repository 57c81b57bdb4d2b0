------------------------------ MODULE MCGrabs -------------------------------
(* Grabs for TLC: a webcam that a watch's poll, a snapshot and a Test of     *)
(* pixel_change want at once, and Digest cameras: three watches, one with a  *)
(* wrong password, or a watch and a Test.                                    *)
EXTENDS Grabs

By(kind, right, id) == [kind |-> kind, right |-> right, id |-> id]
Camera(offers, counts) == [offers |-> offers, counts |-> counts]

Webcam == {[callers |-> {By("poll", TRUE, 1), By("snapshot", TRUE, 2), By("pixel", TRUE, 3)},
            device |-> TRUE, camera |-> Camera("each", FALSE)]}

Asked(camera) ==
    {[callers |-> cs, device |-> FALSE, camera |-> camera] : cs \in
        {{By("poll", TRUE, 1), By("poll", TRUE, 2), By("poll", FALSE, 3)},
         {By("poll", TRUE, 1), By("test", TRUE, 2)}}}

MCScenes == Webcam \cup Asked(Camera("shared", FALSE)) \cup Asked(Camera("session", TRUE))
            \cup Asked(Camera("each", TRUE))
SharedCount == Asked(Camera("shared", TRUE))
=============================================================================
