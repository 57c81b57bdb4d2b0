------------------------------ MODULE MCPolls -------------------------------
(* Polls for TLC: a text watch with a gate and one without, and one for      *)
(* pixel_change.                                                             *)
EXTENDS Polls

CONSTANTS blank, a, b

MCTexts   == {blank, a, b}
MCWatches == {[pixel |-> FALSE, gated |-> TRUE], [pixel |-> FALSE, gated |-> FALSE],
              [pixel |-> TRUE, gated |-> FALSE]}
=============================================================================
