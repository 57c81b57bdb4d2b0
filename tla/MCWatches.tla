----------------------------- MODULE MCWatches -----------------------------
(* A watch that is saved between two cameras, two notify lists, and a        *)
(* setting this box cannot run.                                              *)
EXTENDS Watches, TLC

Upright == [reads |-> 1, notify |-> 1, starts |-> TRUE]
Turned  == [reads |-> 2, notify |-> 1, starts |-> TRUE]
Blocked == [reads |-> 2, notify |-> 2, starts |-> FALSE]

MCSettings == {Upright, Turned, Blocked}
TwoRequests == [requests |-> 2, runs |-> 3, alerts |-> 1, boots |-> 0]
WithReboot  == [requests |-> 2, runs |-> 3, alerts |-> 0, boots |-> 1]
TwoAlerts   == [requests |-> 1, runs |-> 3, alerts |-> 2, boots |-> 1]
MCBounds == {TwoRequests, WithReboot, TwoAlerts}
MCNames == {1}
CONSTANTS save1, save2
MCHandlers == {save1, save2}
EitherHandler == Permutations(MCHandlers)
=============================================================================
