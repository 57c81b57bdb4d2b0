------------------------------ MODULE MCDrift ------------------------------
EXTENDS Drift

Nothing == [moves |-> 0, restarts |-> 0, crashes |-> 0, saves |-> 0, asks |-> 0,
            sizes |-> 0]

\* The picture moves, and the process stops or dies.
Bumps == [Nothing EXCEPT !.moves = 2, !.restarts = 1, !.crashes = 1]
\* Someone asks for a new reference, or has the box moved.
Asks == [Nothing EXCEPT !.moves = 1, !.asks = 2, !.crashes = 1]
\* The watch gets another camera or box, or is deleted and made again.
Saves == [Nothing EXCEPT !.moves = 1, !.saves = 2, !.asks = 1]
\* The frames change size.
Turns == [Nothing EXCEPT !.moves = 1, !.sizes = 2, !.restarts = 1]

MCBounds == {Bumps, Asks, Saves, Turns}
=============================================================================
