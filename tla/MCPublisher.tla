---------------------------- MODULE MCPublisher ----------------------------
EXTENDS Publisher

MCSlugOf == [n \in {"A", "A2", "B"} |-> IF n = "B" THEN "b" ELSE "a"]

A  == [name |-> "A", number |-> FALSE]
AN == [name |-> "A", number |-> TRUE]
A2 == [name |-> "A2", number |-> FALSE]

Nothing == [saves |-> 0, ticks |-> 0, healths |-> 0, losses |-> 0, restarts |-> 0,
            trips |-> 0, births |-> 0, twins |-> 0, closes |-> 0]
Plain == [lists |-> {<<A>>, <<>>}, leftover |-> {}, others |-> {}, record |-> {},
          sweeps |-> {FALSE}, ha |-> {TRUE}, bounds |-> Nothing]

\* Readings, lists and the end that cross.
Crossing == [Plain EXCEPT !.bounds.saves = 2, !.bounds.ticks = 2, !.bounds.closes = 1]
\* A slug that changes hands, or is fought over.
Renamed == [Plain EXCEPT !.lists = {<<A, A2>>, <<A2>>, <<A2, A>>},
                         !.bounds.saves = 1, !.bounds.ticks = 1, !.bounds.losses = 1]
\* A slug given up, and claimed by another watch before or after its clear.
Reclaimed == [Plain EXCEPT !.lists = {<<A>>, <<>>, <<A2>>}, !.bounds.saves = 2,
                           !.bounds.ticks = 1, !.bounds.losses = 1]
\* A watch whose type changes.
Retyped == [Plain EXCEPT !.lists = {<<AN>>, <<A>>}, !.bounds.saves = 1,
                         !.bounds.ticks = 1, !.bounds.losses = 1, !.bounds.restarts = 1]
\* A stream that goes and comes back.
Health == [Plain EXCEPT !.lists = {<<A>>}, !.bounds.ticks = 1, !.bounds.healths = 2,
                        !.bounds.losses = 1]
\* A device removed while Home Assistant is away.
Away == [Plain EXCEPT !.sweeps = {TRUE}, !.bounds.saves = 1,
                      !.bounds.losses = 1, !.bounds.restarts = 1,
                      !.bounds.trips = 1, !.bounds.births = 1]
\* What an earlier run left, under another client_id's record or none.
LeftOver == [Away EXCEPT !.lists = {<<A>>}, !.leftover = {"b"}, !.ha = BOOLEAN,
                         !.bounds.saves = 0, !.bounds.restarts = 0]
OldName == [LeftOver EXCEPT !.record = {"a", "b"}, !.ha = {TRUE}]
\* Another watchglass.
Other == [Plain EXCEPT !.others = {"b"}, !.record = {"b"}, !.sweeps = {TRUE},
                       !.bounds.saves = 1, !.bounds.losses = 1]
Twin == [Other EXCEPT !.bounds.twins = 1, !.bounds.losses = 0]
TwinLost == [Twin EXCEPT !.bounds.saves = 0, !.bounds.losses = 1]
\* The record of the old client_id, and a first list with no watch of it.
FirstEmpty == [OldName EXCEPT !.lists = {<<A>>, <<>>}, !.bounds =
                              [Nothing EXCEPT !.saves = 1]]

MCScenarios == {Crossing, Renamed, Reclaimed, Retyped, Health, Away, LeftOver, OldName,
                Other, Twin, TwinLost, FirstEmpty}
MCRetired == {FirstEmpty}
MCRenamed == {Renamed}
MCRetyped == {Retyped}
=============================================================================
