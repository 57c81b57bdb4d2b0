------------------------------ MODULE MCMeter ------------------------------
(* Meters of the three kinds the gate tells apart: one with a rise limit    *)
(* that confirms on two readings, one that confirms on one, and one with no *)
(* limit whose page is used and which is restarted.                         *)
EXTENDS Meter

Steady   == [confirm |-> 2, maxRise |-> 1, top |-> 4, accepts |-> 0, restarts |-> 0]
Quick    == [confirm |-> 1, maxRise |-> 1, top |-> 2, accepts |-> 1, restarts |-> 1]
Replaced == [confirm |-> 1, maxRise |-> 0, top |-> 2, accepts |-> 2, restarts |-> 2]

MCWatches == {Steady, Quick, Replaced}
=============================================================================
