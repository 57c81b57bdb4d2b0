------------------------------ MODULE MCAlerts ------------------------------
(* Alerts for TLC: the notify URLs are model values and interchangeable.     *)
EXTENDS Alerts, TLC

CONSTANTS u1, u2

OneLine  == {u1}
TwoLines == {u1, u2}
Match    == {"match"}
Readers  == {"match", "change"}
Shown    == {"match", "pixel"}

Symmetry == Permutations(Lines)
=============================================================================
