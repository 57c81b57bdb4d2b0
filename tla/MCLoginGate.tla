---------------------------- MODULE MCLoginGate ----------------------------
(* LoginGate for TLC: two channels of a camera, one login, two grabs.        *)
EXTENDS LoginGate

CONSTANTS user, front, back, g1, g2

MCLogins == {user}
MCPaths  == {front, back}
MCGrabs  == {g1, g2}
MCWaits  == <<1, 2>>
MCFollowed == {<<user, Whole>>, <<user, front>>}
=============================================================================
