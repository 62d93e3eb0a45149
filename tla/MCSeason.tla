------------------------------ MODULE MCSeason ------------------------------
(* Two players, three values of the settings and three seasons.             *)
EXTENDS Season

CONSTANTS p1, p2, base, easy, hard

TwoPlayers == {p1, p2}
ThreeSettings == {base, easy, hard}

=============================================================================
