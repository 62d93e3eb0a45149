------------------------------- MODULE MCClan -------------------------------
(* Two players and the clan one of them may found, over three seasons with   *)
(* room for one player each.                                                *)
EXTENDS Clan

CONSTANTS p1, p2, c1

TwoPlayers == {p1, p2}
OneClan == {c1}

=============================================================================
