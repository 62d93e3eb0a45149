---------------------------- MODULE MCExpedition ----------------------------
(* expedition: three players for two places and two tiles, and a clan that    *)
(* spectators may found.  expedition_duel: two players, a strip of four tiles *)
(* with monsters, room for a contested tile and a long move, and a clan of an *)
(* earlier season with any rows left in it.                                   *)
EXTENDS Expedition, TLC

CONSTANTS p1, p2, p3, c1, c0

MCPlayers == {p1, p2, p3}
MCClans == {c1}
MCTiles == {<<1, 1>>, <<2, 1>>}
MCCampTiles == MCTiles
DuelPlayers == {p1, p2}
DuelClans == {c0}
DuelTiles == {<<x, 1>> : x \in 1..4}
DuelCampTiles == {<<1, 1>>, <<4, 1>>}
DuelWild == {<<3, 1>>}
Symmetry == Permutations(Players)

=============================================================================
