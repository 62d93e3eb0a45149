------------------------------ MODULE MCMarket ------------------------------
(* Three players and two artifacts.                                         *)
EXTENDS Market, TLC

CONSTANTS p1, p2, p3, t1, t2

ThreePlayers == {p1, p2, p3}
TwoTombs == {t1, t2}
Symmetry == Permutations(ThreePlayers)

=============================================================================
