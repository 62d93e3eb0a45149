------------------------------ MODULE MCPrizes ------------------------------
(* Two camps, a tomb between them, the treasure behind it, and behind the   *)
(* treasure a site for the next tomb.                                       *)
EXTENDS Prizes

MCTiles == {<<0, 0>>, <<2, 0>>, <<1, 0>>, <<1, 1>>, <<1, 2>>}
MCTerrain == [t \in MCTiles |-> IF t = <<1, 1>> THEN "treasure" ELSE IF t[1] = 1 THEN "marsh" ELSE "safe"]
MCCampSites == {<<0, 0>>, <<2, 0>>}
MCTombSites == {<<1, 0>>, <<1, 2>>, <<2, 0>>}
MCFirstTombs == <<<<1, 0>>>>
Terrains == {"safe", "marsh", "tomb", "treasure"}
MCMonsters == [t \in Terrains |-> IF t = "marsh" THEN 1 ELSE 0]
MCGate == [t \in Terrains |-> IF t = "treasure" THEN 2 ELSE 0]
MCXp == [base |-> 0, div |-> 1, tomb |-> 1, treasure |-> 0, level2 |-> 1, growth |-> 200]
MCShare == [artifact |-> 10, treasure |-> 40, participation |-> 10, floor |-> 3]
MCSymmetry == Permutations(Players)

=============================================================================
