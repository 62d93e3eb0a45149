------------------------------- MODULE MCSolo -------------------------------
(* A road from the camp past a mountain and a tomb to the treasure, and      *)
(* three types of unit, of which a guide is beyond anybody's means.          *)
EXTENDS Solo

MCTiles == {<<1, 1>>, <<2, 1>>, <<3, 1>>, <<1, 2>>}
MCTerrain == [t \in MCTiles |-> CASE t = <<1, 1>> -> "safe" [] t = <<2, 1>> -> "marsh"
                                  [] t = <<1, 2>> -> "mountain" [] t = <<3, 1>> -> "treasure"]
MCCamp == <<1, 1>>
MCTombSites == {<<2, 1>>, <<1, 2>>}
MCFirstTombs == <<<<2, 1>>>>
MCUnitOrder == <<"explorer", "guide", "soldier">>
MCAllUnits == <<"explorer", "soldier", "guide">>
MCPrice == [explorer |-> 1, guide |-> 9, soldier |-> 2]
Terrains == {"safe", "mountain", "marsh", "tomb", "treasure"}
MCPower == [t \in Terrains |-> [explorer |-> 1, guide |-> 1, soldier |-> IF t = "mountain" THEN 3 ELSE 2]]
MCSupply == [t \in Terrains |-> 1]
MCMonsters == [t \in Terrains |-> IF t = "mountain" THEN 2 ELSE 0]
MCGate == [t \in Terrains |-> CASE t = "treasure" -> 1 [] t = "tomb" -> 1 [] OTHER -> 0]
MCXp == [base |-> 1, div |-> 2, tomb |-> 2, treasure |-> 3, level2 |-> 2, growth |-> 150]
MCShare == [artifact |-> 10, treasure |-> 40, participation |-> 10, floor |-> 2]

=============================================================================
