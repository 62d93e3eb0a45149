------------------------------- MODULE Rules --------------------------------
(***************************************************************************)
(* The arithmetic of the game, shared by browser and server: battles,      *)
(* losses and guardians (src/rules/combat.ts), levels (src/rules/level.ts) *)
(* and prizes (src/rules/economy.ts).  No state; numbers of the settings   *)
(* are parameters.  Fractions are percents or pairs of integers, and a     *)
(* result that the code rounds is rounded the same way.                    *)
(***************************************************************************)
EXTENDS Sequences, Sums

CeilDiv(a, b) == -((-a) \div b)
AtLeast(a, b) == IF a < b THEN b ELSE a
AtMost(a, b) == IF a < b THEN a ELSE b

-----------------------------------------------------------------------------
(* Armies: a function from unit types to numbers.                          *)

TotalUnits(u) == SumOver(u, DOMAIN u)

\* armyPower times 2 * energyMax, as a whole number: the weight of energy runs
\* from 1/2 to 1.  power[k] is the power of a unit of type k on the tile.
ArmyPower(u, energy, power, energyMax) ==
  SumOver([k \in DOMAIN u |-> u[k] * power[k]], DOMAIN u) * (energyMax + energy)

\* Beaten exactly when the army is weaker than the monsters; the difficulty of
\* the settings makes them weaker.
Wins(u, energy, power, energyMax, monsters, difficulty) ==
  ArmyPower(u, energy, power, energyMax) * difficulty >= monsters * 2 * energyMax

Rank(k, order) == CHOOSE i \in DOMAIN order : order[i] = k

\* The cheapest type there is a unit of; the first of the order among equals.
CheapestUnit(u, price, order) ==
  CHOOSE k \in DOMAIN u :
    /\ u[k] > 0
    /\ \A l \in DOMAIN u : u[l] > 0 =>
         price[k] < price[l] \/ (price[k] = price[l] /\ Rank(k, order) <= Rank(l, order))

\* Mutant of LossesByType: shares are rounded up.
LossesByTypeUp(u, total, order) ==
  [k \in DOMAIN u |-> CeilDiv(u[k] * total, TotalUnits(u))]

\* computeLosses, its second half: a total spread over the types in proportion
\* to their numbers; what rounding down leaves over goes to the largest
\* remainders, the first of the order among equals, where there is a unit left.
LossesByType(u, total, order) ==
  LET free == TotalUnits(u)
      down == [k \in DOMAIN u |-> (u[k] * total) \div free]
      over == [k \in DOMAIN u |-> (u[k] * total) % free]
      left == total - TotalUnits(down)
      room == {k \in DOMAIN u : down[k] < u[k]}
      Before(k, l) == over[k] > over[l] \/ (over[k] = over[l] /\ Rank(k, order) < Rank(l, order))
      extra == {k \in room : Cardinality({l \in room : Before(l, k)}) < left}
  IN  [k \in DOMAIN u |-> IF k \in extra THEN down[k] + 1 ELSE down[k]]

\* computeLosses, its first half: how many fall is random, at least one where
\* there are monsters and never more than there are.
LossTotals(u, monsters) ==
  IF monsters > 0 /\ TotalUnits(u) > 0 THEN 1..TotalUnits(u) ELSE {0}

LossesOf(u, monsters, order) ==
  IF monsters > 0 /\ TotalUnits(u) > 0
  THEN {LossesByType(u, total, order) : total \in LossTotals(u, monsters)}
  ELSE {[k \in DOMAIN u |-> 0]}

-----------------------------------------------------------------------------
(* Experience and levels.                                                  *)

CaptureXp(terrain, monsters, xp) ==
  CASE terrain = "tomb" -> xp.tomb
    [] terrain = "treasure" -> xp.treasure
    [] OTHER -> xp.base + (2 * monsters + xp.div) \div (2 * xp.div)

\* Experience each level asks for beyond the one before it, and in all.
XpNeed(xp, top) ==
  LET need[l \in 1..top] == IF l = 1 THEN 0 ELSE IF l = 2 THEN xp.level2
                            ELSE CeilDiv(need[l - 1] * xp.growth, 100)
  IN  need
CumulativeXp(xp, top) ==
  LET need == XpNeed(xp, top)
      cum[l \in 1..top] == IF l = 1 THEN 0 ELSE cum[l - 1] + need[l]
  IN  cum

\* levelForXp: the highest level whose sum has been reached; top is 60.
LevelForXp(points, xp, top) ==
  LET cum == CumulativeXp(xp, top)
  IN  CHOOSE l \in 1..top : cum[l] <= points /\ (l = top \/ points < cum[l + 1])

-----------------------------------------------------------------------------
(* Prizes, from the pool of the season and shares in percent.              *)

ArtifactValue(pool, share) == (pool * share.artifact) \div 100
TreasureValue(pool, share) == AtLeast((pool * share.treasure) \div 100, share.floor)
ParticipationValue(pool, share) == (pool * share.participation) \div 100

=============================================================================
