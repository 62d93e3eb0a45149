-------------------------------- MODULE Solo --------------------------------
(***************************************************************************)
(* The game without a server, src/rules/state.ts: one player, the clan it  *)
(* may found, its land, one caravan, tombs, the treasure, money and the    *)
(* end of the season.  The browser calls one function at a time, so every  *)
(* function is one atomic action.  A call of tick that does several things *)
(* is a sequence of the Tick actions below without rest in between.        *)
(*                                                                         *)
(* The season's map, prices and prizes are constants.  Coins are counted   *)
(* in the smallest amount a rest may cost, energy and prizes in whole      *)
(* numbers, and findPath is left open among the roads it may return.       *)
(* Objects found after a battle, names, the log and clocks are left out.   *)
(***************************************************************************)
EXTENDS Rules

CONSTANTS
  Tiles,       \* passable tiles <<x, y>>
  Terrain,     \* per tile: the terrain of the generator, without tombs
  Camp,        \* the camp generateCamp found
  TombSites,   \* tiles at the distance tombs are placed at
  FirstTombs,  \* placeInitialTombs: tiles in order, as many as are visible
  TombsTotal,  \* TOMB_NAMES.length, ten
  None,        \* null, undefined
  UnitOrder,   \* UNIT_ORDER: whoever stays as guardian, among equals
  AllUnits,    \* ALL_UNITS: whose remainder comes first
  Price,       \* settings.unitPrice
  Power,       \* settings.unitPower with the bonus, per terrain and type
  Supply, Monsters, Gate,    \* per terrain: settings.supply, monsters, gates (0: none)
  Xp,          \* settings of experience: base, div, tomb, treasure, level2, growth
  Share,       \* settings of prizes: artifact, treasure, participation, floor
  Difficulty, TopLevel, TreasureArtifacts, StartCoins, CoinToman, ClanCreateCost, WithdrawMin,
  EnergyMax, EnergyPerMove, EnergyRegen, FreeTravelMax, RestCost, LongMoveMax, LongMoveStep,
  MaxPath,     \* bound of the model: tiles of a road
  MaxUnits,    \* bound of the model: units bought in a season
  Batches,     \* bound of the model: numbers of coins or units in a purchase, contribution or donation
  Amounts,     \* bound of the model: toman put in or taken out at once
  MaxDeposits, \* bound of the model: toman put in, over all seasons
  MaxKept,     \* bound of the model: toman brought into a season
  MaxArmy      \* bound of the model: units of a type, where losses are compared

Actors == {"player", "clan"}
UnitTypes == {UnitOrder[i] : i \in DOMAIN UnitOrder}

\* The map is finite, the generator's camp is safe, and tombs are placed on
\* tiles of it (placeInitialTombs), not more than there are names.
ASSUME SoloAssumption ==
  /\ IsFiniteSet(Tiles)
  /\ Camp \in Tiles /\ Terrain[Camp] = "safe"
  /\ TombSites \subseteq {t \in Tiles : Terrain[t] # "treasure"}
  /\ FirstTombs \in Seq(TombSites)
  /\ TombsTotal \in Nat /\ Len(FirstTombs) <= TombsTotal

\* Both orders list every type of unit, and null is nothing else.
ASSUME OrderAssumption ==
  /\ UnitOrder \in Seq(UnitTypes)
  /\ AllUnits \in Seq(UnitTypes) /\ UnitTypes \subseteq {AllUnits[i] : i \in DOMAIN AllUnits}
  /\ None \notin UnitTypes /\ None \notin Actors /\ None \notin Tiles
  /\ None \notin [owner : Actors, guardian : UnitTypes \cup {None}, cost : Nat]

\* Settings are not negative, and the shares of the prizes are no more than
\* the whole of the pool (validateSettings).
ASSUME NumbersAssumption ==
  /\ \A t \in {"tomb"} \cup {Terrain[s] : s \in Tiles} : Supply[t] \in Nat /\ Monsters[t] \in Nat
  /\ \A k \in UnitTypes : Price[k] \in Nat
  /\ Xp.base \in Nat /\ Xp.div \in Nat \ {0} /\ Xp.tomb \in Nat /\ Xp.treasure \in Nat
  /\ Share \in [artifact : Nat, treasure : Nat, participation : Nat, floor : Nat]
  /\ Share.treasure + TombsTotal * Share.artifact + Share.participation <= 100
  /\ {StartCoins, CoinToman, ClanCreateCost, EnergyMax, EnergyPerMove, EnergyRegen,
       FreeTravelMax, RestCost, LongMoveStep, MaxPath, MaxArmy} \subseteq Nat
  /\ Amounts \subseteq Nat /\ Batches \subseteq Nat \ {0}

VARIABLES
  st,          \* the State object
  put,         \* history: toman put in by deposits, in all seasons
  kept,        \* history: toman brought from the season before
  paid         \* history: prizes of this season

vars == <<st, put, kept, paid>>

-----------------------------------------------------------------------------
(* State.                                                                  *)

NewActor == [units |-> [k \in UnitTypes |-> 0], energy |-> EnergyMax, camp |-> None, pos |-> None,
             xp |-> 0, arts |-> {}, coins |-> 0, spent |-> 0, bought |-> 0]

NewState(toman, iban) ==
  [ act |-> [a \in Actors |-> IF a = "clan" THEN NewActor
                              ELSE [NewActor EXCEPT !.camp = Camp, !.pos = Camp, !.coins = StartCoins]],
    named |-> FALSE, toman |-> toman, blocked |-> 0, iban |-> iban, tx |-> 0,
    inClan |-> FALSE, weight |-> 0, memberCoins |-> 0, control |-> "player",
    owned |-> [t \in Tiles |-> IF t = Camp THEN [owner |-> "player", guardian |-> None, cost |-> 0]
                               ELSE None],
    tombs |-> [i \in DOMAIN FirstTombs |-> [at |-> FirstTombs[i], captured |-> FALSE]],
    migration |-> None, pool |-> 0, treasure |-> None, closed |-> FALSE ]

Exists(id) == id = "player" \/ st.inClan
Of(id) == st.act[id]
Adjacent(s, t) == s # t /\ \A i \in 1..2 : s[i] - t[i] \in -1..1

TombsAt(s, t) == {i \in DOMAIN s.tombs : ~s.tombs[i].captured /\ s.tombs[i].at = t}
TerrainAt(t) == IF TombsAt(st, t) # {} THEN "tomb" ELSE Terrain[t]
MonstersAt(t) == Monsters[TerrainAt(t)]

\* Tiles of the player, of the clan and of its members count the same.
IsOwn(t) == st.owned[t] # None /\ (st.inClan \/ st.owned[t].owner = st.control)
OwnTiles == {t \in Tiles : IsOwn(t)}

GateLevel(id) == LevelForXp(Of(IF st.inClan THEN "clan" ELSE id).xp, Xp, TopLevel)
ArtifactCount(id) == Cardinality(Of(id).arts)
  + IF id = "player" /\ st.inClan THEN Cardinality(Of("clan").arts) ELSE 0

\* Mutant of Paid: what is spent is not counted.
PaidUncounted(a, n) == [a EXCEPT !.coins = @ - n]

\* An actor that has spent n coins.
Paid(a, n) == [a EXCEPT !.coins = @ - n, !.spent = @ + n]
SyncClanXp(s) == [s EXCEPT !.act["clan"].xp = IF s.inClan THEN AtLeast(@, s.act["player"].xp) ELSE @]

-----------------------------------------------------------------------------
Init ==
  /\ st = NewState(0, FALSE)
  /\ put = 0 /\ kept = 0 /\ paid = 0

-----------------------------------------------------------------------------
(* Registration and money.                                                 *)

RegisterName ==
  /\ ~st.named
  /\ st' = [st EXCEPT !.named = TRUE]
  /\ UNCHANGED <<put, kept, paid>>

Deposit == \E n \in Amounts :
  /\ put + n <= MaxDeposits
  /\ st' = [st EXCEPT !.toman = @ + n, !.tx = @ + n]
  /\ put' = put + n
  /\ UNCHANGED <<kept, paid>>

\* Each purchase of coins enlarges the pool of prizes.
BuyCoins == \E n \in Batches :
  /\ ~st.closed
  /\ n * CoinToman <= st.toman - st.blocked
  /\ st' = [st EXCEPT !.toman = @ - n * CoinToman, !.tx = @ - n * CoinToman,
                      !.act["player"].coins = @ + n, !.pool = @ + n * CoinToman]
  /\ UNCHANGED <<put, kept, paid>>

SetIban ==
  /\ st' = [st EXCEPT !.iban = TRUE]
  /\ UNCHANGED <<put, kept, paid>>

Withdraw == \E n \in Amounts :
  /\ st.iban
  /\ n >= WithdrawMin
  /\ n <= st.toman - st.blocked
  /\ st' = [st EXCEPT !.toman = @ - n, !.tx = @ - n]
  /\ UNCHANGED <<put, kept, paid>>

-----------------------------------------------------------------------------
(* Units and energy.                                                       *)

BuyUnits(id) == \E k \in UnitTypes, n \in Batches :
  /\ ~st.closed
  /\ Exists(id)
  /\ Of("player").bought + Of("clan").bought + n <= MaxUnits
  /\ n * Price[k] <= Of(id).coins
  /\ st' = [st EXCEPT !.act[id] = [Paid(Of(id), n * Price[k]) EXCEPT !.units[k] = @ + n, !.bought = @ + n]]
  /\ UNCHANGED <<put, kept, paid>>

Migrating(id) == st.migration # None /\ st.migration.actor = id

Rest(id) ==
  LET cost == (EnergyMax - Of(id).energy) * TotalUnits(Of(id).units) * RestCost IN
  /\ Exists(id)
  /\ Of(id).energy < EnergyMax
  /\ ~Migrating(id)
  /\ cost <= Of(id).coins
  /\ st' = [st EXCEPT !.act[id] = [Paid(Of(id), cost) EXCEPT !.energy = EnergyMax]]
  /\ UNCHANGED <<put, kept, paid>>

-----------------------------------------------------------------------------
(* Moves.                                                                  *)

Roads == {s \in UNION {[1..n -> Tiles] : n \in 1..MaxPath} :
            /\ \A i \in 1..Len(s) - 1 : Adjacent(s[i], s[i + 1])
            /\ \A i, j \in 1..Len(s) : i # j => s[i] # s[j]}

RoadsTo(id, t, S) == {s \in Roads : /\ s[Len(s)] = t /\ Adjacent(Of(id).pos, s[1])
                                    /\ \A i \in 1..Len(s) : s[i] \in S \ {Of(id).pos}}
Shortest(R) == {s \in R : \A r \in R : Len(s) <= Len(r)}

\* gateCheck: level, and artifacts where the treasure is guarded.
GateOpen(id, t) ==
  /\ GateLevel(id) >= Gate[TerrainAt(t)]
  /\ TerrainAt(t) \in {"treasure", "hell"} => ArtifactCount(id) >= TreasureArtifacts

\* After the treasure is taken, only tombs that are left can be gone to, as
\* long as every tomb is captured or owned; the code lets other moves through
\* while some tomb is free.
OpenAfterTreasure(t) ==
  \/ st.treasure = None
  \/ \E i \in DOMAIN st.tombs : ~st.tombs[i].captured /\ st.owned[st.tombs[i].at] = None
  \/ TombsAt(st, t) # {}

Plan(kind, path, cost) == [kind |-> kind, path |-> path, cost |-> cost]

FreePlans(id, t) ==
  IF t \in OwnTiles \ {Of(id).pos}
  THEN {Plan("free", s, 0) : s \in Shortest(RoadsTo(id, t, OwnTiles))}
  ELSE {}

\* A neighbour of one's own land: an own road to the nearest own neighbour of
\* it, then the tile.
SinglePlans(id, t) ==
  LET near == {o \in OwnTiles : Adjacent(o, t)} IN
  IF t \in OwnTiles \/ near = {} \/ ~GateOpen(id, t) \/ TotalUnits(Of(id).units) < 2 THEN {}
  ELSE IF Adjacent(Of(id).pos, t) THEN {Plan("single", <<t>>, Supply[TerrainAt(t)])}
  ELSE {Plan("single", Append(s, t), Supply[TerrainAt(t)]) :
          s \in Shortest(UNION {RoadsTo(id, o, OwnTiles) : o \in near})}

NewOn(s) == {i \in DOMAIN s : ~IsOwn(s[i])}
LongFactor(n) == 100 + LongMoveStep * n
LongCost(s) == CeilDiv(SumOver([i \in DOMAIN s |-> Supply[TerrainAt(s[i])]], NewOn(s))
                       * LongFactor(Cardinality(NewOn(s))), 100)

LongPlans(id, t) ==
  IF t \in OwnTiles \/ (\E o \in OwnTiles : Adjacent(o, t)) \/ TotalUnits(Of(id).units) < 2 THEN {}
  ELSE {Plan("long", s, LongCost(s)) :
          s \in {r \in RoadsTo(id, t, Tiles) : /\ Cardinality(NewOn(r)) <= LongMoveMax
                                               /\ \A i \in NewOn(r) : GateOpen(id, r[i])}}

StartMove(id, t) ==
  /\ ~st.closed
  /\ st.migration = None
  /\ Exists(id) /\ Of(id).camp # None
  /\ OpenAfterTreasure(t)
  /\ \E plan \in FreePlans(id, t) \cup SinglePlans(id, t) \cup LongPlans(id, t) :
       /\ plan.cost <= Of(id).coins
       /\ LET tired == AtMost(FreeTravelMax, 2 * Len(plan.path))
          IN st' = [st EXCEPT
               !.migration = [actor |-> id, kind |-> plan.kind, path |-> plan.path,
                              step |-> 1, prepaid |-> plan.cost],
               !.act[id] = [Paid(Of(id), plan.cost) EXCEPT
                              !.energy = IF plan.kind = "free" THEN AtLeast(0, @ - tired) ELSE @]]
  /\ UNCHANGED <<put, kept, paid>>

\* The caravan stays where it is; supplies are not given back.
CancelMove ==
  /\ st.migration # None
  /\ st' = [st EXCEPT !.migration = None]
  /\ UNCHANGED <<put, kept, paid>>

-----------------------------------------------------------------------------
(* tick.                                                                   *)

\* Time passes: whoever is not on the way regains energy.
TickRest ==
  /\ st' = [st EXCEPT !.act = [a \in Actors |->
              IF Migrating(a) \/ ~Exists(a) THEN Of(a)
              ELSE [Of(a) EXCEPT !.energy = AtMost(EnergyMax, @ + EnergyRegen)]]]
  /\ UNCHANGED <<put, kept, paid>>

Here == st.migration.path[st.migration.step]
NextStep(m) == IF m.step = Len(m.path) THEN None ELSE [m EXCEPT !.step = @ + 1]

\* A due step onto one's own land.
TickOwn ==
  /\ st.migration # None
  /\ IsOwn(Here)
  /\ st' = [st EXCEPT !.act[st.migration.actor].pos = Here, !.migration = NextStep(st.migration)]
  /\ UNCHANGED <<put, kept, paid>>

Army(id) == Of(id).units
PowerAt(t) == Power[TerrainAt(t)]
Battle(id, t) == Wins(Army(id), Of(id).energy, PowerAt(t), EnergyMax, MonstersAt(t), Difficulty)
Left(u, losses) == [k \in UnitTypes |-> u[k] - losses[k]]
\* Mutant of Garrison: the guardian also stays in the army.
GarrisonFree(left, guardian) == left

Garrison(left, guardian) == [left EXCEPT ![guardian] = @ - 1]
Tired(id) == AtLeast(0, Of(id).energy - EnergyPerMove)

\* Beaten, or nobody left to stay as guardian: back to the camp.
TickLose ==
  LET id == st.migration.actor IN
  /\ st.migration # None
  /\ ~IsOwn(Here)
  /\ \E losses \in LossesOf(Army(id), MonstersAt(Here), AllUnits) :
       /\ ~Battle(id, Here) \/ TotalUnits(Left(Army(id), losses)) < 1
       /\ st' = [st EXCEPT !.migration = None, !.act[id] =
                   [Of(id) EXCEPT !.units = Left(@, losses), !.energy = Tired(id), !.pos = Of(id).camp]]
  /\ UNCHANGED <<put, kept, paid>>

\* captureTomb: the artifact goes to the clan of a member; a new tomb appears
\* on one of the sites left, if any, as far as names last.
NextTombs(s) ==
  {None} \cup IF Len(s.tombs) >= TombsTotal THEN {}
              ELSE {t \in TombSites : s.owned[t] = None /\ TombsAt(s, t) = {}}

\* Mutant of TombTaken: the tomb stays where it is.
TombTakenStays(s, heir, i, next) == [s EXCEPT !.act[heir].arts = @ \cup {i}]

TombTaken(s, heir, i, next) ==
  LET taken == [s.tombs EXCEPT ![i].captured = TRUE]
  IN  [s EXCEPT !.act[heir].arts = @ \cup {i},
                !.tombs = IF next = None THEN taken ELSE Append(taken, [at |-> next, captured |-> FALSE])]

\* payActor: what a clan wins goes to its members at once, by their shares;
\* here it has the one member, so the whole of it.
Pay(s, amount) == [s EXCEPT !.toman = @ + amount, !.tx = @ + amount]

\* Land the prize for taking part can fall on: none of the winner's side.
Candidates(s, id) == {t \in Tiles : s.owned[t] # None /\ ~(s.inClan \/ s.owned[t].owner = id)}

TreasurePrize == TreasureValue(st.pool, Share)
AllPrizes(s, id) ==
  TreasurePrize + IF Candidates(s, id) = {} THEN 0 ELSE ParticipationValue(st.pool, Share)

TileCost(m, t) ==
  IF m.kind = "long" THEN CeilDiv(Supply[t] * LongFactor(Cardinality(NewOn(m.path))), 100)
  ELSE m.prepaid

TickWin ==
  LET m == st.migration
      id == m.actor
      t == TerrainAt(Here)
      heir == IF st.inClan THEN "clan" ELSE id
      wins == t = "treasure" /\ st.treasure = None
  IN
  /\ m # None
  /\ ~IsOwn(Here)
  /\ Battle(id, Here)
  /\ \E losses \in LossesOf(Army(id), MonstersAt(Here), AllUnits) :
       LET left == Left(Army(id), losses)
           guardian == CheapestUnit(left, Price, UnitOrder)
           captured == SyncClanXp([st EXCEPT
             !.act[id] = [Of(id) EXCEPT !.units = Garrison(left, guardian),
                                        !.energy = Tired(id),
                                        !.pos = Here,
                                        !.xp = @ + CaptureXp(t, MonstersAt(Here), Xp)],
             !.owned[Here] = [owner |-> id, guardian |-> guardian, cost |-> TileCost(m, t)],
             !.migration = NextStep(m)])
           crowned == IF wins THEN Pay([captured EXCEPT !.treasure = id], AllPrizes(captured, id))
                      ELSE captured
       IN  /\ TotalUnits(left) >= 1
           /\ \/ TombsAt(st, Here) = {} /\ st' = crowned
              \/ \E i \in TombsAt(st, Here), next \in NextTombs(captured) :
                   st' = TombTaken(crowned, heir, i, next)
           /\ paid' = paid + IF wins THEN AllPrizes(captured, id) ELSE 0
  /\ UNCHANGED <<put, kept>>

\* closeSeason: artifacts are sold, blocked money is freed, and all of it is
\* paid out to the bank account, if there is one.
TickClose ==
  LET sales == ArtifactValue(st.pool, Share)
               * (Cardinality(Of("player").arts) + Cardinality(Of("clan").arts))
      sold == Pay([st EXCEPT !.closed = TRUE, !.migration = None, !.blocked = 0], sales)
  IN
  /\ st.treasure # None /\ ~st.closed
  /\ st' = IF st.iban THEN [sold EXCEPT !.toman = 0, !.tx = @ - sold.toman] ELSE sold
  /\ paid' = paid + sales
  /\ UNCHANGED <<put, kept>>

Tick == TickRest \/ TickOwn \/ TickLose \/ TickWin \/ TickClose

-----------------------------------------------------------------------------
(* Clan, and leaving the season.                                           *)

Brought == SumOver([t \in Tiles |-> st.owned[t].cost], {t \in Tiles : st.owned[t] # None})

CreateClan ==
  /\ ~st.inClan /\ st.named
  /\ ClanCreateCost <= Of("player").coins
  /\ st' = [st EXCEPT !.act["player"] = Paid(Of("player"), ClanCreateCost), !.inClan = TRUE,
                      !.weight = Brought, !.act["clan"].xp = Of("player").xp]
  /\ UNCHANGED <<put, kept, paid>>

ClanDeposit == \E n \in Batches :
  /\ st.inClan
  /\ n <= Of("player").coins
  /\ st' = [st EXCEPT !.act["player"] = Paid(Of("player"), n), !.act["clan"].coins = @ + n,
                      !.memberCoins = @ + n, !.weight = @ + n]
  /\ UNCHANGED <<put, kept, paid>>

\* Units change hands with the energy they have.
DonateUnits == \E k \in UnitTypes, n \in Batches :
  LET before == TotalUnits(Of("clan").units)
      mixed == (Of("clan").energy * before + Of("player").energy * n) \div (before + n)
  IN
  /\ st.inClan
  /\ n <= Of("player").units[k]
  /\ ~Migrating("player")
  /\ st' = [st EXCEPT !.act["player"].units[k] = @ - n,
                      !.act["clan"] = [Of("clan") EXCEPT !.units[k] = @ + n, !.bought = @ + n, !.energy = mixed],
                      !.memberCoins = @ + n * Price[k], !.weight = @ + n * Price[k]]
  /\ UNCHANGED <<put, kept, paid>>

SetClanCamp(t) ==
  /\ st.inClan /\ Of("clan").camp = None
  /\ st.owned[t] # None /\ st.owned[t].owner = "player"
  /\ st' = [st EXCEPT !.act["clan"].camp = t, !.act["clan"].pos = t]
  /\ UNCHANGED <<put, kept, paid>>

SwitchControl(id) ==
  /\ Exists(id)
  /\ st' = [st EXCEPT !.control = id]
  /\ UNCHANGED <<put, kept, paid>>

\* Everything goes but the money and the bank account.
QuitSeason ==
  /\ st.toman <= MaxKept
  /\ st' = NewState(st.toman, st.iban)
  /\ kept' = st.toman
  /\ paid' = 0
  /\ UNCHANGED put

\* sanitize, which runs over a loaded state: what it makes of s.  Units beyond
\* those that were bought go type by type, in the order of AllUnits.
Sanitized(s) ==
  LET Before(k, u) == SumOver(u, {AllUnits[i] : i \in 1..Rank(k, AllUnits) - 1})
      Cut(u, n) == [k \in UnitTypes |-> AtLeast(0, u[k] - AtLeast(0, n - Before(k, u)))]
      Guards(id) == {t \in Tiles : s.owned[t] # None /\ s.owned[t].owner = id
                                     /\ s.owned[t].guardian # None}
      Excess(a, id) == TotalUnits(a.units) + Cardinality(Guards(id)) - a.bought
      Repaired(id) == [s.act[id] EXCEPT !.units = Cut(@, Excess(s.act[id], id)),
                                        !.coins = AtLeast(0, @), !.xp = AtLeast(0, @),
                                        !.energy = AtMost(EnergyMax, AtLeast(0, @))]
      toman == AtLeast(0, s.toman)
      p == Repaired("player")
      camp == IF p.camp \in Tiles /\ Terrain[p.camp] = "safe" THEN p.camp ELSE Camp
  IN  [s EXCEPT !.toman = toman, !.pool = AtLeast(0, @),
                !.blocked = AtLeast(0, AtMost(toman, @)),
                !.act["player"] = [p EXCEPT !.camp = camp, !.pos = IF @ \in Tiles THEN @ ELSE camp],
                !.act["clan"] = IF s.inClan THEN Repaired("clan") ELSE @]

-----------------------------------------------------------------------------
Next ==
  \/ RegisterName \/ Deposit \/ BuyCoins \/ SetIban \/ Withdraw
  \/ \E id \in Actors : BuyUnits(id) \/ Rest(id) \/ SwitchControl(id)
  \/ \E id \in Actors, t \in Tiles : StartMove(id, t)
  \/ CancelMove \/ Tick
  \/ CreateClan \/ ClanDeposit \/ DonateUnits
  \/ \E t \in Tiles : SetClanCamp(t)
  \/ QuitSeason

Spec == Init /\ [][Next]_vars

-----------------------------------------------------------------------------
(* Properties.                                                             *)

\* Nothing has to be repaired in a state the game itself reached: money is
\* within bounds, an army and its guardians are not more than was bought,
\* energy and the camp are what they may be; and not more tombs are visible
\* than the season began with, which sanitize reports without repairing it.
SanitizeIdle ==
  /\ Sanitized(st) = st
  /\ Cardinality({i \in DOMAIN st.tombs : ~st.tombs[i].captured}) <= Len(FirstTombs)

\* No coin and no toman appears or vanishes: the balance is what was brought
\* and what the list of transactions adds up to, the pool is what the coins
\* bought were paid with, and the clan never has or spends more than its
\* member gave; and the prizes of a season never come to more than its pool and
\* the floor of the treasure, though coins are bought until the close.
MoneyAccounted ==
  /\ st.toman = kept + st.tx
  /\ (Of("player").coins + Of("player").spent - StartCoins) * CoinToman = st.pool
  /\ Of("clan").coins + Of("clan").spent <= st.memberCoins
  /\ st.memberCoins <= st.weight
  /\ paid <= st.pool + Share.floor

\* Every captured tomb has given its artifact to exactly one of player and
\* clan, and each captured tomb's tile is owned.
ArtifactsOfTombs ==
  /\ Of("player").arts \cap Of("clan").arts = {}
  /\ Of("player").arts \cup Of("clan").arts = {i \in DOMAIN st.tombs : st.tombs[i].captured}
  /\ \A i \in DOMAIN st.tombs : st.tombs[i].captured => st.owned[st.tombs[i].at] # None

\* A battle takes from each type its share of the losses, up to one unit more
\* or less and never more than there are, and the shares add up to the total.
\* Of the rules alone: looked at when a season begins, for all armies of up to
\* MaxArmy units of each type.
LossesProportional ==
  st = NewState(kept, st.iban) => \A u \in [UnitTypes -> 0..MaxArmy] :
    \A total \in 1..TotalUnits(u) :
      LET free == TotalUnits(u)
          losses == LossesByType(u, total, AllUnits)
      IN /\ TotalUnits(losses) = total
         /\ \A k \in UnitTypes : /\ losses[k] \in 0..u[k]
                                 /\ losses[k] * free - u[k] * total \in -(free - 1)..free - 1

=============================================================================
