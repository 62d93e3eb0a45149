------------------------------- MODULE Prizes -------------------------------
(***************************************************************************)
(* What a season of the server is played for: tombs and their artifacts,   *)
(* the treasure with its gates of level and artifacts, and the prizes the  *)
(* pool pays, to players and, by their shares, to the members of clans     *)
(* (game/tick.ts, game/actions.ts, game/world.ts, rules/tombs.ts).         *)
(*                                                                         *)
(* Which caravan arrives, and whether its army wins, is left open; where a *)
(* caravan stands on its own land, coins, energy, locks and the money of   *)
(* trades are left out (modules Expedition, Solo and Market have them), so *)
(* more moves are possible than in the game, travels over one's own land   *)
(* change nothing, and a caravan a lock would stop is one called off.      *)
(***************************************************************************)
EXTENDS Rules, Sums, SequencesExt

CONSTANTS
  Players, Clans, None,
  Tiles,       \* passable tiles <<x, y>>
  Terrain,     \* per tile: the terrain of the generator, without tombs
  CampSites,   \* tiles newCamp may find
  TombSites,   \* tiles at the distance tombs are placed at
  FirstTombs,  \* placeInitialTombs: tiles in order, as many as are visible
  TombsTotal,  \* TOMB_NAMES.length, ten
  Spaced,      \* settings.tombSpacing is above 0, as by default
  Monsters, Gate,      \* per terrain: settings.monsters, gates (0: none)
  TreasureArtifacts,   \* settings.treasureArtifacts
  Xp, TopLevel,        \* settings of experience; levels of levelForXp
  Share,       \* settings of prizes: artifact, treasure, participation, floor
  MaxPath,     \* bound of the model: tiles of a move
  Purchases,   \* bound of the model: what a purchase of coins adds to the pool
  MaxPool,     \* bound of the model
  Brought,     \* bound of the model: worth of a newcomer's land to its clan
  MaxWeight    \* bound of the model: contributions of a member

Actors == Players \cup Clans

\* validateSettings has prizes share the pool at most, and lets no more tombs be
\* visible than there are names.  It asks for no space between tombs, nor that
\* camps be looked for beyond them.  Purchases and land cost something.
ASSUME PrizesAssumption ==
  /\ Spaced \in BOOLEAN
  /\ TombsTotal \in Nat /\ Len(FirstTombs) <= TombsTotal
  /\ Share \in [artifact : Nat, treasure : Nat, participation : Nat, floor : Nat]
  /\ Share.treasure + TombsTotal * Share.artifact + Share.participation <= 100
  /\ IsFiniteSet(Players) /\ Purchases \subseteq Nat /\ Brought \subseteq Nat

\* The first tombs lie where tombs may, no two of them on one tile if there is
\* space between them.  Neither a camp, which has to be safe land, nor a tomb
\* is where the treasure is.
ASSUME PlacesAssumption ==
  /\ None \notin Players \cup Clans /\ Players \cap Clans = {}
  /\ CampSites \subseteq Tiles /\ TombSites \subseteq Tiles
  /\ \A t \in CampSites \cup TombSites : Terrain[t] # "treasure"
  /\ FirstTombs \in Seq(TombSites)
  /\ Spaced => \A i, j \in DOMAIN FirstTombs : FirstTombs[i] = FirstTombs[j] => i = j

\* What validateSettings asks of the settings of experience, and the power of
\* monsters, which is not negative either.
ASSUME LevelsAssumption ==
  /\ TopLevel \in Nat \ {0} /\ Gate["treasure"] \in Nat
  /\ Xp \in [base : Nat, div : Nat \ {0}, tomb : Nat, treasure : Nat, level2 : Nat, growth : Nat]
  /\ \A k \in {"tomb"} \cup {Terrain[t] : t \in Tiles} : Monsters[k] \in Nat
  /\ None \notin Int

VARIABLES
  active,      \* players who take part in the season
  member,      \* players.clan_id
  row,         \* clan_members: per clan and player the weight; None if there is no row
  xp,          \* per actor
  owner,       \* per tile
  camped,      \* clans that have a camp; a player has one from the start
  way,         \* per actor: the tiles its caravan has before it; None if it has no caravan
  tombs,       \* in order of appearance: tile, and whether it is captured
  artifacts,   \* the tomb they are from, who owns them, whether they are sold
  pool, treasure, closed,
  bank         \* history: prizes in wallets, announced, and what shares may lose

people == <<active, member, row>>
land == <<owner, camped, way>>
season == <<pool, treasure, closed>>
vars == <<active, member, row, xp, owner, camped, way, tombs, artifacts, pool, treasure, closed, bank>>

-----------------------------------------------------------------------------
Adjacent(s, t) == s # t /\ \A i \in 1..2 : s[i] - t[i] \in -1..1

\* Those of the clan's rows, whatever clan_id says.
Rows(c) == {p \in Players : row[c][p] # None}
Founded(c) == Rows(c) # {}
GroupClan(a) == IF a \in Clans THEN a ELSE member[a]
Group(a) == IF GroupClan(a) = None THEN {a} ELSE {GroupClan(a)} \cup Rows(GroupClan(a))
Own(a) == {t \in Tiles : owner[t] \in Group(a)}

TombsAt(t) == {i \in DOMAIN tombs : ~tombs[i].captured /\ tombs[i].at = t}
TerrainAt(t) == IF TombsAt(t) # {} THEN "tomb" ELSE Terrain[t]
Level(n) == LevelForXp(n, Xp, TopLevel)
GateLevel(a) == Level(IF GroupClan(a) = None THEN xp[a] ELSE AtLeast(xp[GroupClan(a)], xp[a]))
Held(a) == {art \in artifacts : ~art.sold /\ art.owner \in {a, GroupClan(a)}}

Init ==
  /\ active = {}
  /\ member = [p \in Players |-> None]
  /\ row = [c \in Clans |-> [p \in Players |-> None]]
  /\ xp = [a \in Actors |-> 0]
  /\ owner = [t \in Tiles |-> None]
  /\ camped = {}
  /\ way = [a \in Actors |-> None]
  /\ tombs = [i \in DOMAIN FirstTombs |-> [at |-> FirstTombs[i], captured |-> FALSE]]
  /\ artifacts = {}
  /\ pool = 0 /\ treasure = None /\ closed = FALSE
  /\ bank = [wallet |-> [p \in Players |-> 0], announced |-> 0, rounding |-> 0, unshared |-> 0]

-----------------------------------------------------------------------------
(* Players and clans.                                                      *)

JoinSeason(p) == \E t \in CampSites :
  /\ p \notin active /\ ~closed
  /\ owner[t] = None
  /\ active' = active \cup {p}
  /\ member' = [member EXCEPT ![p] = None]
  /\ xp' = [xp EXCEPT ![p] = 0]
  /\ owner' = [owner EXCEPT ![t] = p]
  /\ UNCHANGED <<row, camped, way, tombs, artifacts, season, bank>>

\* Land and artifacts are given up; tombs once captured stay captured.
QuitSeason(p) ==
  /\ p \in active /\ member[p] = None
  /\ active' = active \ {p}
  /\ xp' = [xp EXCEPT ![p] = 0]
  /\ owner' = [t \in Tiles |-> IF owner[t] = p THEN None ELSE owner[t]]
  /\ way' = [way EXCEPT ![p] = None]
  /\ artifacts' = {art \in artifacts : art.owner # p}
  /\ UNCHANGED <<member, row, camped, tombs, season, bank>>

CreateClan(p, c) == \E brought \in Brought :
  /\ member[p] = None
  /\ ~Founded(c)
  /\ member' = [member EXCEPT ![p] = c]
  /\ row' = [row EXCEPT ![c][p] = brought]
  /\ xp' = [xp EXCEPT ![c] = xp[p]]
  /\ UNCHANGED <<active, land, tombs, artifacts, season, bank>>

\* An officer accepts a request; whose, and the clan's capacity, is left open.
RespondJoin(p, c) == \E brought \in Brought :
  /\ member[p] = None
  /\ Founded(c) /\ p \notin Rows(c)
  /\ member' = [member EXCEPT ![p] = c]
  /\ row' = [row EXCEPT ![c][p] = brought]
  /\ xp' = [xp EXCEPT ![c] = AtLeast(@, xp[p])]
  /\ UNCHANGED <<active, land, tombs, artifacts, season, bank>>

ClanDeposit(p) ==
  /\ member[p] # None
  /\ row[member[p]][p] < MaxWeight
  /\ row' = [row EXCEPT ![member[p]][p] = @ + 1]
  /\ UNCHANGED <<active, member, xp, land, tombs, artifacts, season, bank>>

\* On a tile of the commander, whom the clan module elects.
SetClanCamp(c) ==
  /\ c \notin camped
  /\ \E p \in Players, t \in Tiles : member[p] = c /\ owner[t] = p
  /\ camped' = camped \cup {c}
  /\ UNCHANGED <<people, xp, owner, way, tombs, artifacts, season, bank>>

BuyCoins == \E n \in Purchases :
  /\ ~closed
  /\ pool + n <= MaxPool
  /\ pool' = pool + n
  /\ UNCHANGED <<people, xp, land, tombs, artifacts, treasure, closed, bank>>

\* An offer for an artifact of a player is accepted.
Trade(art, p) ==
  /\ ~closed
  /\ art.owner \in Players \ {p} /\ ~art.sold
  /\ artifacts' = (artifacts \ {art}) \cup {[art EXCEPT !.owner = p]}
  /\ UNCHANGED <<people, xp, land, tombs, season, bank>>

-----------------------------------------------------------------------------
(* Moves.                                                                  *)

Roads == {s \in UNION {[1..n -> Tiles] : n \in 1..MaxPath} :
            IsInjective(s) /\ \A i \in 1..Len(s) - 1 : Adjacent(s[i], s[i + 1])}

\* gateCheck.
GateOpen(a, t) ==
  /\ GateLevel(a) >= Gate[TerrainAt(t)]
  /\ TerrainAt(t) \in {"treasure", "hell"} => Cardinality(Held(a)) >= TreasureArtifacts

\* Mutant of Gated: only where the move ends.
GatedGoal(s, own) == {Last(s)} \ own

\* Tiles of a move whose gates are looked at: those that are not one's own yet.
Gated(s, own) == Range(s) \ own

\* After the treasure only tombs that are left may be gone to.
Goals == IF treasure = None THEN Tiles ELSE {t \in Tiles : TombsAt(t) # {}}

\* From land of one's own to a tile next to it, or a long move over land
\* that nobody owns or that is one's own too.
StartMove(a) ==
  LET own == Own(a)
      Near(t) == \E o \in own : Adjacent(o, t)
  IN
  /\ ~closed
  /\ a \in active \cup camped
  /\ way[a] = None
  /\ \E s \in Roads :
       /\ Last(s) \in Goals
       /\ Near(s[1]) /\ {s[1], Last(s)} \cap own = {}
       /\ \A t \in Range(s) : t \in own \/ owner[t] = None
       /\ Near(Last(s)) => Len(s) = 1
       /\ \A t \in Gated(s, own) : GateOpen(a, t)
       /\ way' = [way EXCEPT ![a] = s]
  /\ UNCHANGED <<people, xp, owner, camped, tombs, artifacts, season, bank>>

CancelMove(a) ==
  /\ way[a] # None
  /\ way' = [way EXCEPT ![a] = None]
  /\ UNCHANGED <<people, xp, owner, camped, tombs, artifacts, season, bank>>

\* The move goes on unless it is over or its next tile is somebody else's.
Onward(a, land2) ==
  IF Len(way[a]) = 1 \/ land2[way[a][2]] \notin Group(a) \cup {None} THEN None ELSE Tail(way[a])

AdvanceOwn(a) ==
  /\ way[a] # None /\ Head(way[a]) \in Own(a)
  /\ way' = [way EXCEPT ![a] = Onward(a, owner)]
  /\ UNCHANGED <<people, xp, owner, camped, tombs, artifacts, season, bank>>

AdvanceBlocked(a) ==
  /\ way[a] # None /\ Head(way[a]) \notin Own(a) /\ owner[Head(way[a])] # None
  /\ way' = [way EXCEPT ![a] = None]
  /\ UNCHANGED <<people, xp, owner, camped, tombs, artifacts, season, bank>>

AdvanceLose(a) ==
  /\ way[a] # None /\ owner[Head(way[a])] = None
  /\ way' = [way EXCEPT ![a] = None]
  /\ UNCHANGED <<people, xp, owner, camped, tombs, artifacts, season, bank>>

-----------------------------------------------------------------------------
(* Prizes.                                                                 *)

Total(c) == SumOver(row[c], Rows(c))

\* Mutant of Part: who is alone in a clan it gave nothing to gets nothing.
PartByWeight(c, p, amount) == IF Total(c) > 0 THEN (amount * row[c][p]) \div Total(c) ELSE 0

\* clanShares: a member's part of a prize of the clan.  The code multiplies by
\* a fraction in floating point, which may round down by one more.
Part(c, p, amount) ==
  IF Total(c) > 0 THEN (amount * row[c][p]) \div Total(c)
  ELSE IF Rows(c) = {p} THEN amount ELSE 0

\* pay: a clan never has money, its members get it at once.
Pay(b, who, amount) ==
  IF who \in Players THEN [b EXCEPT !.wallet[who] = @ + amount, !.announced = @ + amount]
  ELSE [wallet |-> [p \in Players |-> b.wallet[p] + IF p \in Rows(who) THEN Part(who, p, amount) ELSE 0],
        announced |-> b.announced + amount,
        rounding |-> b.rounding + Cardinality(Rows(who)),
        unshared |-> b.unshared + IF Total(who) = 0 /\ Cardinality(Rows(who)) > 1 THEN amount ELSE 0]

\* Mutant of Taken: the treasure may be won again once its land is given up.
TakenAgain(t) == TerrainAt(t) = "treasure"

\* The treasure is won once in a season.
Taken(t) == TerrainAt(t) = "treasure" /\ treasure = None

\* captureTreasure: the treasure, and a prize for taking part on one of the
\* tiles that are not the winners', if there is one.
Crowned(a, land2) ==
  LET others == {t \in Tiles : land2[t] \notin Group(a) \cup {None}}
      b == Pay(bank, a, TreasureValue(pool, Share))
  IN  IF others = {} THEN {b}
      ELSE {Pay(b, land2[t], ParticipationValue(pool, Share)) : t \in others}

\* Mutant of NextTombs: land somebody owns is not left out.
NextTombsAnywhere(i, land2) ==
  {None} \cup IF Len(tombs) >= TombsTotal THEN {} ELSE {t \in TombSites : Spaced => TombsAt(t) \subseteq {i}}

\* placeNextTomb, when tomb i is captured: which of the free sites is farthest
\* is left open.
NextTombs(i, land2) ==
  {None} \cup IF Len(tombs) >= TombsTotal THEN {}
              ELSE {t \in TombSites : land2[t] = None /\ (Spaced => TombsAt(t) \subseteq {i})}

\* A member's artifact belongs to its clan.
Heir(a) == IF GroupClan(a) = None THEN a ELSE GroupClan(a)

CaptureTomb(a, i, next) ==
  LET taken == [tombs EXCEPT ![i].captured = TRUE] IN
  /\ artifacts' = artifacts \cup {[tomb |-> i, owner |-> Heir(a), sold |-> FALSE]}
  /\ tombs' = IF next = None THEN taken ELSE Append(taken, [at |-> next, captured |-> FALSE])

\* addXp: a clan has at least the experience of whoever of its members gains some.
Gained(a, n) ==
  IF a \in Players /\ member[a] # None
  THEN [xp EXCEPT ![a] = @ + n, ![member[a]] = AtLeast(@, xp[a] + n)]
  ELSE [xp EXCEPT ![a] = @ + n]

AdvanceWin(a) ==
  LET t == Head(way[a])
      land2 == [owner EXCEPT ![t] = a]
  IN
  /\ way[a] # None /\ owner[t] = None
  /\ owner' = land2
  /\ way' = [way EXCEPT ![a] = Onward(a, land2)]
  /\ xp' = Gained(a, CaptureXp(TerrainAt(t), Monsters[TerrainAt(t)], Xp))
  /\ \/ TombsAt(t) = {} /\ UNCHANGED <<tombs, artifacts>>
     \/ \E i \in TombsAt(t) : \E next \in NextTombs(i, land2) : CaptureTomb(a, i, next)
  /\ \/ ~Taken(t) /\ UNCHANGED <<treasure, bank>>
     \/ Taken(t) /\ treasure' = a /\ bank' \in Crowned(a, land2)
  /\ UNCHANGED <<people, camped, pool, closed>>

\* Some hours after the treasure: moves end, and artifacts are sold to the
\* pool as it is by then.
CloseSeason ==
  /\ treasure # None /\ ~closed
  /\ closed' = TRUE
  /\ way' = [a \in Actors |-> None]
  /\ bank' = FoldSet(LAMBDA art, b : Pay(b, art.owner, ArtifactValue(pool, Share)), bank,
                     {art \in artifacts : ~art.sold})
  /\ artifacts' = {[art EXCEPT !.sold = TRUE] : art \in artifacts}
  /\ UNCHANGED <<people, xp, owner, camped, tombs, pool, treasure>>

Next ==
  \/ \E p \in Players : JoinSeason(p) \/ QuitSeason(p) \/ ClanDeposit(p)
  \/ \E p \in Players, c \in Clans : CreateClan(p, c) \/ RespondJoin(p, c)
  \/ \E c \in Clans : SetClanCamp(c)
  \/ \E p \in Players, art \in artifacts : Trade(art, p)
  \/ \E a \in Actors : StartMove(a) \/ CancelMove(a) \/ AdvanceOwn(a) \/ AdvanceBlocked(a)
                       \/ AdvanceLose(a) \/ AdvanceWin(a)
  \/ BuyCoins \/ CloseSeason

Spec == Init /\ [][Next]_vars

-----------------------------------------------------------------------------
(* Properties.                                                             *)

\* All prizes of a season together, announced at different times while the
\* pool grows, stay within what it was paid, but for the guaranteed minimum of
\* the treasure; so the treasure is paid once, though its land may be given up
\* and taken again, and an artifact once, whoever owns it by then.
PrizesWithinPool == bank.announced <= pool + Share.floor

\* What is announced reaches wallets, but for what rounding loses on the way
\* to the members of a clan, and for the prizes of a clan of several members
\* none of whom has given anything.
PaidInFull ==
  bank.announced - SumOver(bank.wallet, Players)
    \in bank.unshared..bank.unshared + bank.rounding

\* A tomb that is not captured stands on land nobody owns, so it can be gone
\* to, also after the treasure; only a newcomer's camp may have come upon it,
\* where the admin has camps as near as tombs.  No two such tombs share a tile,
\* unless there is no space asked for between them, and then taking one leaves
\* the other on owned land.  One that is captured has left one artifact at most.
TombsOpen ==
  /\ Spaced => \A i, j \in DOMAIN tombs : ~tombs[i].captured =>
       /\ owner[tombs[i].at] = None \/ tombs[i].at \in CampSites
       /\ i # j /\ ~tombs[j].captured => tombs[i].at # tombs[j].at
  /\ \A art \in artifacts : tombs[art.tomb].captured
  /\ \A art, other \in artifacts : art.tomb = other.tomb => art = other

\* Whoever owns the land of the treasure has the level its gate asks for,
\* whether it was the goal of a move or on the way, and whatever happened to
\* the owner and its clan since the move was planned; as long as no clan has a
\* row left of somebody who is no longer a member, whose land its caravans
\* pass without a look at the gates and who may give it up before they arrive.
TreasureNeedsLevel ==
  (\A c \in Clans : \A p \in Rows(c) : member[p] = c) =>
    \A t \in Tiles : Terrain[t] = "treasure" /\ owner[t] # None => GateLevel(owner[t]) >= Gate["treasure"]

=============================================================================
