----------------------------- MODULE Expedition -----------------------------
(***************************************************************************)
(* Caravans, tile ownership and tile locks of one season of the game       *)
(* server: startMove and cancelMove of server/src/game/actions.ts, the     *)
(* per-caravan loop advance of server/src/game/tick.ts, joining, quitting  *)
(* and clan membership as far as they change who owns a tile, and a crash  *)
(* of the server, which loses the lock table (World.locks is in memory).   *)
(*                                                                         *)
(* Every HTTP handler that appears here is synchronous, and a tick is one  *)
(* synchronous transaction, so each is one atomic action; the handlers     *)
(* have no transaction, so a crash may also come between two of their      *)
(* statements (the Torn actions).  One action of the engine below is one   *)
(* iteration of the loop in advance for one caravan: a tick that moves     *)
(* several caravans, or one caravan by several tiles, is a sequence of     *)
(* such actions.  Prices, level gates and the clock are abstracted: they   *)
(* only decide WHETHER a move is accepted and WHEN a step is due, and an   *)
(* action here is never obliged to happen (except by fairness).            *)
(*                                                                         *)
(* Who belongs to a clan is recorded twice: in players.clan_id (member)    *)
(* and in the rows of clan_members (rows).  Whose land counts as one's own *)
(* goes by the rows, and a row stays when clan_id is cleared.              *)
(***************************************************************************)
EXTENDS Integers, Sequences, FiniteSets

CONSTANTS
  Players,     \* rows of table players
  Clans,       \* rows table clans may come to have
  OldClans,    \* those of them that are clans of an earlier season
  Tiles,       \* passable tiles <<x, y>>: every terrain but valley
  CampTiles,   \* tiles generateCamp may choose: safe, at least campMinDist from the centre
  Wild,        \* tiles with monsters (monstersAt > 0)
  None,        \* SQL NULL, no lock, no owner
  Capacity,    \* settings.seasonMaxPlayers
  Brought,     \* bound of the model: units a player may still have from an earlier season
  MaxUnits,    \* bound of the model: units one actor ever buys or is given
  Batches,     \* bound of the model: sizes of a purchase or a donation
  MaxPath,     \* bound of the model: tiles of a route
  LongMoveMax, \* settings.longMoveMax: new tiles of a long move
  MaxCrashes   \* bound of the model: crashes of the server

Actors == Players \cup Clans

ASSUME TilesAssumption == Tiles \subseteq Int \X Int
ASSUME SubsetsAssumption == CampTiles \subseteq Tiles /\ Wild \subseteq Tiles
ASSUME ActorsAssumption == /\ Players \cap Clans = {} /\ OldClans \subseteq Clans
                           /\ None \notin Actors /\ None \notin Tiles
ASSUME BoundsAssumption == /\ MaxUnits \in Nat /\ MaxPath \in Nat
                           /\ LongMoveMax \in Nat /\ MaxCrashes \in Nat
                           /\ Batches \subseteq Nat \ {0} /\ Brought \subseteq 0..MaxUnits

VARIABLES
  status,   \* per player: "new" (other season), "in" (season_id is current), "quit"
  torn,     \* history: players whose joining or quitting a crash cut short
  member,   \* per player: players.clan_id
  rows,     \* per clan: players with a row in clan_members
  owner,    \* per tile: owner of its row in table tiles
  camp,     \* per actor: camp_x, camp_y
  pos,      \* per actor: pos_x, pos_y
  units,    \* per actor: free units (all types together)
  bought,   \* per actor: units_bought
  route,    \* per actor: tiles of its migrations row from path[step] on; <<>> if there is none
  locks,    \* World.locks, per tile; in memory only
  up,       \* the server process is running
  closed,   \* seasons.closed_at is set
  crashes   \* crashes so far

people == <<status, torn>>
clans == <<member, rows>>
land == <<owner, camp, pos>>
army == <<units, bought>>
caravans == <<route, locks>>
server == <<up, closed, crashes>>
vars == <<people, clans, land, army, caravans, server>>

-----------------------------------------------------------------------------
(* Ownership groups: a player, its clan and everybody with a row in it.    *)

Abs(n) == IF n < 0 THEN -n ELSE n

\* isAdjacent: the eight neighbours of a tile.
Adjacent(s, t) == s # t /\ Abs(s[1] - t[1]) <= 1 /\ Abs(s[2] - t[2]) <= 1

ClanOf(a) == IF a \in Clans THEN a ELSE member[a]
GroupOf(a) == IF ClanOf(a) = None THEN {a} ELSE rows[ClanOf(a)] \cup {ClanOf(a)}
Own(a) == {t \in Tiles : owner[t] \in GroupOf(a)}
LockedFor(t, a) == locks[t] # None /\ locks[t] # a

Founded(c) == rows[c] # {} \/ c \in OldClans
Moving(a) == route[a] # <<>>

\* Every handler of a player begins with auth, which lets it into the season
\* unless the season is closed or full or no safe tile is left: then it stays
\* a spectator.
InSeason == {p \in Players : status[p] = "in"}
Full == Cardinality(InSeason) >= Capacity \/ \A t \in CampTiles : owner[t] # None
Authed(p) == up /\ (status[p] = "new" => closed \/ Full)

\* POST /move/*, /units/buy: a player acts for itself; officers in the season
\* act for the clan.  Elections can make any member an officer, though not in
\* a clan of an earlier season, whose officers have no clan_id in this one.
Controllable(a) ==
  IF a \in Players THEN status[a] = "in"
  ELSE a \notin OldClans /\ \E p \in Players : member[p] = a /\ status[p] = "in"

-----------------------------------------------------------------------------
(* Locks.                                                                  *)

Unlock(a) == [t \in Tiles |-> IF locks[t] = a THEN None ELSE locks[t]]

\* Mutant of Rebuilt: the lock table starts empty.
RebuiltEmpty(l) == \A t \in Tiles : l[t] = None

\* useSeason: the lock table is rebuilt from the migrations rows.  Of two
\* caravans on the same tile the row read last wins.
Rebuilt(l) == \A t \in Tiles :
  LET heading == {a \in Actors : Moving(a) /\ Head(route[a]) = t}
  IN  IF heading = {} THEN l[t] = None ELSE l[t] \in heading

-----------------------------------------------------------------------------
(* Routes findPath may return.                                             *)

IsPath(s) == /\ \A i \in 1..Len(s) - 1 : Adjacent(s[i], s[i + 1])
             /\ \A i, j \in 1..Len(s) : i # j => s[i] # s[j]

\* Simple paths of at most MaxPath tiles.  A constant: TLC builds it once.
AllPaths == {s \in UNION {[1..n -> Tiles] : n \in 1..MaxPath} : IsPath(s)}

\* Mutant of From: the path starts at the camp instead of where the army is.
FromCamp(a, s) == Adjacent(camp[a], s[1]) /\ \A i \in 1..Len(s) : s[i] # camp[a]

From(a, s) == Adjacent(pos[a], s[1]) /\ \A i \in 1..Len(s) : s[i] # pos[a]
Target(s) == s[Len(s)]
On(s, S) == \A i \in 1..Len(s) : s[i] \in S

Free(a) == {t \in Tiles : owner[t] = None /\ ~LockedFor(t, a)}
NewTiles(a, s) == {i \in 1..Len(s) : s[i] \notin Own(a)}

\* planMove, target of one's own group: travel over one's own tiles.
FreeTravel(a, s) == On(s, Own(a))

\* planMove, target next to one's own land: an own prefix, then the target.
SingleMove(a, s) ==
  /\ Target(s) \in Free(a)
  /\ units[a] >= 2
  /\ On(SubSeq(s, 1, Len(s) - 1), Own(a))
  /\ Adjacent(pos[a], Target(s)) => Len(s) = 1

\* planMove, target further away: through own and free tiles only.
LongMove(a, s) ==
  /\ Target(s) \in Free(a)
  /\ units[a] >= 2
  /\ \A t \in Own(a) : ~Adjacent(t, Target(s))
  /\ On(s, Own(a) \cup Free(a))
  /\ Cardinality(NewTiles(a, s)) <= LongMoveMax

-----------------------------------------------------------------------------
Init ==
  /\ status = [p \in Players |-> "new"]
  /\ torn = {}
  /\ rows \in [Clans -> SUBSET Players]
  /\ \A c \in Clans \ OldClans : rows[c] = {}
  /\ member \in [Players -> OldClans \cup {None}]
  /\ \A p \in Players : member[p] # None => p \in rows[member[p]]
  /\ owner = [t \in Tiles |-> None]
  /\ camp = [a \in Actors |-> None]
  /\ pos = [a \in Actors |-> None]
  /\ units \in [Actors -> Brought \cup {0}]
  /\ \A c \in Clans : units[c] = 0
  /\ bought = units
  /\ route = [a \in Actors |-> <<>>]
  /\ locks = [t \in Tiles |-> None]
  /\ up = TRUE
  /\ closed = FALSE
  /\ crashes = 0

-----------------------------------------------------------------------------
(* Handlers.                                                               *)

\* The first statement of joinSeason: the row of the player.  clan_id goes,
\* the row in clan_members stays.
Enters(p, t) ==
  /\ up /\ ~closed
  /\ status[p] = "new"
  /\ ~Full
  /\ status' = [status EXCEPT ![p] = "in"]
  /\ member' = [member EXCEPT ![p] = None]
  /\ units' = [units EXCEPT ![p] = 0]
  /\ bought' = [bought EXCEPT ![p] = 0]
  /\ camp' = [camp EXCEPT ![p] = t]
  /\ pos' = [pos EXCEPT ![p] = t]
  /\ UNCHANGED <<rows, route>>

\* Mutant of JoinSeason: a camp tile somebody owns is not refused.
JoinSeasonAnywhere(p) == \E t \in CampTiles :
  /\ Enters(p, t)
  /\ owner' = [owner EXCEPT ![t] = p]
  /\ UNCHANGED <<torn, locks, server>>

\* joinSeason: a camp on a safe tile nobody owns.  Locks are not consulted.
JoinSeason(p) == \E t \in CampTiles :
  /\ owner[t] = None
  /\ Enters(p, t)
  /\ owner' = [owner EXCEPT ![t] = p]
  /\ UNCHANGED <<torn, locks, server>>

\* quitSeason: migration, locks and tiles go; camp and pos keep their values.
\* A spectator is not refused and only loses its units of last time.
QuitSeason(p) ==
  /\ Authed(p)
  /\ member[p] = None
  /\ status' = [status EXCEPT ![p] = IF @ = "in" THEN "quit" ELSE @]
  /\ owner' = [t \in Tiles |-> IF owner[t] = p THEN None ELSE owner[t]]
  /\ units' = [units EXCEPT ![p] = 0]
  /\ bought' = [bought EXCEPT ![p] = 0]
  /\ route' = [route EXCEPT ![p] = <<>>]
  /\ locks' = IF Moving(p) THEN Unlock(p) ELSE locks
  /\ UNCHANGED <<torn, clans, camp, pos, server>>

\* buyUnits, one batch of n.
BuyUnits(a) == \E n \in Batches :
  /\ up /\ ~closed
  /\ Controllable(a)
  /\ bought[a] + n <= MaxUnits
  /\ units' = [units EXCEPT ![a] = @ + n]
  /\ bought' = [bought EXCEPT ![a] = @ + n]
  /\ UNCHANGED <<people, clans, land, caravans, server>>

\* donateUnits: the donor must not be on the way, the clan may be.
DonateUnits(p) == \E n \in Batches :
  LET c == member[p] IN
  /\ Authed(p)
  /\ c # None
  /\ ~Moving(p)
  /\ units[p] >= n
  /\ bought[c] + n <= MaxUnits
  /\ units' = [units EXCEPT ![p] = @ - n, ![c] = @ + n]
  /\ bought' = [bought EXCEPT ![c] = @ + n]
  /\ UNCHANGED <<people, clans, land, caravans, server>>

\* createClan.  Neither a spectator nor a player who has quit is refused.
CreateClan(p, c) ==
  /\ Authed(p)
  /\ member[p] = None
  /\ ~Founded(c)
  /\ rows' = [rows EXCEPT ![c] = {p}]
  /\ member' = [member EXCEPT ![p] = c]
  /\ UNCHANGED <<people, land, army, caravans, server>>

\* requireOfficer goes by the role in clan_members, and any row may have it.
\* The player asked by a request of its own; requests have no season, so those
\* to the clans of an earlier one are still open.
Answerable(p, c) == /\ \E o \in rows[c] : Authed(o)
                    /\ Authed(p) \/ c \in OldClans

\* respondJoin with accept.  Nobody asks whether the player or the clan is of
\* this season; a row left over from an earlier membership makes it fail.
RespondJoin(p, c) ==
  /\ up
  /\ Answerable(p, c)
  /\ member[p] = None
  /\ p \notin rows[c]
  /\ rows' = [rows EXCEPT ![c] = @ \cup {p}]
  /\ member' = [member EXCEPT ![p] = c]
  /\ UNCHANGED <<people, land, army, caravans, server>>

\* Mutant of SetClanCamp: the tile may be anybody's.
SetClanCampAnywhere(p, t) ==
  LET c == member[p] IN
  /\ up
  /\ c # None /\ c \notin OldClans
  /\ camp[c] = None
  /\ camp' = [camp EXCEPT ![c] = t]
  /\ pos' = [pos EXCEPT ![c] = t]
  /\ UNCHANGED <<people, clans, owner, army, caravans, server>>

\* setClanCamp: once, on a tile of the commander's own; elections can make
\* any member the commander, though not in a clan of an earlier season.
SetClanCamp(p, t) ==
  LET c == member[p] IN
  /\ up
  /\ c # None /\ c \notin OldClans
  /\ camp[c] = None
  /\ owner[t] = p
  /\ camp' = [camp EXCEPT ![c] = t]
  /\ pos' = [pos EXCEPT ![c] = t]
  /\ UNCHANGED <<people, clans, owner, army, caravans, server>>

\* startMove: the migrations row and the lock on its first tile, own or not.
StartMove(a) == \E s \in AllPaths :
  /\ up /\ ~closed
  /\ Controllable(a)
  /\ ~Moving(a)
  /\ camp[a] # None /\ pos[a] # None
  /\ From(a, s)
  /\ FreeTravel(a, s) \/ SingleMove(a, s) \/ LongMove(a, s)
  /\ route' = [route EXCEPT ![a] = s]
  /\ locks' = [locks EXCEPT ![s[1]] = a]
  /\ UNCHANGED <<people, clans, land, army, server>>

\* cancelMove: the caravan stays where it is.
CancelMove(a) ==
  /\ up
  /\ Controllable(a)
  /\ Moving(a)
  /\ route' = [route EXCEPT ![a] = <<>>]
  /\ locks' = Unlock(a)
  /\ UNCHANGED <<people, clans, land, army, server>>

-----------------------------------------------------------------------------
(* The engine: one iteration of the loop in advance.                       *)

Losses(a, t) == IF t \in Wild /\ units[a] > 0 THEN 1..units[a] ELSE {0}

\* Mutant of DropMigration: only the tile the army stands on is unlocked.
DropMigrationKeepsLock(a) ==
  /\ route' = [route EXCEPT ![a] = <<>>]
  /\ locks' = [locks EXCEPT ![pos[a]] = None]

\* Mutant of DropMigration: the migrations row stays.
DropMigrationKeepsRow(a) ==
  /\ locks' = Unlock(a)
  /\ UNCHANGED route

\* dropMigration: the migrations row and every lock of the caravan go.
DropMigration(a) ==
  /\ route' = [route EXCEPT ![a] = <<>>]
  /\ locks' = Unlock(a)

\* After the tile at the head of the route was entered: the caravan ends at
\* the last tile or in front of a tile that became somebody else's or was
\* locked; otherwise the next tile is locked, unless it is one's own.
NextStep(a) ==
  LET p == Head(route[a])
      rest == Tail(route[a])
      np == Head(rest)
  IN  \/ /\ rest = <<>>
         /\ DropMigration(a)
      \/ /\ rest # <<>>
         /\ np \notin Own(a)
         /\ owner[np] # None \/ LockedFor(np, a)
         /\ route' = [route EXCEPT ![a] = <<>>]
         /\ locks' = [Unlock(a) EXCEPT ![p] = None]
      \/ /\ rest # <<>>
         /\ np \in Own(a)
         /\ route' = [route EXCEPT ![a] = rest]
         /\ locks' = [locks EXCEPT ![p] = None]
      \/ /\ rest # <<>>
         /\ owner[np] = None /\ ~LockedFor(np, a)
         /\ route' = [route EXCEPT ![a] = rest]
         /\ locks' = [locks EXCEPT ![p] = None, ![np] = a]

Due(a) == up /\ ~closed /\ Moving(a)

\* The head of the route is a tile of the caravan's own group.
AdvanceOwn(a) ==
  /\ Due(a)
  /\ Head(route[a]) \in Own(a)
  /\ pos' = [pos EXCEPT ![a] = Head(route[a])]
  /\ NextStep(a)
  /\ UNCHANGED <<people, clans, owner, camp, army, server>>

\* Somebody else took or locked the tile meanwhile: endMigration, in place.
AdvanceBlocked(a) ==
  LET t == Head(route[a]) IN
  /\ Due(a)
  /\ t \notin Own(a)
  /\ owner[t] # None \/ LockedFor(t, a)
  /\ DropMigration(a)
  /\ UNCHANGED <<people, clans, land, army, server>>

\* Arrival at a tile nobody owns or has locked.
Arrives(a) == Due(a) /\ Head(route[a]) \in Free(a)

\* Defeat, or nobody left to stay as guardian: back to camp.
AdvanceLose(a) ==
  /\ Arrives(a)
  /\ \E losses \in Losses(a, Head(route[a])) :
       /\ Head(route[a]) \in Wild \/ units[a] - losses < 1
       /\ units' = [units EXCEPT ![a] = @ - losses]
  /\ pos' = [pos EXCEPT ![a] = IF camp[a] # None THEN camp[a] ELSE @]
  /\ DropMigration(a)
  /\ UNCHANGED <<people, clans, owner, camp, bought, server>>

\* Mutant of AdvanceWin: the guardian also stays in the army.
AdvanceWinKeepsGuardian(a) ==
  /\ Arrives(a)
  /\ \E losses \in Losses(a, Head(route[a])) :
       /\ units[a] - losses >= 1
       /\ units' = [units EXCEPT ![a] = @ - losses]
  /\ owner' = [owner EXCEPT ![Head(route[a])] = a]
  /\ pos' = [pos EXCEPT ![a] = Head(route[a])]
  /\ NextStep(a)
  /\ UNCHANGED <<people, clans, camp, bought, server>>

\* Capture: one of the units left stays as guardian.
AdvanceWin(a) ==
  /\ Arrives(a)
  /\ \E losses \in Losses(a, Head(route[a])) :
       /\ units[a] - losses >= 1
       /\ units' = [units EXCEPT ![a] = @ - losses - 1]
  /\ owner' = [owner EXCEPT ![Head(route[a])] = a]
  /\ pos' = [pos EXCEPT ![a] = Head(route[a])]
  /\ NextStep(a)
  /\ UNCHANGED <<people, clans, camp, bought, server>>

Advance(a) == AdvanceOwn(a) \/ AdvanceBlocked(a) \/ AdvanceLose(a) \/ AdvanceWin(a)

\* closeSeason, as far as caravans are concerned.
CloseSeason ==
  /\ up /\ ~closed
  /\ closed' = TRUE
  /\ route' = [a \in Actors |-> <<>>]
  /\ locks' = [t \in Tiles |-> None]
  /\ UNCHANGED <<people, clans, land, army, up, crashes>>

-----------------------------------------------------------------------------
(* The process dies; at the next start boot and useSeason rebuild the      *)
(* lock table from the database.                                           *)

\* The process is gone, and World.locks with it.
Dies ==
  /\ up
  /\ crashes < MaxCrashes
  /\ up' = FALSE
  /\ locks' = [t \in Tiles |-> None]
  /\ crashes' = crashes + 1
  /\ UNCHANGED closed

Crash == Dies /\ UNCHANGED <<people, clans, land, army, route>>

\* joinSeason cut short after the row of the player: a camp without its tile.
TornJoinSeason(p) == \E t \in CampTiles :
  /\ owner[t] = None
  /\ Enters(p, t)
  /\ torn' = torn \cup {p}
  /\ Dies
  /\ UNCHANGED owner

\* quitSeason cut short after the tiles: still in the season, without land.
TornQuitSeason(p) ==
  /\ Authed(p)
  /\ status[p] = "in"
  /\ member[p] = None
  /\ owner' = [t \in Tiles |-> IF owner[t] = p THEN None ELSE owner[t]]
  /\ route' = [route EXCEPT ![p] = <<>>]
  /\ torn' = torn \cup {p}
  /\ Dies
  /\ UNCHANGED <<status, clans, camp, pos, army>>

\* donateUnits cut short: the donor has given, the clan has not received.
TornDonate(p) == \E n \in Batches :
  /\ Authed(p)
  /\ member[p] # None
  /\ ~Moving(p)
  /\ units[p] >= n
  /\ units' = [units EXCEPT ![p] = @ - n]
  /\ Dies
  /\ UNCHANGED <<people, clans, land, bought, route>>

\* createClan or respondJoin cut short after the row in clan_members.
TornEnrol(p, c) ==
  /\ \/ Authed(p) /\ ~Founded(c)
     \/ Answerable(p, c)
  /\ member[p] = None
  /\ p \notin rows[c]
  /\ rows' = [rows EXCEPT ![c] = @ \cup {p}]
  /\ Dies
  /\ UNCHANGED <<people, member, land, army, route>>

Boot ==
  /\ ~up
  /\ up' = TRUE
  /\ locks' \in [Tiles -> Actors \cup {None}]
  /\ Rebuilt(locks')
  /\ UNCHANGED <<people, clans, land, army, route, closed, crashes>>

-----------------------------------------------------------------------------
Next ==
  \/ \E p \in Players : JoinSeason(p) \/ QuitSeason(p) \/ DonateUnits(p)
  \/ \E p \in Players, c \in Clans : CreateClan(p, c) \/ RespondJoin(p, c)
  \/ \E p \in Players, t \in Tiles : SetClanCamp(p, t)
  \/ \E a \in Actors : BuyUnits(a) \/ StartMove(a) \/ CancelMove(a) \/ Advance(a)
  \/ CloseSeason
  \/ Crash
  \/ \E p \in Players : TornJoinSeason(p) \/ TornQuitSeason(p) \/ TornDonate(p)
  \/ \E p \in Players, c \in Clans : TornEnrol(p, c)
  \/ Boot

Spec == Init /\ [][Next]_vars

\* The tick timer runs while the process is up, and the service manager
\* restarts a dead process.  Players are under no obligation.
FairSpec == Spec /\ WF_vars(Boot) /\ \A a \in Actors : WF_vars(Advance(a))

-----------------------------------------------------------------------------
(* Properties.                                                             *)

\* Every variable keeps its type: rows of the database and the lock table.
TypeOK ==
  /\ status \in [Players -> {"new", "in", "quit"}]
  /\ torn \in SUBSET Players
  /\ member \in [Players -> Clans \cup {None}]
  /\ rows \in [Clans -> SUBSET Players]
  /\ owner \in [Tiles -> Actors \cup {None}]
  /\ camp \in [Actors -> Tiles \cup {None}]
  /\ pos \in [Actors -> Tiles \cup {None}]
  /\ units \in [Actors -> 0..MaxUnits]
  /\ bought \in [Actors -> 0..MaxUnits]
  /\ \A a \in Actors : route[a] \in Seq(Tiles) /\ Len(route[a]) <= MaxPath
  /\ DOMAIN route = Actors
  /\ locks \in [Tiles -> Actors \cup {None}]
  /\ up \in BOOLEAN /\ closed \in BOOLEAN
  /\ crashes \in 0..MaxCrashes

\* A tile is locked only while the holder's caravan is heading to it: no lock
\* outlives cancel, defeat, arrival, a blocked road, quitting, the closing of
\* the season or a restart, so no tile stays closed to everybody for ever.
NoOrphanLock ==
  \A t \in Tiles : locks[t] # None =>
    Moving(locks[t]) /\ Head(route[locks[t]]) = t

\* A group without leftover rows: everybody with a row in the clan has its
\* clan_id.  A row is left over where a spectator of a full season was let in
\* (joinSeason clears clan_id), where a crash came between the row and clan_id,
\* and in clans of an earlier season.
Whole(a) == ClanOf(a) # None => \A p \in rows[ClanOf(a)] : member[p] = ClanOf(a)

\* A restart hands out locks as the caravans head: exact as long as no group has
\* leftover rows.
Exact == crashes = 0 \/ \A c \in Clans : Whole(c)

\* Two caravans never head for the same tile nobody owns, whatever moves,
\* arrivals, quits and restarts came before; whoever started first keeps it
\* until the outcome.  Camp tiles are left out: see Reserved.  So are groups
\* with leftover rows: a caravan asks for no lock on land of a former member,
\* who may quit and leave it to nobody; and a restart may give such a caravan
\* the lock of another.
OneCaravanPerTile ==
  Exact => \A a, b \in Actors :
    /\ a # b /\ Moving(a) /\ Moving(b)
    /\ Head(route[a]) = Head(route[b]) /\ Head(route[a]) \notin CampTiles
    /\ Whole(a) /\ Whole(b)
    => owner[Head(route[a])] # None

\* While the server is up, a caravan on its way to a tile nobody owns holds
\* the lock on it, after a restart too, so everybody else is refused; and it
\* never walks towards a tile of another group.  Where a newcomer's camp can
\* appear the code does not ensure it (newCamp ignores locks), so camp tiles
\* are left out; so are groups with leftover rows, as above.
Reserved ==
  up /\ Exact => \A a \in Actors : Whole(a) /\ Moving(a) /\ Head(route[a]) \notin CampTiles =>
    \/ owner[Head(route[a])] = None /\ locks[Head(route[a])] = a
    \/ Head(route[a]) \in Own(a)

\* The army always stands on land of its own group, and so does its camp: no
\* sequence of captures, defeats, cancellations, restarts and quitting strands
\* it on a tile it has not captured ("you pass no tile without capturing it").
\* Except where a crash cut its joining or quitting short, and in a group with
\* leftover rows, where the land of a former member counts as one's own until
\* that member quits; even there the clan's camp is the land of a member.
StandsOnOwnLand ==
  /\ \A c \in Clans : camp[c] # None => camp[c] \in Own(c)
  /\ \A a \in Actors : Whole(a) /\ (a \in Players => status[a] = "in" /\ a \notin torn) =>
       /\ camp[a] # None => camp[a] \in Own(a)
       /\ pos[a] # None => pos[a] \in Own(a)

\* The next tile of a caravan is a neighbour of the tile it stands on, so a
\* route survives restarts and blocked steps without jumping over a tile.
NextTileAdjacent ==
  \A a \in Actors : Moving(a) => pos[a] # None /\ Adjacent(pos[a], Head(route[a]))

Guarded(a) == {t \in Tiles : owner[t] = a} \ {camp[a]}

\* Free units and guardians left on captured tiles never exceed the units the
\* actor was ever given: losses, guardians and donations create no unit.
UnitsAccounted ==
  \A a \in Actors : units[a] + Cardinality(Guarded(a)) <= bought[a]

\* Every caravan comes to rest: it arrives, is beaten, is blocked, is cancelled
\* or the season closes, whatever the other caravans do and whenever the
\* server crashes.
CaravanEnds == \A a \in Actors : Moving(a) ~> ~Moving(a)

\* Caravans, locks and restarts implement the abstract rules of land.
Land == INSTANCE Territory
        WITH Players <- Players, Clans <- Clans, Tiles <- Tiles, CampTiles <- CampTiles,
             None <- None, owner <- owner, member <- member,
             roll <- rows, cut <- torn
ImplementsTerritory == Land!TSpec

=============================================================================
