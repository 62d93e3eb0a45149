------------------------------- MODULE Season -------------------------------
(***************************************************************************)
(* The life of seasons under the admin's panel: the overrides the admin    *)
(* saves, the settings the server runs with, the snapshot a season is made *)
(* from, and the lock of the panel (server/src/api/admin.ts, boot,         *)
(* createSeason and useSeason of server/src/game/world.ts, closeSeason of  *)
(* server/src/game/tick.ts).                                               *)
(*                                                                         *)
(* Of the game itself only the traces that lock the panel are kept: money  *)
(* in the pool, coins spent by an active player, and land taken.           *)
(***************************************************************************)
EXTENDS Naturals, FiniteSets

CONSTANTS
  Players,    \* accounts
  Clan,       \* owner of land taken by a clan
  Settings,   \* values of all the settings together, the map among them
  Default,    \* defaultSettings()
  MaxSeason,  \* bound of the model: number of the last season
  MaxCrashes  \* bound of the model

ASSUME SettingsAssumption == Default \in Settings
ASSUME OwnersAssumption == Clan \notin Players
ASSUME BoundsAssumption == MaxSeason \in Nat \ {0} /\ MaxCrashes \in Nat

VARIABLES
  up,        \* the server runs
  overrides, \* table settings: what the admin saved last
  settings,  \* World.settings; kept over a crash only to have a value
  gen,       \* World.gen: the settings the terrain was generated from
  season,    \* the last row of seasons, and World.season while the server runs
  member,    \* per player: its season and whether it takes part and has spent coins
  land,      \* owners of land of the season that cost something
  crashes    \* crashes so far

vars == <<up, overrides, settings, gen, season, member, land, crashes>>

-----------------------------------------------------------------------------
SeasonRow(n, o, byAdmin, tombs) ==
  [number |-> n, snapshot |-> o, byAdmin |-> byAdmin, tombs |-> tombs,
   funded |-> FALSE, ending |-> FALSE, closed |-> FALSE]

Absent == [season |-> 0, active |-> FALSE, spent |-> FALSE]
Active(p) == member[p].season = season.number /\ member[p].active

\* Mutant of Locked: the money in the pool is not looked at.
LockedByPlayers ==
  /\ ~season.closed
  /\ season.byAdmin \/ land # {} \/ \E p \in Players : Active(p) /\ member[p].spent

\* Mutant of Locked: the pool counts only while somebody takes part.
LockedWhilePlayed ==
  /\ ~season.closed
  /\ season.byAdmin \/ land # {} \/ \E p \in Players : Active(p) /\ (member[p].spent \/ season.funded)

\* lockState: the panel is locked while a season is under way.
Locked ==
  /\ ~season.closed
  /\ \/ season.byAdmin
     \/ season.funded
     \/ \E p \in Players : Active(p) /\ member[p].spent
     \/ land # {}

\* The first boot makes a season out of the defaults.
Init ==
  /\ up = TRUE
  /\ overrides = Default /\ settings = Default /\ gen = Default
  /\ season = SeasonRow(1, Default, FALSE, TRUE)
  /\ member = [p \in Players |-> Absent]
  /\ land = {}
  /\ crashes = 0

-----------------------------------------------------------------------------
(* The panel.                                                              *)

\* Mutant of SaveSettings: the terrain is generated again at once.
SaveSettingsAndTerrain(o) ==
  /\ up /\ ~Locked
  /\ overrides' = o
  /\ settings' = o
  /\ gen' = o
  /\ UNCHANGED <<up, season, member, land, crashes>>

\* POST /admin/settings and /admin/settings/reset: the table and the settings
\* the server runs with, not the snapshot of the season.
SaveSettings(o) ==
  /\ up /\ ~Locked
  /\ overrides' = o
  /\ settings' = o
  /\ UNCHANGED <<up, gen, season, member, land, crashes>>

\* GET /admin/status loads the table again, whatever the season runs with.
ShowStatus ==
  /\ up
  /\ settings' = overrides
  /\ UNCHANGED <<up, overrides, gen, season, member, land, crashes>>

\* POST /admin/season/start: createSeason places the tombs and uses the season.
StartSeason ==
  /\ up /\ ~Locked
  /\ season.number < MaxSeason
  /\ season' = SeasonRow(season.number + 1, overrides, TRUE, TRUE)
  /\ settings' = overrides
  /\ gen' = overrides
  /\ land' = {}
  /\ UNCHANGED <<up, overrides, member, crashes>>

-----------------------------------------------------------------------------
(* The game.                                                               *)

\* auth: a player who is not of this season joins it.  Capacity is left out.
JoinSeason(p) ==
  /\ up /\ ~season.closed
  /\ member[p].season # season.number
  /\ member' = [member EXCEPT ![p] = [season |-> season.number, active |-> TRUE, spent |-> FALSE]]
  /\ UNCHANGED <<up, overrides, settings, gen, season, land, crashes>>

\* quitSeason: the land goes, and what was spent is forgotten.
QuitSeason(p) ==
  /\ up /\ Active(p)
  /\ member' = [member EXCEPT ![p].active = FALSE, ![p].spent = FALSE]
  /\ land' = land \ {p}
  /\ UNCHANGED <<up, overrides, settings, gen, season, crashes>>

BuyCoins(p) ==
  /\ up /\ ~season.closed /\ Active(p)
  /\ season' = [season EXCEPT !.funded = TRUE]
  /\ UNCHANGED <<up, overrides, settings, gen, member, land, crashes>>

\* spendCoins, with coins bought or the coins a season starts with.
SpendCoins(p) ==
  /\ up /\ ~season.closed /\ Active(p)
  /\ member' = [member EXCEPT ![p].spent = TRUE]
  /\ UNCHANGED <<up, overrides, settings, gen, season, land, crashes>>

\* A caravan of the player, or one of the clan it commands, takes a tile;
\* if it is the treasure the season is given its end.
TakeTile(p) == \E owner \in {p, Clan}, treasure \in BOOLEAN :
  /\ up /\ ~season.closed /\ Active(p) /\ member[p].spent
  /\ land' = land \cup {owner}
  /\ season' = [season EXCEPT !.ending = @ \/ treasure]
  /\ UNCHANGED <<up, overrides, settings, gen, member, crashes>>

\* Mutant of CloseSeason: the end of the season is forgotten over a restart.
CloseSeasonUnlessRestarted ==
  /\ up /\ ~season.closed /\ season.ending
  /\ crashes = 0
  /\ season' = [season EXCEPT !.closed = TRUE]
  /\ UNCHANGED <<up, overrides, settings, gen, member, land, crashes>>

\* closeSeason, by the tick after ends_at.
CloseSeason ==
  /\ up /\ ~season.closed /\ season.ending
  /\ season' = [season EXCEPT !.closed = TRUE]
  /\ UNCHANGED <<up, overrides, settings, gen, member, land, crashes>>

-----------------------------------------------------------------------------
Dies == crashes < MaxCrashes /\ crashes' = crashes + 1 /\ up' = FALSE

Crash ==
  /\ up /\ Dies
  /\ UNCHANGED <<overrides, settings, gen, season, member, land>>

\* createSeason is no transaction: the row is there, tombs are missing.
TornStartSeason ==
  /\ up /\ ~Locked /\ Dies
  /\ season.number < MaxSeason
  /\ season' = SeasonRow(season.number + 1, overrides, TRUE, FALSE)
  /\ land' = {}
  /\ UNCHANGED <<overrides, settings, gen, member>>

\* boot: useSeason takes the settings from the snapshot of the last season.
Boot ==
  /\ ~up
  /\ up' = TRUE
  /\ settings' = season.snapshot
  /\ gen' = season.snapshot
  /\ UNCHANGED <<overrides, season, member, land, crashes>>

-----------------------------------------------------------------------------
Next ==
  \/ \E o \in Settings : SaveSettings(o)
  \/ ShowStatus \/ StartSeason \/ TornStartSeason
  \/ \E p \in Players : JoinSeason(p) \/ QuitSeason(p) \/ BuyCoins(p) \/ SpendCoins(p) \/ TakeTile(p)
  \/ CloseSeason \/ Crash \/ Boot

Spec == Init /\ [][Next]_vars

\* The timer of index.ts ticks as long as the process lives, and the service
\* manager restarts the process.
FairSpec == Spec /\ WF_vars(CloseSeason) /\ WF_vars(Boot)

-----------------------------------------------------------------------------
(* Properties.                                                             *)

Rows == [number : 1..MaxSeason, snapshot : Settings, byAdmin : BOOLEAN, tombs : BOOLEAN,
         funded : BOOLEAN, ending : BOOLEAN, closed : BOOLEAN]

TypeOK ==
  /\ up \in BOOLEAN /\ overrides \in Settings /\ settings \in Settings /\ gen \in Settings
  /\ season \in Rows
  /\ member \in [Players -> [season : 0..MaxSeason, active : BOOLEAN, spent : BOOLEAN]]
  /\ land \subseteq Players \cup {Clan}
  /\ crashes \in 0..MaxCrashes

\* A new map comes with the next season, not in the middle of this one: over
\* saves, looks at the panel and restarts the terrain is the season's own.
TerrainOfSeason == up => gen = season.snapshot

\* A season the admin started, or with money in its pool, is never put aside
\* for another one before it is closed, restarts and resignations included.
NeverCutShort ==
  [][season'.number # season.number /\ (season.byAdmin \/ season.funded) => season.closed]_vars

\* Nothing the players do, and no restart, opens the panel again once money is
\* in the pool or the admin has started the season: only its close does.
LockLasts ==
  [][(season.byAdmin \/ season.funded) /\ Locked => Locked' \/ season'.closed]_vars

\* A season whose treasure was taken ends: it is closed, or, when everyone has
\* resigned and nobody had paid, followed by another.
SeasonEnds ==
  \A n \in 1..MaxSeason :
    (season.number = n /\ season.ending) ~> (season.number # n \/ season.closed)

=============================================================================
