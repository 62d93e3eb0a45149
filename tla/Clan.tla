-------------------------------- MODULE Clan --------------------------------
(***************************************************************************)
(* Clans across seasons: the clan part of server/src/game/actions.ts       *)
(* (founding, join requests, contributions, control, votes), elections of  *)
(* server/src/game/tick.ts, and what joining, quitting and replacing a     *)
(* season do to membership.  Membership is kept twice, in players.clan_id  *)
(* and in table clan_members, and no handler checks that they agree.       *)
(*                                                                         *)
(* Every request first runs auth of server/src/api/routes.ts, which makes  *)
(* a player of an earlier season join the current one unless it is closed  *)
(* or full; a player turned away stays a spectator who may still use the   *)
(* clan handlers.  JoinSeason below is that first half of a request, and   *)
(* the handlers require that it has nothing to do.  Coins, names, tiles    *)
(* and chat are abstracted: they only decide whether a request is refused. *)
(***************************************************************************)
EXTENDS Integers, FiniteSets, FiniteSetsExt

CONSTANTS
  Players,          \* rows of table players
  Clans,            \* rows table clans may come to have
  None,             \* SQL NULL
  SeasonMaxPlayers, \* settings.seasonMaxPlayers
  ClanMaxMembers,   \* settings.clanMaxMembers
  MaxSeasons,       \* bound of the model: seasons
  MaxPeriod,        \* bound of the model: election periods of a clan
  MaxWeight,        \* bound of the model: weight of a member
  MaxXp             \* bound of the model: experience

ASSUME NoneAssumption == None \notin Clans \cup Players
ASSUME FiniteAssumption == IsFiniteSet(Players)
ASSUME LimitsAssumption == /\ SeasonMaxPlayers \in Nat /\ ClanMaxMembers \in Nat \ {0}
                           /\ MaxSeasons \in Nat \ {0} /\ MaxPeriod \in Nat
                           /\ MaxWeight \in Nat /\ MaxXp \in Nat

VARIABLES
  season,    \* World.season.id
  closed,    \* seasons.closed_at of it is set
  joined,    \* per player: season_id, 0 for NULL
  quit,      \* per player: the quit flag
  clanOf,    \* per player: clan_id
  control,   \* per player: the account it controls, its own or its clan's
  xp,        \* per player
  founded,   \* per clan: season_id, 0 if there is no such row
  commander, \* per clan: commander_id
  role,      \* clan_members: role per clan and player, "none" if there is no row
  weight,    \* clan_members: weight per clan and player
  clanXp,    \* per clan
  requests,  \* open clan_requests, pairs <<clan, player>>
  votes,     \* clan_votes per clan: records of voter, candidate and period
  period,    \* per clan: election periods that have passed on the clock
  tallied    \* per clan: election_period

players == <<joined, quit, clanOf, control, xp>>
clans == <<founded, commander, role, weight, clanXp, votes, tallied>>
vars == <<season, closed, players, clans, requests, period>>

-----------------------------------------------------------------------------
InSeason(p) == joined[p] = season /\ ~quit[p]
Active == {p \in Players : InSeason(p)}
Full == Cardinality(Active) >= SeasonMaxPlayers

\* auth has nothing to do for p: it has joined, or cannot.
Authed(p) == joined[p] = season \/ closed \/ Full

Officers == {"commander", "elder"}
Members(c) == {p \in Players : role[c][p] # "none"}
IsOfficer(p, c) == role[c][p] \in Officers
Greater(m, n) == IF m > n THEN m ELSE n

\* elderCount
ElderCount(n) == IF n < 10 THEN 1 ELSE IF n < 30 THEN 2 ELSE IF n < 60 THEN 3 ELSE 5

-----------------------------------------------------------------------------
Init ==
  /\ season = 1
  /\ closed = FALSE
  /\ joined = [p \in Players |-> 0]
  /\ quit = [p \in Players |-> FALSE]
  /\ clanOf = [p \in Players |-> None]
  /\ control = [p \in Players |-> "player"]
  /\ xp = [p \in Players |-> 0]
  /\ founded = [c \in Clans |-> 0]
  /\ commander = [c \in Clans |-> None]
  /\ role = [c \in Clans |-> [p \in Players |-> "none"]]
  /\ weight = [c \in Clans |-> [p \in Players |-> 0]]
  /\ clanXp = [c \in Clans |-> 0]
  /\ requests = {}
  /\ votes = [c \in Clans |-> {}]
  /\ period = [c \in Clans |-> 0]
  /\ tallied = [c \in Clans |-> 0]

-----------------------------------------------------------------------------
(* Joining and quitting the season.                                        *)

\* Mutant of JoinSeason: the control of the former clan's account is kept.
JoinSeasonKeepsControl(p) ==
  /\ ~Authed(p)
  /\ joined' = [joined EXCEPT ![p] = season]
  /\ quit' = [quit EXCEPT ![p] = FALSE]
  /\ clanOf' = [clanOf EXCEPT ![p] = None]
  /\ xp' = [xp EXCEPT ![p] = 0]
  /\ UNCHANGED <<season, closed, control, clans, requests, period>>

\* auth and joinSeason: a fresh start, without a clan.
JoinSeason(p) ==
  /\ ~Authed(p)
  /\ joined' = [joined EXCEPT ![p] = season]
  /\ quit' = [quit EXCEPT ![p] = FALSE]
  /\ clanOf' = [clanOf EXCEPT ![p] = None]
  /\ control' = [control EXCEPT ![p] = "player"]
  /\ xp' = [xp EXCEPT ![p] = 0]
  /\ UNCHANGED <<season, closed, clans, requests, period>>

\* Mutant of QuitSeason: members of a clan may quit, and leave it so.
QuitSeasonAndClan(p) ==
  /\ Authed(p)
  /\ clanOf' = [clanOf EXCEPT ![p] = None]
  /\ quit' = [quit EXCEPT ![p] = TRUE]
  /\ control' = [control EXCEPT ![p] = "player"]
  /\ xp' = [xp EXCEPT ![p] = 0]
  /\ UNCHANGED <<season, closed, joined, clans, requests, period>>

\* quitSeason, refused to members of a clan; spectators are not refused.
QuitSeason(p) ==
  /\ Authed(p)
  /\ clanOf[p] = None
  /\ quit' = [quit EXCEPT ![p] = TRUE]
  /\ control' = [control EXCEPT ![p] = "player"]
  /\ xp' = [xp EXCEPT ![p] = 0]
  /\ UNCHANGED <<season, closed, joined, clanOf, clans, requests, period>>

-----------------------------------------------------------------------------
(* Clan handlers.  None of them asks whether the player is in the season.  *)

\* Weight a new member brings: what its tiles cost.
Brought == 0..IF MaxWeight = 0 THEN 0 ELSE 1

CreateClan(p, c) == \E w \in Brought :
  /\ Authed(p)
  /\ clanOf[p] = None
  /\ founded[c] = 0
  /\ founded' = [founded EXCEPT ![c] = season]
  /\ commander' = [commander EXCEPT ![c] = p]
  /\ role' = [role EXCEPT ![c][p] = "commander"]
  /\ weight' = [weight EXCEPT ![c][p] = w]
  /\ clanXp' = [clanXp EXCEPT ![c] = xp[p]]
  /\ clanOf' = [clanOf EXCEPT ![p] = c]
  /\ UNCHANGED <<season, closed, joined, quit, control, xp, requests, votes, period, tallied>>

RequestJoin(p, c) ==
  /\ Authed(p)
  /\ clanOf[p] = None
  /\ founded[c] = season
  /\ <<c, p>> \notin requests
  /\ requests' = requests \cup {<<c, p>>}
  /\ UNCHANGED <<season, closed, players, clans, period>>

\* respondJoin by officer o, request refused.
RejectJoin(o, c, p) ==
  /\ Authed(o)
  /\ IsOfficer(o, c)
  /\ <<c, p>> \in requests
  /\ requests' = requests \ {<<c, p>>}
  /\ UNCHANGED <<season, closed, players, clans, period>>

\* Mutant of AcceptJoin: the clan does not take over the experience.
AcceptJoinKeepsXp(o, c, p) == \E w \in Brought :
  /\ Authed(o)
  /\ IsOfficer(o, c)
  /\ <<c, p>> \in requests
  /\ clanOf[p] = None
  /\ Cardinality(Members(c)) < ClanMaxMembers
  /\ role[c][p] = "none"
  /\ role' = [role EXCEPT ![c][p] = "member"]
  /\ weight' = [weight EXCEPT ![c][p] = w]
  /\ clanOf' = [clanOf EXCEPT ![p] = c]
  /\ requests' = requests \ {<<c, p>>}
  /\ UNCHANGED <<season, closed, joined, quit, control, xp, founded, commander, clanXp, votes, period, tallied>>

\* respondJoin by officer o, request accepted.  The insert fails on the
\* primary key of clan_members if the player has a row already.
AcceptJoin(o, c, p) == \E w \in Brought :
  /\ Authed(o)
  /\ IsOfficer(o, c)
  /\ <<c, p>> \in requests
  /\ clanOf[p] = None
  /\ Cardinality(Members(c)) < ClanMaxMembers
  /\ role[c][p] = "none"
  /\ role' = [role EXCEPT ![c][p] = "member"]
  /\ weight' = [weight EXCEPT ![c][p] = w]
  /\ clanOf' = [clanOf EXCEPT ![p] = c]
  /\ requests' = requests \ {<<c, p>>}
  /\ clanXp' = [clanXp EXCEPT ![c] = Greater(@, xp[p])]
  /\ UNCHANGED <<season, closed, joined, quit, control, xp, founded, commander, votes, period, tallied>>

\* clanDeposit and donateUnits: both only add to the member's weight here.
Contribute(p) ==
  LET c == clanOf[p] IN
  /\ Authed(p)
  /\ c # None
  /\ weight[c][p] < MaxWeight
  /\ weight' = [weight EXCEPT ![c][p] = @ + 1]
  /\ UNCHANGED <<season, closed, players, founded, commander, role, clanXp, requests, votes, period, tallied>>

SwitchControl(p, to) ==
  /\ Authed(p)
  /\ to = "clan" => clanOf[p] # None /\ IsOfficer(p, clanOf[p])
  /\ control' = [control EXCEPT ![p] = to]
  /\ UNCHANGED <<season, closed, joined, quit, clanOf, xp, clans, requests, period>>

\* vote: INSERT OR REPLACE, so a voter has one vote per period.
Vote(p, candidate) ==
  LET c == clanOf[p] IN
  /\ Authed(p)
  /\ c # None
  /\ role[c][candidate] # "none"
  /\ period[c] < MaxPeriod  \* bound of the model: a vote that can still be counted
  /\ votes' = [votes EXCEPT ![c] =
       {v \in @ : v.voter # p \/ v.period # period[c]}
         \cup {[voter |-> p, candidate |-> candidate, period |-> period[c]]}]
  /\ UNCHANGED <<season, closed, players, founded, commander, role, weight, clanXp, requests, period, tallied>>

-----------------------------------------------------------------------------
(* The engine.                                                             *)

\* The clock: electionDays days have passed since the last period began.
PeriodEnds(c) ==
  /\ founded[c] # 0
  /\ period[c] < MaxPeriod
  /\ period' = [period EXCEPT ![c] = @ + 1]
  /\ UNCHANGED <<season, closed, players, clans, requests>>

\* The 1e-6 added per vote only breaks ties between equal weights: scores
\* are scaled by more than the number of votes there can be.
Scale == Cardinality(Players) + 1
Score(c, cast, candidate) ==
  LET for == {v \in cast : v.candidate = candidate}
  IN  MapThenSumSet(LAMBDA v : weight[c][v.voter] * Scale + 1, for)

\* The ranking by score: first one commander, the next ones elders.  Among
\* equal scores the order of the rows decides, which is left open.
Ranked(c, cast, first, next) ==
  LET candidates == {v.candidate : v \in cast}
      Beats(p, q) == Score(c, cast, p) >= Score(c, cast, q)
      quota == ElderCount(Cardinality(Members(c)))
  IN  /\ first \in candidates /\ next \subseteq candidates \ {first}
      /\ Cardinality(next) = IF Cardinality(candidates) - 1 < quota
                             THEN Cardinality(candidates) - 1 ELSE quota
      /\ \A p \in candidates : Beats(first, p)
      /\ \A p \in next, q \in candidates \ (next \cup {first}) : Beats(p, q)

\* Mutant of NewRoles: those who are not elected keep the role they had.
NewRolesKeepOld(c, first, next) == [p \in Players |->
  IF p = first THEN "commander" ELSE IF p \in next THEN "elder" ELSE role[c][p]]

\* All members fall back to member, then the elected get their roles.
NewRoles(c, first, next) == [p \in Players |->
  IF p \notin Members(c) THEN "none" ELSE IF p = first THEN "commander"
  ELSE IF p \in next THEN "elder" ELSE "member"]

\* elections, for one clan: the votes of the period before this one.
Elections(c) ==
  LET cast == {v \in votes[c] : v.period = period[c] - 1 /\ v.candidate \in Members(c)} IN
  /\ ~closed
  /\ founded[c] = season
  /\ period[c] > tallied[c]
  /\ tallied' = [tallied EXCEPT ![c] = period[c]]
  /\ votes' = [votes EXCEPT ![c] = {v \in @ : v.period >= period[c]}]
  /\ \/ /\ cast = {}
        /\ UNCHANGED <<role, commander, control>>
     \/ \E first \in Members(c), next \in SUBSET Members(c) :
          /\ Ranked(c, cast, first, next)
          /\ role' = [role EXCEPT ![c] = NewRoles(c, first, next)]
          /\ commander' = [commander EXCEPT ![c] = first]
          /\ control' = [p \in Players |->
               IF clanOf[p] = c /\ p \notin next \cup {first} THEN "player" ELSE control[p]]
  /\ UNCHANGED <<season, closed, joined, quit, clanOf, xp, founded, weight, clanXp, requests, period>>

\* addXp of a player's caravan: the clan never falls behind its member.
GainXp(p) ==
  /\ ~closed /\ InSeason(p)
  /\ xp[p] < MaxXp
  /\ xp' = [xp EXCEPT ![p] = @ + 1]
  /\ clanXp' = IF clanOf[p] = None THEN clanXp
               ELSE [clanXp EXCEPT ![clanOf[p]] = Greater(@, xp[p] + 1)]
  /\ UNCHANGED <<season, closed, joined, quit, clanOf, control, founded, commander, role, weight, requests, votes, period, tallied>>

\* addXp of a clan's caravan, which an officer in the season has started.
GainClanXp(c) ==
  /\ ~closed
  /\ \E p \in Players : InSeason(p) /\ clanOf[p] = c
  /\ clanXp[c] < MaxXp
  /\ clanXp' = [clanXp EXCEPT ![c] = @ + 1]
  /\ UNCHANGED <<season, closed, players, founded, commander, role, weight, requests, votes, period, tallied>>

-----------------------------------------------------------------------------
(* The season.                                                             *)

CloseSeason ==
  /\ ~closed
  /\ closed' = TRUE
  /\ UNCHANGED <<season, players, clans, requests, period>>

\* lockState: an open season may be replaced while nobody has played in it;
\* founding a clan costs coins, so it counts as playing.
Untouched == /\ \A p \in Players : InSeason(p) => xp[p] = 0
             /\ \A c \in Clans : founded[c] # season

\* Mutant of StartSeason: clan_members is emptied, players keep clan_id.
StartSeasonWipesMembers ==
  /\ closed \/ Untouched
  /\ season < MaxSeasons
  /\ season' = season + 1
  /\ closed' = FALSE
  /\ role' = [c \in Clans |-> [p \in Players |-> "none"]]
  /\ UNCHANGED <<players, founded, commander, weight, clanXp, votes, tallied, requests, period>>

\* POST /admin/season/start: clans, members and requests keep their rows.
StartSeason ==
  /\ closed \/ Untouched
  /\ season < MaxSeasons
  /\ season' = season + 1
  /\ closed' = FALSE
  /\ UNCHANGED <<players, clans, requests, period>>

-----------------------------------------------------------------------------
Next ==
  \/ \E p \in Players : JoinSeason(p) \/ QuitSeason(p) \/ Contribute(p) \/ GainXp(p)
  \/ \E p \in Players, c \in Clans : CreateClan(p, c) \/ RequestJoin(p, c)
  \/ \E o, p \in Players, c \in Clans : AcceptJoin(o, c, p) \/ RejectJoin(o, c, p)
  \/ \E p \in Players, to \in {"player", "clan"} : SwitchControl(p, to)
  \/ \E p, candidate \in Players : Vote(p, candidate)
  \/ \E c \in Clans : PeriodEnds(c) \/ Elections(c) \/ GainClanXp(c)
  \/ CloseSeason
  \/ StartSeason

Spec == Init /\ [][Next]_vars

-----------------------------------------------------------------------------
(* Properties.                                                             *)

Roles == {"none", "member", "elder", "commander"}
Ballots == [voter : Players, candidate : Players, period : 0..MaxPeriod]

\* Every column keeps its type.
TypeOK ==
  /\ season \in 1..MaxSeasons /\ closed \in BOOLEAN
  /\ joined \in [Players -> 0..MaxSeasons] /\ quit \in [Players -> BOOLEAN]
  /\ clanOf \in [Players -> Clans \cup {None}]
  /\ control \in [Players -> {"player", "clan"}]
  /\ xp \in [Players -> 0..MaxXp] /\ clanXp \in [Clans -> 0..MaxXp]
  /\ founded \in [Clans -> 0..MaxSeasons]
  /\ commander \in [Clans -> Players \cup {None}]
  /\ role \in [Clans -> [Players -> Roles]]
  /\ weight \in [Clans -> [Players -> 0..MaxWeight]]
  /\ requests \subseteq Clans \X Players
  /\ votes \in [Clans -> SUBSET Ballots]
  /\ period \in [Clans -> 0..MaxPeriod] /\ tallied \in [Clans -> 0..MaxPeriod]

\* Through any elections and changes of season a clan has one commander: the
\* row of clan_members with that role is the one clans.commander_id names.
OneCommander ==
  \A c \in Clans : {p \in Players : role[c][p] = "commander"}
                     = IF founded[c] = 0 THEN {} ELSE {commander[c]}

\* Whoever is in control of a clan's account is an officer of the clan it
\* belongs to: losing an election or starting a new season ends the control.
ControlNeedsOffice ==
  \A p \in Players : control[p] = "clan" => clanOf[p] # None /\ IsOfficer(p, clanOf[p])

\* The two records of membership agree in one direction: whoever has clan_id c
\* has a row in clan_members of c, so its contributions count for its share.
MembersHaveRows ==
  \A p \in Players : clanOf[p] # None => role[clanOf[p]][p] # "none"

\* A clan has no more elders than elderCount allows for its members, though
\* members keep joining and offices change hands between elections.
ElderQuota ==
  \A c \in Clans :
    Cardinality({p \in Players : role[c][p] = "elder"}) <= ElderCount(Cardinality(Members(c)))

\* A clan's experience is at least that of each member, whether the member
\* brought it, gained it later, or a new season reset it.
ClanXpDominates ==
  \A p \in Players : clanOf[p] # None => xp[p] <= clanXp[clanOf[p]]

\* An open request can still be answered one way or the other: somebody holds
\* an office in the clan it was sent to.
RequestsAnswerable ==
  \A r \in requests : \E o \in Players : IsOfficer(o, r[1])

\* No member who has joined the season leaves a clan while it lasts; one who
\* was a spectator of a full season does, when it joins at last.
NoOneLeaves ==
  [][\A p \in Players : clanOf[p] # None /\ founded[clanOf[p]] = season' /\ joined[p] = season' =>
        clanOf'[p] = clanOf[p]]_vars

=============================================================================
