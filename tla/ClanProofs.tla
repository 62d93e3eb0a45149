----------------------------- MODULE ClanProofs -----------------------------
(***************************************************************************)
(* Proofs about Clan: offices and membership over any number of players,   *)
(* clans, elections and seasons.                                           *)
(***************************************************************************)
EXTENDS Clan, FiniteSetTheorems, TLAPS

\* The part of TypeOK the proofs need.
Typed ==
  /\ season \in Nat \ {0}
  /\ clanOf \in [Players -> Clans \cup {None}]
  /\ control \in [Players -> {"player", "clan"}]
  /\ founded \in [Clans -> Nat]
  /\ commander \in [Clans -> Players \cup {None}]
  /\ role \in [Clans -> [Players -> Roles]]
  /\ requests \subseteq Clans \X Players

\* A clan that was never founded has no members.
NoGhosts == \A c \in Clans : founded[c] = 0 => \A p \in Players : role[c][p] = "none"

Offices == OneCommander /\ MembersHaveRows /\ ControlNeedsOffice
Inv == Typed /\ NoGhosts /\ Offices

\* What NewRoles gives: one commander, elders, and members that stay members.
LEMMA NewRolesGive ==
  ASSUME Typed, NEW c \in Clans, NEW first \in Members(c), NEW next \in SUBSET Members(c),
         first \notin next
  PROVE  /\ NewRoles(c, first, next) \in [Players -> Roles]
         /\ {p \in Players : NewRoles(c, first, next)[p] = "commander"} = {first}
         /\ \A p \in Players : role[c][p] # "none" => NewRoles(c, first, next)[p] # "none"
         /\ \A p \in Players : role[c][p] = "none" => NewRoles(c, first, next)[p] = "none"
         /\ \A p \in next \cup {first} : NewRoles(c, first, next)[p] \in Officers
BY DEF NewRoles, Members, Roles, Officers, Typed

LEMMA InvInit == Init => Inv
<1> SUFFICES ASSUME Init PROVE Inv OBVIOUS
<1>1. Typed BY DEF Init, Typed, Roles
<1>2. NoGhosts BY DEF Init, NoGhosts
<1>3. Offices BY DEF Init, Offices, OneCommander, MembersHaveRows, ControlNeedsOffice
<1> QED BY <1>1, <1>2, <1>3 DEF Inv

\* A step that leaves the offices alone.
LEMMA Quiet ==
  ASSUME Inv, UNCHANGED <<clanOf, control, founded, commander, role>>,
         season' \in Nat \ {0}, requests' \subseteq Clans \X Players
  PROVE  Inv'
BY DEF Inv, Typed, NoGhosts, Offices, OneCommander, MembersHaveRows, ControlNeedsOffice, IsOfficer

LEMMA JoinSeasonKeeps ==
  ASSUME Inv, NEW p \in Players, JoinSeason(p)
  PROVE  Inv'
<1> USE DEF Inv
<1>1. Typed' BY DEF JoinSeason, clans, Typed
<1>2. NoGhosts' /\ OneCommander' BY DEF JoinSeason, clans, NoGhosts, Offices, OneCommander
<1>3. MembersHaveRows' BY DEF JoinSeason, clans, Typed, Offices, MembersHaveRows
<1>4. ControlNeedsOffice'
  BY DEF JoinSeason, clans, Typed, Offices, ControlNeedsOffice, IsOfficer
<1> QED BY <1>1, <1>2, <1>3, <1>4 DEF Offices

LEMMA ControlKeeps ==
  ASSUME Inv, NEW p \in Players, QuitSeason(p) \/ \E to \in {"player", "clan"} : SwitchControl(p, to)
  PROVE  Inv'
<1> USE DEF Inv
<1>1. PICK to \in {"player", "clan"} :
        /\ control' = [control EXCEPT ![p] = to]
        /\ to = "clan" => clanOf[p] # None /\ IsOfficer(p, clanOf[p])
  BY DEF QuitSeason, SwitchControl
<1>2. UNCHANGED <<season, clanOf, requests, founded, commander, role>>
  BY DEF QuitSeason, SwitchControl, clans
<1>3. Typed' BY <1>1, <1>2 DEF Typed
<1>4. NoGhosts' /\ OneCommander' /\ MembersHaveRows'
  BY <1>2 DEF NoGhosts, Offices, OneCommander, MembersHaveRows
<1>5. ControlNeedsOffice' BY <1>1, <1>2 DEF Typed, Offices, ControlNeedsOffice, IsOfficer
<1> QED BY <1>3, <1>4, <1>5 DEF Offices

LEMMA CreateClanKeeps ==
  ASSUME Inv, NEW p \in Players, NEW c \in Clans, CreateClan(p, c)
  PROVE  Inv'
<1> USE DEF Inv
<1>1. /\ clanOf[p] = None /\ founded[c] = 0
      /\ founded' = [founded EXCEPT ![c] = season]
      /\ commander' = [commander EXCEPT ![c] = p]
      /\ role' = [role EXCEPT ![c][p] = "commander"]
      /\ clanOf' = [clanOf EXCEPT ![p] = c]
      /\ UNCHANGED <<season, control, requests>>
  BY DEF CreateClan
<1>2. Typed' BY <1>1 DEF Typed, Roles
<1>3. NoGhosts' BY <1>1 DEF Typed, NoGhosts
<1>4. OneCommander'
  <2>1. {q \in Players : role'[c][q] = "commander"} = {p} BY <1>1 DEF Typed, NoGhosts
  <2>2. founded'[c] # 0 /\ commander'[c] = p BY <1>1 DEF Typed
  <2>3. \A b \in Clans \ {c} :
          role'[b] = role[b] /\ founded'[b] = founded[b] /\ commander'[b] = commander[b]
    BY <1>1 DEF Typed
  <2> QED BY <2>1, <2>2, <2>3 DEF Offices, OneCommander
<1>5. MembersHaveRows'
  <2> SUFFICES ASSUME NEW q \in Players, clanOf'[q] # None PROVE role'[clanOf'[q]][q] # "none"
    BY DEF MembersHaveRows
  <2>1. CASE q = p BY <1>1, <2>1 DEF Typed
  <2>2. CASE q # p
    <3>1. clanOf'[q] = clanOf[q] BY <1>1, <2>2 DEF Typed
    <3>2. clanOf[q] \in Clans BY <3>1 DEF Typed
    <3>3. role'[clanOf[q]][q] = role[clanOf[q]][q] BY <1>1, <2>2, <3>2 DEF Typed
    <3> QED BY <3>1, <3>3 DEF Offices, MembersHaveRows
  <2> QED BY <2>1, <2>2
<1>6. ControlNeedsOffice'
  <2> SUFFICES ASSUME NEW q \in Players, control'[q] = "clan"
               PROVE  clanOf'[q] # None /\ role'[clanOf'[q]][q] \in Officers
    BY DEF ControlNeedsOffice, IsOfficer
  <2>1. clanOf[q] # None /\ role[clanOf[q]][q] \in Officers
    BY <1>1 DEF Offices, ControlNeedsOffice, IsOfficer
  <2>2. q # p BY <1>1, <2>1
  <2>3. clanOf'[q] = clanOf[q] /\ clanOf[q] \in Clans BY <1>1, <2>1, <2>2 DEF Typed
  <2>4. role'[clanOf[q]][q] = role[clanOf[q]][q] BY <1>1, <2>2, <2>3 DEF Typed
  <2> QED BY <2>1, <2>3, <2>4
<1> QED BY <1>2, <1>3, <1>4, <1>5, <1>6 DEF Offices

LEMMA AcceptJoinKeeps ==
  ASSUME Inv, NEW o \in Players, NEW p \in Players, NEW c \in Clans, AcceptJoin(o, c, p)
  PROVE  Inv'
<1> USE DEF Inv
<1>1. /\ IsOfficer(o, c) /\ clanOf[p] = None /\ role[c][p] = "none"
      /\ role' = [role EXCEPT ![c][p] = "member"]
      /\ clanOf' = [clanOf EXCEPT ![p] = c]
      /\ requests' = requests \ {<<c, p>>}
      /\ UNCHANGED <<season, control, founded, commander>>
  BY DEF AcceptJoin
<1>2. Typed' BY <1>1 DEF Typed, Roles
<1>3. NoGhosts' BY <1>1 DEF Typed, NoGhosts, IsOfficer, Officers
<1>4. OneCommander'
  <2>1. \A b \in Clans, q \in Players : role'[b][q] = "commander" <=> role[b][q] = "commander"
    BY <1>1 DEF Typed
  <2> QED BY <1>1, <2>1 DEF Offices, OneCommander
<1>5. \A q \in Players \ {p} : clanOf'[q] = clanOf[q] BY <1>1 DEF Typed
<1>6. \A q \in Players \ {p}, b \in Clans : role'[b][q] = role[b][q] BY <1>1 DEF Typed
<1>7. clanOf'[p] = c /\ role'[c][p] = "member" BY <1>1 DEF Typed
<1>8. MembersHaveRows'
  BY <1>5, <1>6, <1>7 DEF Typed, Offices, MembersHaveRows
<1>9. ControlNeedsOffice'
  BY <1>1, <1>5, <1>6 DEF Typed, Offices, ControlNeedsOffice, IsOfficer
<1> QED BY <1>2, <1>3, <1>4, <1>8, <1>9 DEF Offices

LEMMA ElectionsKeep ==
  ASSUME Inv, NEW c \in Clans, Elections(c)
  PROVE  Inv'
<1> USE DEF Inv
<1>1. founded[c] = season /\ UNCHANGED <<season, clanOf, founded, requests>>
  BY DEF Elections
<1>2. CASE UNCHANGED <<role, commander, control>> BY <1>1, <1>2, Quiet DEF Typed
<1>3. CASE ~UNCHANGED <<role, commander, control>>
  <2>1. PICK first \in Members(c), next \in SUBSET Members(c) :
          /\ Ranked(c, {v \in votes[c] : v.period = period[c] - 1 /\ v.candidate \in Members(c)}, first, next)
          /\ role' = [role EXCEPT ![c] = NewRoles(c, first, next)]
          /\ commander' = [commander EXCEPT ![c] = first]
          /\ control' = [p \in Players |->
               IF clanOf[p] = c /\ p \notin next \cup {first} THEN "player" ELSE control[p]]
    BY <1>3 DEF Elections
  <2>2. first \notin next BY <2>1 DEF Ranked
  <2>3. first \in Players BY DEF Members
  <2> DEFINE new == NewRoles(c, first, next)
  <2>4. /\ new \in [Players -> Roles]
        /\ {p \in Players : new[p] = "commander"} = {first}
        /\ \A p \in Players : role[c][p] # "none" => new[p] # "none"
        /\ \A p \in Players : role[c][p] = "none" => new[p] = "none"
        /\ \A p \in next \cup {first} : new[p] \in Officers
    BY <2>2, NewRolesGive
  <2> HIDE DEF new
  <2>5. role'[c] = new /\ \A b \in Clans \ {c} : role'[b] = role[b]
    BY <2>1 DEF Typed, new
  <2>6. commander'[c] = first /\ \A b \in Clans \ {c} : commander'[b] = commander[b]
    BY <2>1 DEF Typed
  <2>7. Typed'
    <3>1. role' \in [Clans -> [Players -> Roles]] BY <2>1, <2>4 DEF Typed, new
    <3>2. commander' \in [Clans -> Players \cup {None}] BY <2>1, <2>3 DEF Typed
    <3>3. control' \in [Players -> {"player", "clan"}] BY <2>1 DEF Typed
    <3> QED BY <1>1, <3>1, <3>2, <3>3 DEF Typed
  <2>8. NoGhosts' BY <1>1, <2>5 DEF Typed, NoGhosts
  <2>9. OneCommander'
    BY <1>1, <2>4, <2>5, <2>6 DEF Typed, Offices, OneCommander
  <2>10. MembersHaveRows'
    BY <1>1, <2>4, <2>5 DEF Typed, Offices, MembersHaveRows
  <2>11. ControlNeedsOffice'
    <3> SUFFICES ASSUME NEW p \in Players, control'[p] = "clan"
                 PROVE  clanOf[p] # None /\ role'[clanOf[p]][p] \in Officers
      BY <1>1 DEF ControlNeedsOffice, IsOfficer
    <3>1. control[p] = "clan" /\ (clanOf[p] = c => p \in next \cup {first}) BY <2>1
    <3>2. clanOf[p] # None /\ role[clanOf[p]][p] \in Officers
      BY <3>1 DEF Offices, ControlNeedsOffice, IsOfficer
    <3> QED BY <2>4, <2>5, <3>1, <3>2 DEF Typed
  <2> QED BY <2>7, <2>8, <2>9, <2>10, <2>11 DEF Offices
<1> QED BY <1>2, <1>3

LEMMA InvStep == Inv /\ [Next]_vars => Inv'
<1> SUFFICES ASSUME Inv, [Next]_vars PROVE Inv' OBVIOUS
<1>1. season \in Nat \ {0} /\ requests \subseteq Clans \X Players BY DEF Inv, Typed
<1>2. CASE UNCHANGED vars BY <1>1, <1>2, Quiet DEF vars, players, clans
<1>3. ASSUME NEW p \in Players, Contribute(p) \/ GainXp(p) PROVE Inv'
  BY <1>1, <1>3, Quiet DEF Contribute, GainXp, players
<1>4. ASSUME NEW p \in Players, NEW c \in Clans, RequestJoin(p, c) PROVE Inv'
  BY <1>1, <1>4, Quiet DEF RequestJoin, players, clans
<1>5. ASSUME NEW o \in Players, NEW p \in Players, NEW c \in Clans, RejectJoin(o, c, p) PROVE Inv'
  BY <1>1, <1>5, Quiet DEF RejectJoin, players, clans
<1>6. ASSUME NEW p \in Players, NEW q \in Players, Vote(p, q) PROVE Inv'
  BY <1>1, <1>6, Quiet DEF Vote, players
<1>7. ASSUME NEW c \in Clans, PeriodEnds(c) \/ GainClanXp(c) PROVE Inv'
  BY <1>1, <1>7, Quiet DEF PeriodEnds, GainClanXp, players, clans
<1>8. CASE CloseSeason \/ StartSeason
  BY <1>1, <1>8, Quiet DEF CloseSeason, StartSeason, players, clans
<1> QED
  BY <1>2, <1>3, <1>4, <1>5, <1>6, <1>7, <1>8,
     JoinSeasonKeeps, ControlKeeps, CreateClanKeeps, AcceptJoinKeeps, ElectionsKeep
  DEF Next

\* Through any elections, joins and seasons, the member with the role of
\* commander is the one the clan's row names (elections of tick.ts).
THEOREM ClansHaveOneCommander == Spec => []OneCommander
<1>1. Inv => OneCommander BY DEF Inv, Offices
<1> QED BY <1>1, InvInit, InvStep, PTL DEF Spec

\* Nobody controls a clan's account without an office in the clan it is in
\* (switchControl of actions.ts, elections of tick.ts).
THEOREM OnlyOfficersControl == Spec => []ControlNeedsOffice
<1>1. Inv => ControlNeedsOffice BY DEF Inv, Offices
<1> QED BY <1>1, InvInit, InvStep, PTL DEF Spec

\* Every player with a clan has its row in clan_members (createClan and
\* respondJoin of actions.ts).
THEOREM ClansCountTheirMembers == Spec => []MembersHaveRows
<1>1. Inv => MembersHaveRows BY DEF Inv, Offices
<1> QED BY <1>1, InvInit, InvStep, PTL DEF Spec

-----------------------------------------------------------------------------
(* Types.                                                                  *)

LEMMA GreaterBounds ==
  ASSUME NEW m \in 0..MaxXp, NEW n \in 0..MaxXp
  PROVE  Greater(m, n) \in 0..MaxXp /\ m <= Greater(m, n) /\ n <= Greater(m, n)
BY LimitsAssumption DEF Greater

LEMMA BroughtTyped == Brought \subseteq 0..MaxWeight BY LimitsAssumption DEF Brought

LEMMA TypeInit == Init => TypeOK
<1> SUFFICES ASSUME Init PROVE TypeOK OBVIOUS
<1>0. closed \in BOOLEAN /\ quit \in [Players -> BOOLEAN] BY Zenon DEF Init
<1>1. /\ season \in 1..MaxSeasons /\ joined \in [Players -> 0..MaxSeasons]
      /\ clanOf \in [Players -> Clans \cup {None}]
      /\ control \in [Players -> {"player", "clan"}]
  BY LimitsAssumption DEF Init
<1>2. /\ xp \in [Players -> 0..MaxXp] /\ clanXp \in [Clans -> 0..MaxXp]
      /\ founded \in [Clans -> 0..MaxSeasons]
      /\ commander \in [Clans -> Players \cup {None}]
  BY LimitsAssumption DEF Init
<1>3. role \in [Clans -> [Players -> Roles]] BY DEF Init, Roles
<1>4. weight \in [Clans -> [Players -> 0..MaxWeight]]
  <2>1. [p \in Players |-> 0] \in [Players -> 0..MaxWeight] BY LimitsAssumption
  <2> QED BY <2>1 DEF Init
<1>5. /\ requests \subseteq Clans \X Players /\ votes \in [Clans -> SUBSET Ballots]
      /\ period \in [Clans -> 0..MaxPeriod] /\ tallied \in [Clans -> 0..MaxPeriod]
  BY LimitsAssumption DEF Init
<1> QED BY <1>0, <1>1, <1>2, <1>3, <1>4, <1>5 DEF TypeOK

\* Joining and leaving a season, and the season itself.
LEMMA SeasonTyped ==
  ASSUME TypeOK,
         (\E p \in Players : JoinSeason(p) \/ QuitSeason(p)) \/ CloseSeason \/ StartSeason
  PROVE  TypeOK'
<1>1. ASSUME NEW p \in Players, JoinSeason(p) PROVE TypeOK'
  <2>1. joined' \in [Players -> 0..MaxSeasons] /\ xp' \in [Players -> 0..MaxXp]
    BY <1>1, LimitsAssumption DEF JoinSeason, TypeOK
  <2> QED BY <1>1, <2>1 DEF JoinSeason, clans, TypeOK
<1>2. ASSUME NEW p \in Players, QuitSeason(p) PROVE TypeOK'
  BY <1>2, LimitsAssumption DEF QuitSeason, clans, TypeOK
<1>3. CASE CloseSeason BY <1>3 DEF CloseSeason, players, clans, TypeOK
<1>4. CASE StartSeason
  <2>1. season' \in 1..MaxSeasons BY <1>4, LimitsAssumption DEF StartSeason, TypeOK
  <2> QED BY <1>4, <2>1 DEF StartSeason, players, clans, TypeOK
<1> QED BY <1>1, <1>2, <1>3, <1>4

\* Founding a clan, requests and contributions.
LEMMA MembersTyped ==
  ASSUME TypeOK, NEW p \in Players,
         \/ Contribute(p)
         \/ \E c \in Clans : CreateClan(p, c) \/ RequestJoin(p, c)
         \/ \E o \in Players, c \in Clans : AcceptJoin(o, c, p) \/ RejectJoin(o, c, p)
  PROVE  TypeOK'
<1>1. ASSUME NEW c \in Clans, CreateClan(p, c) PROVE TypeOK'
  <2>1. PICK w \in Brought : weight' = [weight EXCEPT ![c][p] = w] BY <1>1 DEF CreateClan
  <2>2. weight' \in [Clans -> [Players -> 0..MaxWeight]] BY <2>1, BroughtTyped DEF TypeOK
  <2>3. /\ founded' \in [Clans -> 0..MaxSeasons] /\ clanXp' \in [Clans -> 0..MaxXp]
        /\ commander' \in [Clans -> Players \cup {None}]
        /\ clanOf' \in [Players -> Clans \cup {None}]
    BY <1>1, LimitsAssumption DEF CreateClan, TypeOK
  <2>4. role' \in [Clans -> [Players -> Roles]] BY <1>1 DEF CreateClan, TypeOK, Roles
  <2> QED BY <1>1, <2>2, <2>3, <2>4 DEF CreateClan, TypeOK
<1>2. ASSUME NEW o \in Players, NEW c \in Clans, AcceptJoin(o, c, p) PROVE TypeOK'
  <2>1. PICK w \in Brought : weight' = [weight EXCEPT ![c][p] = w] BY <1>2 DEF AcceptJoin
  <2>2. weight' \in [Clans -> [Players -> 0..MaxWeight]] BY <2>1, BroughtTyped DEF TypeOK
  <2>3. clanXp' \in [Clans -> 0..MaxXp]
    <3>1. clanXp' = [clanXp EXCEPT ![c] = Greater(clanXp[c], xp[p])] BY <1>2 DEF AcceptJoin
    <3>2. Greater(clanXp[c], xp[p]) \in 0..MaxXp
      <4>1. clanXp[c] \in 0..MaxXp /\ xp[p] \in 0..MaxXp BY DEF TypeOK
      <4> QED BY <4>1, GreaterBounds
    <3> QED BY <3>1, <3>2 DEF TypeOK
  <2>4. role' \in [Clans -> [Players -> Roles]] BY <1>2 DEF AcceptJoin, TypeOK, Roles
  <2> QED BY <1>2, <2>2, <2>3, <2>4 DEF AcceptJoin, TypeOK
<1>3. ASSUME NEW c \in Clans, RequestJoin(p, c) PROVE TypeOK'
  BY <1>3 DEF RequestJoin, players, clans, TypeOK
<1>4. ASSUME NEW o \in Players, NEW c \in Clans, RejectJoin(o, c, p) PROVE TypeOK'
  BY <1>4 DEF RejectJoin, players, clans, TypeOK
<1>5. CASE Contribute(p)
  <2>1. clanOf[p] \in Clans BY <1>5 DEF Contribute, TypeOK
  <2>2. weight[clanOf[p]][p] + 1 \in 0..MaxWeight
    BY <1>5, <2>1, LimitsAssumption DEF Contribute, TypeOK
  <2>3. weight' \in [Clans -> [Players -> 0..MaxWeight]] BY <1>5, <2>1, <2>2 DEF Contribute, TypeOK
  <2> QED BY <1>5, <2>3 DEF Contribute, players, TypeOK
<1> QED BY <1>1, <1>2, <1>3, <1>4, <1>5

\* Control, votes and experience.
LEMMA PlayTyped ==
  ASSUME TypeOK, NEW p \in Players,
         \/ GainXp(p)
         \/ \E to \in {"player", "clan"} : SwitchControl(p, to)
         \/ \E q \in Players : Vote(p, q)
  PROVE  TypeOK'
<1>1. CASE GainXp(p)
  <2>1. xp[p] + 1 \in 0..MaxXp BY <1>1, LimitsAssumption DEF GainXp, TypeOK
  <2>2. xp' \in [Players -> 0..MaxXp] BY <1>1, <2>1 DEF GainXp, TypeOK
  <2>3. clanXp' \in [Clans -> 0..MaxXp]
    <3>1. CASE clanOf[p] = None BY <1>1, <3>1 DEF GainXp, TypeOK
    <3>2. CASE clanOf[p] # None
      <4>1. clanOf[p] \in Clans BY <3>2 DEF TypeOK
      <4>2. Greater(clanXp[clanOf[p]], xp[p] + 1) \in 0..MaxXp
        <5>1. clanXp[clanOf[p]] \in 0..MaxXp BY <4>1 DEF TypeOK
        <5> QED BY <2>1, <5>1, GreaterBounds
      <4>3. clanXp' = [clanXp EXCEPT ![clanOf[p]] = Greater(clanXp[clanOf[p]], xp[p] + 1)]
        BY <1>1, <3>2 DEF GainXp
      <4> QED BY <4>2, <4>3 DEF TypeOK
    <3> QED BY <3>1, <3>2
  <2> QED BY <1>1, <2>2, <2>3 DEF GainXp, TypeOK
<1>2. ASSUME NEW to \in {"player", "clan"}, SwitchControl(p, to) PROVE TypeOK'
  BY <1>2 DEF SwitchControl, clans, TypeOK
<1>3. ASSUME NEW q \in Players, Vote(p, q) PROVE TypeOK'
  <2> DEFINE c == clanOf[p]
             ballot == [voter |-> p, candidate |-> q, period |-> period[c]]
  <2>1. c \in Clans BY <1>3 DEF Vote, TypeOK
  <2>2. ballot \in Ballots BY <2>1 DEF TypeOK, Ballots
  <2>3. votes' = [votes EXCEPT ![c] = {v \in @ : v.voter # p \/ v.period # period[c]} \cup {ballot}]
    BY <1>3 DEF Vote
  <2> HIDE DEF ballot, c
  <2>4. {v \in votes[c] : v.voter # p \/ v.period # period[c]} \cup {ballot} \in SUBSET Ballots
    BY <2>1, <2>2 DEF TypeOK
  <2>5. votes' \in [Clans -> SUBSET Ballots] BY <2>1, <2>3, <2>4 DEF TypeOK
  <2> QED BY <1>3, <2>5 DEF Vote, players, TypeOK
<1> QED BY <1>1, <1>2, <1>3

\* The engine.
LEMMA EngineTyped ==
  ASSUME TypeOK, NEW c \in Clans, PeriodEnds(c) \/ Elections(c) \/ GainClanXp(c)
  PROVE  TypeOK'
<1>1. CASE PeriodEnds(c)
  <2>1. period' \in [Clans -> 0..MaxPeriod] BY <1>1, LimitsAssumption DEF PeriodEnds, TypeOK
  <2> QED BY <1>1, <2>1 DEF PeriodEnds, players, clans, TypeOK
<1>2. CASE GainClanXp(c)
  <2>1. clanXp' \in [Clans -> 0..MaxXp] BY <1>2, LimitsAssumption DEF GainClanXp, TypeOK
  <2> QED BY <1>2, <2>1 DEF GainClanXp, players, TypeOK
<1>3. CASE Elections(c)
  <2>1. tallied' \in [Clans -> 0..MaxPeriod] BY <1>3 DEF Elections, TypeOK
  <2>2. votes' \in [Clans -> SUBSET Ballots]
    <3>1. {v \in votes[c] : v.period >= period[c]} \in SUBSET Ballots BY DEF TypeOK
    <3>2. votes' = [votes EXCEPT ![c] = {v \in votes[c] : v.period >= period[c]}] BY <1>3 DEF Elections
    <3> QED BY <3>1, <3>2 DEF TypeOK
  <2>3. /\ role' \in [Clans -> [Players -> Roles]] /\ commander' \in [Clans -> Players \cup {None}]
        /\ control' \in [Players -> {"player", "clan"}]
    <3>1. CASE UNCHANGED <<role, commander, control>> BY <3>1 DEF TypeOK
    <3>2. ASSUME NEW first \in Members(c), NEW next \in SUBSET Members(c),
                 role' = [role EXCEPT ![c] = NewRoles(c, first, next)],
                 commander' = [commander EXCEPT ![c] = first],
                 control' = [p \in Players |->
                   IF clanOf[p] = c /\ p \notin next \cup {first} THEN "player" ELSE control[p]]
          PROVE  /\ role' \in [Clans -> [Players -> Roles]]
                 /\ commander' \in [Clans -> Players \cup {None}]
                 /\ control' \in [Players -> {"player", "clan"}]
      <4>1. NewRoles(c, first, next) \in [Players -> Roles] BY DEF NewRoles, Roles
      <4>2. first \in Players BY DEF Members
      <4> QED BY <3>2, <4>1, <4>2 DEF TypeOK
    <3> QED BY <1>3, <3>1, <3>2 DEF Elections
  <2> QED BY <1>3, <2>1, <2>2, <2>3 DEF Elections, TypeOK
<1> QED BY <1>1, <1>2, <1>3

LEMMA TypeStep == TypeOK /\ [Next]_vars => TypeOK'
<1>1. ASSUME UNCHANGED vars, TypeOK PROVE TypeOK' BY <1>1 DEF vars, players, clans, TypeOK
<1> QED BY <1>1, SeasonTyped, MembersTyped, PlayTyped, EngineTyped DEF Next

\* Rows of clans, members, votes and requests keep their types through any
\* elections and seasons.
THEOREM TypeCorrect == Spec => []TypeOK
BY TypeInit, TypeStep, PTL DEF Spec

-----------------------------------------------------------------------------
(* Experience, requests, leaving and the number of elders.                 *)

\* Who sits in a clan is in its table, so a clan founded now has no member
\* yet whose experience it could be behind.
LEMMA XpStep ==
  ASSUME TypeOK, Inv, ClanXpDominates, [Next]_vars
  PROVE  ClanXpDominates'
<1> SUFFICES ASSUME NEW q \in Players, clanOf'[q] # None PROVE xp'[q] <= clanXp'[clanOf'[q]]
  BY DEF ClanXpDominates
<1>1. ASSUME UNCHANGED <<clanOf, xp, clanXp>> PROVE xp'[q] <= clanXp'[clanOf'[q]]
  BY <1>1 DEF ClanXpDominates
<1>2. clanOf[q] # None => clanOf[q] \in Clans /\ clanXp[clanOf[q]] \in 0..MaxXp
  BY DEF TypeOK
<1>3. ASSUME NEW p \in Players, JoinSeason(p) \/ QuitSeason(p) PROVE xp'[q] <= clanXp'[clanOf'[q]]
  <2>1. clanXp' = clanXp /\ clanOf'[p] = None BY <1>3 DEF JoinSeason, QuitSeason, clans, TypeOK
  <2>2. q # p BY <2>1
  <2>3. xp'[q] = xp[q] /\ clanOf'[q] = clanOf[q]
    BY <1>3, <2>2 DEF JoinSeason, QuitSeason, TypeOK
  <2> QED BY <2>1, <2>3 DEF ClanXpDominates
<1>4. ASSUME NEW p \in Players, GainXp(p) PROVE xp'[q] <= clanXp'[clanOf'[q]]
  <2>1. clanOf' = clanOf /\ clanOf[q] \in Clans BY <1>2, <1>4 DEF GainXp
  <2>2. xp[p] + 1 \in 0..MaxXp /\ xp' = [xp EXCEPT ![p] = xp[p] + 1]
    BY <1>4, LimitsAssumption DEF GainXp, TypeOK
  <2>3. CASE clanOf[p] = clanOf[q]
    <3>1. clanXp'[clanOf[q]] = Greater(clanXp[clanOf[q]], xp[p] + 1)
      BY <1>4, <2>1, <2>3 DEF GainXp, TypeOK
    <3>2. clanXp[clanOf[q]] <= clanXp'[clanOf[q]] /\ xp[p] + 1 <= clanXp'[clanOf[q]]
      BY <1>2, <2>1, <2>2, <3>1, GreaterBounds
    <3>3. xp[q] <= clanXp[clanOf[q]] BY <2>1 DEF ClanXpDominates
    <3>4. clanXp'[clanOf[q]] \in 0..MaxXp BY <1>2, <2>1, <2>2, <3>1, GreaterBounds
    <3>5. xp[q] \in 0..MaxXp BY DEF TypeOK
    <3>6. CASE q = p BY <2>1, <2>2, <3>2, <3>6 DEF TypeOK
    <3>7. CASE q # p
      <4>1. xp'[q] = xp[q] BY <2>2, <3>7 DEF TypeOK
      <4> QED BY <1>2, <2>1, <3>2, <3>3, <3>4, <3>5, <4>1
    <3> QED BY <3>6, <3>7
  <2>4. CASE clanOf[p] # clanOf[q]
    <3>1. xp'[q] = xp[q] /\ clanXp'[clanOf[q]] = clanXp[clanOf[q]]
      BY <1>4, <2>1, <2>4 DEF GainXp, TypeOK
    <3> QED BY <2>1, <3>1 DEF ClanXpDominates
  <2> QED BY <2>3, <2>4
<1>5. ASSUME NEW p \in Players, NEW c \in Clans, CreateClan(p, c) PROVE xp'[q] <= clanXp'[clanOf'[q]]
  <2>1. /\ xp' = xp /\ clanXp' = [clanXp EXCEPT ![c] = xp[p]]
        /\ clanOf' = [clanOf EXCEPT ![p] = c] /\ founded[c] = 0
    BY <1>5 DEF CreateClan
  <2>2. CASE q = p
    <3>1. clanOf'[q] = c /\ clanXp'[c] = xp[q] /\ xp[q] \in 0..MaxXp BY <2>1, <2>2 DEF TypeOK
    <3> QED BY <2>1, <3>1
  <2>3. CASE q # p
    <3>1. clanOf'[q] = clanOf[q] BY <2>1, <2>3 DEF TypeOK
    <3>2. clanOf[q] # c BY <2>1, <3>1 DEF Inv, NoGhosts, Offices, MembersHaveRows
    <3>3. clanXp'[clanOf[q]] = clanXp[clanOf[q]] BY <1>2, <2>1, <3>1, <3>2 DEF TypeOK
    <3> QED BY <2>1, <3>1, <3>3 DEF ClanXpDominates
  <2> QED BY <2>2, <2>3
<1>6. ASSUME NEW o \in Players, NEW p \in Players, NEW c \in Clans, AcceptJoin(o, c, p)
      PROVE xp'[q] <= clanXp'[clanOf'[q]]
  <2>1. /\ xp' = xp /\ clanXp' = [clanXp EXCEPT ![c] = Greater(clanXp[c], xp[p])]
        /\ clanOf' = [clanOf EXCEPT ![p] = c]
    BY <1>6 DEF AcceptJoin
  <2>2. /\ clanXp[c] \in 0..MaxXp /\ xp[p] \in 0..MaxXp /\ xp[q] \in 0..MaxXp
        /\ clanXp'[c] = Greater(clanXp[c], xp[p])
    BY <2>1 DEF TypeOK
  <2>3. clanXp'[c] \in 0..MaxXp /\ clanXp[c] <= clanXp'[c] /\ xp[p] <= clanXp'[c]
    BY <2>2, GreaterBounds
  <2>4. CASE q = p BY <2>1, <2>3, <2>4 DEF TypeOK
  <2>5. CASE q # p
    <3>1. clanOf'[q] = clanOf[q] BY <2>1, <2>5 DEF TypeOK
    <3>2. xp[q] <= clanXp[clanOf[q]] BY <3>1 DEF ClanXpDominates
    <3>3. CASE clanOf[q] = c BY <2>1, <2>2, <2>3, <3>1, <3>2, <3>3
    <3>4. CASE clanOf[q] # c
      <4>1. clanXp'[clanOf[q]] = clanXp[clanOf[q]] BY <1>2, <2>1, <3>1, <3>4 DEF TypeOK
      <4> QED BY <2>1, <3>1, <3>2, <4>1
    <3> QED BY <3>3, <3>4
  <2> QED BY <2>4, <2>5
<1>7. ASSUME NEW c \in Clans, GainClanXp(c) PROVE xp'[q] <= clanXp'[clanOf'[q]]
  <2>1. clanOf' = clanOf /\ xp' = xp /\ clanXp' = [clanXp EXCEPT ![c] = clanXp[c] + 1]
    BY <1>7 DEF GainClanXp, players
  <2>2. xp[q] <= clanXp[clanOf[q]] /\ xp[q] \in 0..MaxXp BY <2>1 DEF ClanXpDominates, TypeOK
  <2>3. clanXp'[clanOf[q]] = clanXp[clanOf[q]] \/ clanXp'[clanOf[q]] = clanXp[clanOf[q]] + 1
    BY <1>2, <2>1 DEF TypeOK
  <2> QED BY <1>2, <2>1, <2>2, <2>3
<1>8. ASSUME NEW c \in Clans, PeriodEnds(c) \/ Elections(c) PROVE xp'[q] <= clanXp'[clanOf'[q]]
  BY <1>1, <1>8 DEF PeriodEnds, Elections, players, clans
<1>9. ASSUME NEW p \in Players, NEW c \in Clans, RequestJoin(p, c) PROVE xp'[q] <= clanXp'[clanOf'[q]]
  BY <1>1, <1>9 DEF RequestJoin, players, clans
<1>10. ASSUME NEW p \in Players, Contribute(p) \/ (\E to \in {"player", "clan"} : SwitchControl(p, to))
              \/ \E r \in Players : Vote(p, r)
       PROVE  xp'[q] <= clanXp'[clanOf'[q]]
  BY <1>1, <1>10 DEF Contribute, SwitchControl, Vote, players, clans
<1>11. ASSUME NEW o \in Players, NEW p \in Players, NEW c \in Clans, RejectJoin(o, c, p)
       PROVE  xp'[q] <= clanXp'[clanOf'[q]]
  BY <1>1, <1>11 DEF RejectJoin, players, clans
<1>12. ASSUME CloseSeason \/ StartSeason \/ UNCHANGED vars PROVE xp'[q] <= clanXp'[clanOf'[q]]
  BY <1>1, <1>12 DEF CloseSeason, StartSeason, vars, players, clans
<1> QED
  BY <1>3, <1>4, <1>5, <1>6, <1>7, <1>8, <1>9, <1>10, <1>11, <1>12 DEF Next

\* A clan is never behind a member in experience, through founding, joining,
\* moves of both and new seasons (addXp of tick.ts, respondJoin of actions.ts).
THEOREM ClansLeadInXp == Spec => []ClanXpDominates
<1>1. Init => ClanXpDominates BY DEF Init, ClanXpDominates
<1> QED BY <1>1, TypeInit, TypeStep, InvInit, InvStep, XpStep, PTL DEF Spec

\* Requests only go to clans that have been founded, and no clan is deleted.
RequestsToClans == \A r \in requests : founded[r[1]] # 0

LEMMA RequestsStep ==
  ASSUME Inv, RequestsToClans, [Next]_vars
  PROVE  RequestsToClans'
<1>1. season # 0 /\ requests \subseteq Clans \X Players /\ founded \in [Clans -> Nat] /\ season \in Nat
  BY DEF Inv, Typed
<1>2. ASSUME requests' \subseteq requests, founded' = founded PROVE RequestsToClans'
  BY <1>2 DEF RequestsToClans
<1>3. ASSUME NEW p \in Players, NEW c \in Clans, RequestJoin(p, c) PROVE RequestsToClans'
  <2>1. requests' = requests \cup {<<c, p>>} /\ founded' = founded /\ founded[c] = season
    BY <1>3 DEF RequestJoin, clans
  <2> QED BY <1>1, <2>1 DEF RequestsToClans
<1>4. ASSUME NEW p \in Players, NEW c \in Clans, CreateClan(p, c) PROVE RequestsToClans'
  <2>1. requests' = requests /\ founded' = [founded EXCEPT ![c] = season] BY <1>4 DEF CreateClan
  <2> QED BY <1>1, <2>1 DEF RequestsToClans
<1>5. ASSUME NEW o \in Players, NEW p \in Players, NEW c \in Clans, AcceptJoin(o, c, p) \/ RejectJoin(o, c, p)
      PROVE  RequestsToClans'
  BY <1>2, <1>5 DEF AcceptJoin, RejectJoin, clans
<1>6. ASSUME NEW p \in Players, JoinSeason(p) \/ QuitSeason(p) \/ Contribute(p) \/ GainXp(p)
             \/ (\E to \in {"player", "clan"} : SwitchControl(p, to)) \/ \E q \in Players : Vote(p, q)
      PROVE  RequestsToClans'
  BY <1>2, <1>6 DEF JoinSeason, QuitSeason, Contribute, GainXp, SwitchControl, Vote, clans
<1>7. ASSUME NEW c \in Clans, PeriodEnds(c) \/ Elections(c) \/ GainClanXp(c) PROVE RequestsToClans'
  BY <1>2, <1>7 DEF PeriodEnds, Elections, GainClanXp, clans
<1>8. ASSUME CloseSeason \/ StartSeason \/ UNCHANGED vars PROVE RequestsToClans'
  BY <1>2, <1>8 DEF CloseSeason, StartSeason, vars, clans
<1> QED BY <1>3, <1>4, <1>5, <1>6, <1>7, <1>8 DEF Next

\* Somebody can answer every open request: the commander of a founded clan
\* keeps a row (respondJoin of actions.ts, elections of tick.ts).
THEOREM RequestsCanBeAnswered == Spec => []RequestsAnswerable
<1>1. Init => RequestsToClans BY DEF Init, RequestsToClans
<1>2. Inv /\ RequestsToClans => RequestsAnswerable
  <2> SUFFICES ASSUME Inv, RequestsToClans, NEW r \in requests
               PROVE  \E o \in Players : IsOfficer(o, r[1])
    BY DEF RequestsAnswerable
  <2>1. r[1] \in Clans /\ founded[r[1]] # 0 BY DEF Inv, Typed, RequestsToClans
  <2>2. {p \in Players : role[r[1]][p] = "commander"} = {commander[r[1]]}
    BY <2>1 DEF Inv, Offices, OneCommander
  <2>3. commander[r[1]] \in Players /\ role[r[1]][commander[r[1]]] = "commander" BY <2>2
  <2> QED BY <2>3 DEF IsOfficer, Officers
<1> QED BY <1>1, <1>2, InvInit, InvStep, RequestsStep, PTL DEF Spec

\* A player who has joined the season keeps its clan for as long as it lasts:
\* auth of routes.ts never lets such a player join a second time.
THEOREM MembersStay == Spec => NoOneLeaves
<1> DEFINE Stays == \A p \in Players :
      clanOf[p] # None /\ founded[clanOf[p]] = season' /\ joined[p] = season' => clanOf'[p] = clanOf[p]
<1>1. ASSUME Inv, [Next]_vars PROVE [Stays]_vars
  <2> SUFFICES ASSUME NEW q \in Players, clanOf[q] # None, joined[q] = season'
               PROVE  clanOf'[q] = clanOf[q]
    OBVIOUS
  <2>1. clanOf \in [Players -> Clans \cup {None}] BY <1>1 DEF Inv, Typed
  <2>2. ASSUME clanOf' = clanOf PROVE clanOf'[q] = clanOf[q] BY <2>2
  <2>3. ASSUME NEW p \in Players, JoinSeason(p) PROVE clanOf'[q] = clanOf[q]
    <3>1. q # p BY <2>3 DEF JoinSeason, Authed
    <3> QED BY <2>1, <2>3, <3>1 DEF JoinSeason
  <2>4. ASSUME NEW p \in Players, NEW c \in Clans, CreateClan(p, c) PROVE clanOf'[q] = clanOf[q]
    BY <2>1, <2>4 DEF CreateClan
  <2>5. ASSUME NEW o \in Players, NEW p \in Players, NEW c \in Clans, AcceptJoin(o, c, p)
        PROVE  clanOf'[q] = clanOf[q]
    BY <2>1, <2>5 DEF AcceptJoin
  <2>6. ASSUME NEW p \in Players, QuitSeason(p) \/ Contribute(p) \/ GainXp(p)
               \/ (\E to \in {"player", "clan"} : SwitchControl(p, to)) \/ \E r \in Players : Vote(p, r)
        PROVE  clanOf'[q] = clanOf[q]
    BY <2>6 DEF QuitSeason, Contribute, GainXp, SwitchControl, Vote, players
  <2>7. ASSUME NEW p \in Players, NEW c \in Clans,
               RequestJoin(p, c) \/ \E o \in Players : RejectJoin(o, c, p)
        PROVE  clanOf'[q] = clanOf[q]
    BY <2>7 DEF RequestJoin, RejectJoin, players
  <2>8. ASSUME NEW c \in Clans, PeriodEnds(c) \/ Elections(c) \/ GainClanXp(c)
        PROVE  clanOf'[q] = clanOf[q]
    BY <2>8 DEF PeriodEnds, Elections, GainClanXp, players
  <2>9. ASSUME CloseSeason \/ StartSeason \/ UNCHANGED vars PROVE clanOf'[q] = clanOf[q]
    BY <2>9 DEF CloseSeason, StartSeason, vars, players
  <2> QED BY <1>1, <2>3, <2>4, <2>5, <2>6, <2>7, <2>8, <2>9 DEF Next
<1> QED BY <1>1, InvInit, InvStep, PTL DEF Spec, NoOneLeaves

Elders(c) == {p \in Players : role[c][p] = "elder"}

LEMMA MembersFinite ==
  \A c \in Clans : /\ IsFiniteSet(Members(c)) /\ Cardinality(Members(c)) \in Nat
                    /\ IsFiniteSet(Members(c)') /\ Cardinality(Members(c)') \in Nat
BY FiniteAssumption, FS_Subset, FS_CardinalityType DEF Members

LEMMA ElderCountGrows ==
  ASSUME NEW m \in Nat, NEW n \in Nat, m <= n
  PROVE  ElderCount(m) \in Nat /\ ElderCount(n) \in Nat /\ ElderCount(m) <= ElderCount(n)
BY DEF ElderCount

LEMMA QuotaStep ==
  ASSUME Inv, ElderQuota, [Next]_vars
  PROVE  ElderQuota'
<1> SUFFICES ASSUME NEW c \in Clans
             PROVE  Cardinality(Elders(c)') <= ElderCount(Cardinality(Members(c)'))
  BY DEF ElderQuota, Elders
<1> DEFINE Goal == Cardinality(Elders(c)') <= ElderCount(Cardinality(Members(c)'))
<1>0. role \in [Clans -> [Players -> Roles]] BY DEF Inv, Typed
<1>1. ASSUME role'[c] = role[c] PROVE Goal
  <2>1. Elders(c)' = Elders(c) /\ Members(c)' = Members(c) BY <1>1 DEF Elders, Members
  <2> QED BY <2>1 DEF ElderQuota, Elders
<1>2. ASSUME role' = role PROVE Goal BY <1>1, <1>2
<1>3. ASSUME NEW p \in Players, NEW b \in Clans, CreateClan(p, b) PROVE Goal
  <2>1. role' = [role EXCEPT ![b][p] = "commander"] /\ founded[b] = 0 BY <1>3 DEF CreateClan
  <2>2. CASE b = c
    <3>1. \A q \in Players : role'[c][q] # "elder"
      BY <1>0, <2>1, <2>2 DEF Inv, NoGhosts
    <3>2. Elders(c)' = {} BY <3>1 DEF Elders
    <3>3. ElderCount(Cardinality(Members(c)')) \in Nat BY MembersFinite, ElderCountGrows
    <3> QED BY <3>2, <3>3, FS_EmptySet
  <2>3. CASE b # c BY <1>0, <1>1, <2>1, <2>3
  <2> QED BY <2>2, <2>3
<1>4. ASSUME NEW o \in Players, NEW p \in Players, NEW b \in Clans, AcceptJoin(o, b, p) PROVE Goal
  <2>1. role' = [role EXCEPT ![b][p] = "member"] /\ role[b][p] = "none" BY <1>4 DEF AcceptJoin
  <2>2. CASE b = c
    <3>1. \A q \in Players : role'[c][q] = IF q = p THEN "member" ELSE role[c][q]
      BY <1>0, <2>1, <2>2
    <3>2. Elders(c)' = Elders(c) BY <2>1, <2>2, <3>1 DEF Elders
    <3>3. Members(c) \subseteq Members(c)' BY <3>1 DEF Members
    <3>4. Cardinality(Members(c)) <= Cardinality(Members(c)') BY <3>3, MembersFinite, FS_Subset
    <3>5. ElderCount(Cardinality(Members(c))) <= ElderCount(Cardinality(Members(c)'))
      BY <3>4, MembersFinite, ElderCountGrows
    <3>6. /\ ElderCount(Cardinality(Members(c))) \in Nat /\ ElderCount(Cardinality(Members(c)')) \in Nat
      BY MembersFinite, ElderCountGrows
    <3>7. Cardinality(Elders(c)) \in Nat
      BY FiniteAssumption, FS_Subset, FS_CardinalityType DEF Elders
    <3>8. Cardinality(Elders(c)) <= ElderCount(Cardinality(Members(c))) BY DEF ElderQuota, Elders
    <3> QED BY <3>2, <3>5, <3>6, <3>7, <3>8
  <2>3. CASE b # c BY <1>0, <1>1, <2>1, <2>3
  <2> QED BY <2>2, <2>3
<1>5. ASSUME NEW b \in Clans, Elections(b) PROVE Goal
  <2>1. CASE role' = role BY <1>2, <2>1
  <2>2. CASE role' # role
    <3> DEFINE cast == {v \in votes[b] : v.period = period[b] - 1 /\ v.candidate \in Members(b)}
               candidates == {v.candidate : v \in cast}
               quota == ElderCount(Cardinality(Members(b)))
               k == Cardinality(candidates)
    <3>1. PICK first \in Members(b), next \in SUBSET Members(b) :
            Ranked(b, cast, first, next) /\ role' = [role EXCEPT ![b] = NewRoles(b, first, next)]
      BY <1>5, <2>2 DEF Elections
    <3>2. CASE b # c BY <1>0, <1>1, <3>1, <3>2
    <3>3. CASE b = c
      <4>1. role'[c] = NewRoles(c, first, next) BY <1>0, <3>1, <3>3
      <4>2. first \notin next BY <3>1 DEF Ranked
      <4>3. Elders(c)' = next /\ Members(c)' = Members(c)
        BY <3>3, <4>1, <4>2 DEF Elders, Members, NewRoles
      <4>4. k \in Nat
        <5>1. candidates \subseteq Members(b) OBVIOUS
        <5> QED BY <5>1, MembersFinite, FS_Subset, FS_CardinalityType
      <4>5. quota \in Nat BY MembersFinite, ElderCountGrows
      <4>6. Cardinality(next) = IF k - 1 < quota THEN k - 1 ELSE quota BY <3>1 DEF Ranked
      <4>7. Cardinality(next) <= quota
        <5> HIDE DEF k, quota
        <5> QED BY <4>4, <4>5, <4>6
      <4> QED BY <3>3, <4>3, <4>7
    <3> QED BY <3>2, <3>3
  <2> QED BY <2>1, <2>2
<1>6. ASSUME NEW p \in Players, JoinSeason(p) \/ QuitSeason(p) \/ Contribute(p) \/ GainXp(p)
             \/ (\E to \in {"player", "clan"} : SwitchControl(p, to)) \/ \E q \in Players : Vote(p, q)
      PROVE  Goal
  BY <1>2, <1>6 DEF JoinSeason, QuitSeason, Contribute, GainXp, SwitchControl, Vote, clans
<1>7. ASSUME NEW p \in Players, NEW b \in Clans,
             RequestJoin(p, b) \/ \E o \in Players : RejectJoin(o, b, p)
      PROVE  Goal
  BY <1>2, <1>7 DEF RequestJoin, RejectJoin, clans
<1>8. ASSUME NEW b \in Clans, PeriodEnds(b) \/ GainClanXp(b) PROVE Goal
  BY <1>2, <1>8 DEF PeriodEnds, GainClanXp, clans
<1>9. ASSUME CloseSeason \/ StartSeason \/ UNCHANGED vars PROVE Goal
  BY <1>2, <1>9 DEF CloseSeason, StartSeason, vars, clans
<1> QED BY <1>3, <1>4, <1>5, <1>6, <1>7, <1>8, <1>9 DEF Next

\* No clan has more elders than its size allows, however it grows between
\* elections (elderCount and elections of tick.ts).
THEOREM EldersWithinQuota == Spec => []ElderQuota
<1>1. Init => ElderQuota
  <2> SUFFICES ASSUME Init, NEW c \in Clans PROVE Cardinality(Elders(c)) <= ElderCount(Cardinality(Members(c)))
    BY DEF ElderQuota, Elders
  <2>1. Elders(c) = {} BY DEF Init, Elders
  <2>2. ElderCount(Cardinality(Members(c))) \in Nat BY MembersFinite, ElderCountGrows
  <2> QED BY <2>1, <2>2, FS_EmptySet
<1> QED BY <1>1, InvInit, InvStep, QuotaStep, PTL DEF Spec

=============================================================================
