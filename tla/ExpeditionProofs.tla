-------------------------- MODULE ExpeditionProofs --------------------------
(***************************************************************************)
(* Proofs about Expedition for any set of players, clans and tiles: type   *)
(* correctness, no orphan lock, and the exclusion the locks provide; then  *)
(* where armies stand, how routes lead from there, what became of the      *)
(* units, and that all of it implements the abstract rules of land in      *)
(* Territory.                                                              *)
(*                                                                         *)
(* What holds of a group without leftover rows rests on one lemma, Keeps:  *)
(* no step takes land from it but its own player's leaving, and no step    *)
(* makes it such a group.                                                  *)
(***************************************************************************)
EXTENDS Expedition, FiniteSetTheorems, TLAPS

\* Whether the server is up or not, a caravan's next tile (camp tiles apart)
\* is free or its own group's; Reserved says nothing while the server is down.
TargetOpen ==
  Exact => \A a \in Actors : Whole(a) /\ Moving(a) /\ Head(route[a]) \notin CampTiles =>
    owner[Head(route[a])] = None \/ Head(route[a]) \in Own(a)

\* Free units are part of those ever given: purchases stay within the bound.
UnitsBounded == \A a \in Actors : units[a] <= bought[a]

Typed == TypeOK /\ UnitsBounded

\* What the rows of players say of one another: a member has its row in
\* clan_members; a player of an earlier season has no land in this one; only
\* players in the season are on the way; the server is down after a crash only.
Enrolled ==
  /\ \A p \in Players : member[p] # None => p \in rows[member[p]]
  /\ \A p \in Players : status[p] = "new" => \A t \in Tiles : owner[t] # p
  /\ \A p \in Players : Moving(p) => status[p] = "in"
  /\ up \/ crashes > 0

Base == Typed /\ Enrolled

IInv == Base /\ NoOrphanLock /\ TargetOpen /\ OneCaravanPerTile /\ Reserved

-----------------------------------------------------------------------------
(* Type correctness.                                                       *)

\* A path the planner returns is a non-empty sequence of at most MaxPath tiles.
LEMMA PathType ==
  ASSUME NEW s \in AllPaths
  PROVE  /\ s \in Seq(Tiles) /\ s # <<>> /\ Len(s) <= MaxPath /\ Len(s) \in Nat
         /\ Head(s) = s[1] /\ s[1] \in Tiles
<1>1. PICK n \in 1..MaxPath : s \in [1..n -> Tiles]
  BY DEF AllPaths
<1>2. n \in Nat /\ n >= 1 /\ n <= MaxPath
  BY <1>1, BoundsAssumption
<1>3. s \in Seq(Tiles) /\ Len(s) = n
  BY <1>1, <1>2
<1>4. QED
  BY <1>1, <1>2, <1>3

\* The next step of the loop leaves routes and locks well typed.
LEMMA NextStepType ==
  ASSUME TypeOK, NEW a \in Actors, Moving(a), NextStep(a)
  PROVE  /\ DOMAIN route' = Actors
         /\ \A b \in Actors : route'[b] \in Seq(Tiles) /\ Len(route'[b]) <= MaxPath
         /\ locks' \in [Tiles -> Actors \cup {None}]
<1> USE BoundsAssumption
<1>1. /\ route[a] \in Seq(Tiles) /\ route[a] # <<>>
      /\ Len(route[a]) <= MaxPath
  BY DEF TypeOK, Moving
<1>2. /\ Tail(route[a]) \in Seq(Tiles) /\ Len(Tail(route[a])) <= MaxPath
      /\ Head(route[a]) \in Tiles
  BY <1>1
<1>3. <<>> \in Seq(Tiles) /\ Len(<<>>) = 0 /\ 0 <= MaxPath
  OBVIOUS
<1>4. Unlock(a) \in [Tiles -> Actors \cup {None}]
  BY DEF Unlock, TypeOK
<1>5. \/ route' = [route EXCEPT ![a] = <<>>]
      \/ route' = [route EXCEPT ![a] = Tail(route[a])]
  BY DEF NextStep, DropMigration
<1>6. locks' \in [Tiles -> Actors \cup {None}]
  BY <1>4 DEF NextStep, DropMigration, TypeOK
<1>7. QED
  BY <1>2, <1>3, <1>5, <1>6 DEF TypeOK

\* What every step does to the rows of routes and locks, typed.
LEMMA TypedStep == Typed /\ [Next]_vars => Typed'
<1> USE ActorsAssumption, BoundsAssumption, SubsetsAssumption DEF Actors
<1> SUFFICES ASSUME Typed, [Next]_vars PROVE Typed'
  OBVIOUS
<1>0. TypeOK /\ UnitsBounded
  BY DEF Typed
<1>1. ASSUME NEW p \in Players, JoinSeason(p) PROVE Typed'
  BY <1>0, <1>1 DEF JoinSeason, Enters, people, server, Typed, TypeOK, UnitsBounded
<1>2. ASSUME NEW p \in Players, QuitSeason(p) PROVE Typed'
  BY <1>0, <1>2 DEF QuitSeason, clans, server, Typed, TypeOK, UnitsBounded, Unlock
<1>3. ASSUME NEW p \in Players, DonateUnits(p) PROVE Typed'
  <2>1. PICK n \in Batches :
          /\ member[p] # None
          /\ units[p] >= n
          /\ bought[member[p]] + n <= MaxUnits
          /\ units' = [units EXCEPT ![p] = units[p] - n, ![member[p]] = @ + n]
          /\ bought' = [bought EXCEPT ![member[p]] = bought[member[p]] + n]
    BY <1>3 DEF DonateUnits
  <2>2. UNCHANGED <<status, torn, member, rows, owner, camp, pos, route, locks, up, closed, crashes>>
    BY <1>3 DEF DonateUnits, people, clans, land, caravans, server
  <2>3. member[p] \in Actors /\ p \in Actors /\ member[p] # p /\ n \in Nat
    BY <1>0, <2>1 DEF TypeOK
  <2>4. \A b \in Actors : units[b] \in 0..MaxUnits /\ bought[b] \in 0..MaxUnits
                           /\ units[b] <= bought[b]
    BY <1>0 DEF TypeOK, UnitsBounded
  <2>5. \A b \in Actors :
          /\ units'[b] = IF b = member[p] THEN units[b] + n
                         ELSE IF b = p THEN units[b] - n ELSE units[b]
          /\ bought'[b] = IF b = member[p] THEN bought[b] + n ELSE bought[b]
    BY <1>0, <2>1, <2>3 DEF TypeOK
  <2>6. \A b \in Actors : units'[b] \in 0..MaxUnits /\ bought'[b] \in 0..MaxUnits
                           /\ units'[b] <= bought'[b]
    <3> TAKE b \in Actors
    <3>1. CASE b = member[p]
      <4>1. units'[b] = units[b] + n /\ bought'[b] = bought[b] + n /\ bought[b] + n <= MaxUnits
        BY <2>1, <2>5, <3>1
      <4>2. QED
        BY <2>3, <2>4, <4>1
    <3>2. CASE b = p
      <4>1. units'[b] = units[b] - n /\ bought'[b] = bought[b]
        BY <2>3, <2>5, <3>2
      <4>2. units[b] >= n
        BY <2>1, <3>2
      <4>3. QED
        BY <2>3, <2>4, <4>1, <4>2
    <3>3. CASE b # p /\ b # member[p]
      BY <2>4, <2>5, <3>3
    <3>4. QED
      BY <3>1, <3>2, <3>3
  <2>7. units' \in [Actors -> 0..MaxUnits] /\ bought' \in [Actors -> 0..MaxUnits]
    BY <1>0, <2>1, <2>6 DEF TypeOK
  <2>8. QED
    BY <1>0, <2>2, <2>6, <2>7 DEF Typed, TypeOK, UnitsBounded
<1>4. ASSUME NEW p \in Players, NEW c \in Clans, CreateClan(p, c) \/ RespondJoin(p, c)
      PROVE Typed'
  <2>1. rows' \in [Clans -> SUBSET Players]
    BY <1>0, <1>4 DEF CreateClan, RespondJoin, TypeOK
  <2>2. member' \in [Players -> Clans \cup {None}]
    BY <1>0, <1>4 DEF CreateClan, RespondJoin, TypeOK
  <2>3. UNCHANGED <<people, land, army, caravans, server>>
    BY <1>4 DEF CreateClan, RespondJoin
  <2>4. QED
    BY <1>0, <2>1, <2>2, <2>3
    DEF people, land, army, caravans, server, Typed, TypeOK, UnitsBounded
<1>5. ASSUME NEW p \in Players, NEW t \in Tiles, SetClanCamp(p, t) PROVE Typed'
  BY <1>0, <1>5 DEF SetClanCamp, people, clans, army, caravans, server, Typed, TypeOK, UnitsBounded
<1>6. ASSUME NEW a \in Actors, BuyUnits(a) PROVE Typed'
  BY <1>0, <1>6 DEF BuyUnits, people, clans, land, caravans, server, Typed, TypeOK, UnitsBounded
<1>7. ASSUME NEW a \in Actors, StartMove(a) PROVE Typed'
  <2>1. PICK s \in AllPaths : /\ route' = [route EXCEPT ![a] = s]
                              /\ locks' = [locks EXCEPT ![s[1]] = a]
    BY <1>7 DEF StartMove
  <2>2. UNCHANGED <<status, torn, member, rows, owner, camp, pos, units, bought, up, closed, crashes>>
    BY <1>7 DEF StartMove, people, clans, land, army, server
  <2>3. QED
    BY <1>0, <2>1, <2>2, PathType DEF Typed, TypeOK, UnitsBounded
<1>8. ASSUME NEW a \in Actors, CancelMove(a) PROVE Typed'
  BY <1>0, <1>8 DEF CancelMove, people, clans, land, army, server, Typed, TypeOK, UnitsBounded, Unlock
<1>9. ASSUME NEW a \in Actors, Advance(a) PROVE Typed'
  <2>1. CASE AdvanceOwn(a)
    <3>1. Moving(a) /\ Head(route[a]) \in Tiles /\ NextStep(a)
      BY <2>1 DEF AdvanceOwn, Due, Own
    <3>2. QED
      BY <1>0, <2>1, <3>1, NextStepType DEF AdvanceOwn, people, clans, army, server, Typed, TypeOK, UnitsBounded
  <2>2. CASE AdvanceBlocked(a)
    BY <1>0, <2>2 DEF AdvanceBlocked, people, clans, land, army, server, DropMigration, Unlock, Typed, TypeOK, UnitsBounded
  <2>3. CASE AdvanceLose(a)
    <3>1. PICK losses \in Losses(a, Head(route[a])) :
            units' = [units EXCEPT ![a] = units[a] - losses]
      BY <2>3 DEF AdvanceLose
    <3>2. losses \in Nat /\ losses <= units[a]
      BY <1>0, <3>1 DEF Losses, TypeOK
    <3>3. /\ pos' = [pos EXCEPT ![a] = IF camp[a] # None THEN camp[a] ELSE pos[a]]
          /\ route' = [route EXCEPT ![a] = <<>>]
          /\ locks' = Unlock(a)
          /\ UNCHANGED <<status, torn, member, rows, owner, camp, bought, up, closed, crashes>>
      BY <2>3 DEF AdvanceLose, people, clans, server, DropMigration
    <3>4. units' \in [Actors -> 0..MaxUnits] /\ \A b \in Actors : units'[b] <= bought'[b]
      BY <1>0, <3>1, <3>2, <3>3 DEF TypeOK, UnitsBounded
    <3>5. QED
      BY <1>0, <3>3, <3>4 DEF Unlock, Typed, TypeOK, UnitsBounded
  <2>4. CASE AdvanceWin(a)
    <3>1. PICK losses \in Losses(a, Head(route[a])) :
            /\ units[a] - losses >= 1
            /\ units' = [units EXCEPT ![a] = units[a] - losses - 1]
      BY <2>4 DEF AdvanceWin
    <3>2. losses \in Nat
      BY <1>0, <3>1 DEF Losses, TypeOK
    <3>3. Moving(a) /\ Head(route[a]) \in Tiles /\ NextStep(a)
      BY <2>4 DEF AdvanceWin, Arrives, Due, Free
    <3>4. /\ owner' = [owner EXCEPT ![Head(route[a])] = a]
          /\ pos' = [pos EXCEPT ![a] = Head(route[a])]
          /\ UNCHANGED <<status, torn, member, rows, camp, bought, up, closed, crashes>>
      BY <2>4 DEF AdvanceWin, people, clans, server
    <3>5. units' \in [Actors -> 0..MaxUnits] /\ \A b \in Actors : units'[b] <= bought'[b]
      BY <1>0, <3>1, <3>2, <3>4 DEF TypeOK, UnitsBounded
    <3>6. owner' \in [Tiles -> Actors \cup {None}] /\ pos' \in [Actors -> Tiles \cup {None}]
      BY <1>0, <3>3, <3>4 DEF TypeOK
    <3>7. QED
      BY <1>0, <3>3, <3>4, <3>5, <3>6, NextStepType DEF Typed, TypeOK, UnitsBounded
  <2>5. QED
    BY <1>9, <2>1, <2>2, <2>3, <2>4 DEF Advance
<1>10. ASSUME CloseSeason PROVE Typed'
  BY <1>0, <1>10 DEF CloseSeason, people, clans, land, army, Typed, TypeOK, UnitsBounded
<1>11. ASSUME Dies
       PROVE  /\ locks' \in [Tiles -> Actors \cup {None}] /\ crashes' \in 0..MaxCrashes
              /\ up' \in BOOLEAN /\ closed' \in BOOLEAN
  <2>1. crashes \in Nat /\ crashes < MaxCrashes /\ crashes' = crashes + 1
    BY <1>0, <1>11 DEF Dies, TypeOK
  <2>2. crashes' \in 0..MaxCrashes
    BY <2>1
  <2>3. locks' \in [Tiles -> Actors \cup {None}] /\ up' \in BOOLEAN /\ closed' \in BOOLEAN
    BY <1>0, <1>11 DEF Dies, TypeOK
  <2>4. QED
    BY <2>2, <2>3
<1>12. ASSUME Crash PROVE Typed'
  BY <1>0, <1>11, <1>12 DEF Crash, people, clans, land, army, Typed, TypeOK, UnitsBounded
<1>13. ASSUME NEW p \in Players, TornJoinSeason(p) PROVE Typed'
  BY <1>0, <1>11, <1>13 DEF TornJoinSeason, Enters, Typed, TypeOK, UnitsBounded
<1>14. ASSUME NEW p \in Players, TornQuitSeason(p) PROVE Typed'
  BY <1>0, <1>11, <1>14 DEF TornQuitSeason, clans, army, Typed, TypeOK, UnitsBounded
<1>15. ASSUME NEW p \in Players, TornDonate(p) PROVE Typed'
  <2>1. PICK n \in Batches : units[p] >= n /\ units' = [units EXCEPT ![p] = units[p] - n]
    BY <1>15 DEF TornDonate
  <2>2. Dies /\ UNCHANGED <<status, torn, member, rows, owner, camp, pos, bought, route>>
    BY <1>15 DEF TornDonate, people, clans, land
  <2>3. n \in Nat /\ units[p] \in 0..MaxUnits /\ bought[p] \in 0..MaxUnits /\ units[p] <= bought[p]
    BY <1>0 DEF TypeOK, UnitsBounded
  <2>4. units[p] - n \in 0..MaxUnits /\ units[p] - n <= bought[p]
    BY <2>1, <2>3
  <2>5. units' \in [Actors -> 0..MaxUnits] /\ \A b \in Actors : units'[b] <= bought'[b]
    BY <1>0, <2>1, <2>2, <2>4 DEF TypeOK, UnitsBounded
  <2>6. QED
    BY <1>0, <1>11, <2>2, <2>5 DEF Typed, TypeOK, UnitsBounded
<1>16. ASSUME NEW p \in Players, NEW c \in Clans, TornEnrol(p, c) PROVE Typed'
  BY <1>0, <1>11, <1>16 DEF TornEnrol, people, land, army, Typed, TypeOK, UnitsBounded
<1>17. ASSUME Boot PROVE Typed'
  BY <1>0, <1>17 DEF Boot, people, clans, land, army, Typed, TypeOK, UnitsBounded
<1>18. ASSUME UNCHANGED vars PROVE Typed'
  BY <1>0, <1>18 DEF vars, people, clans, land, army, caravans, server, Typed, TypeOK, UnitsBounded
<1>19. QED
  BY <1>1, <1>2, <1>3, <1>4, <1>5, <1>6, <1>7, <1>8, <1>9, <1>10, <1>12, <1>13, <1>14, <1>15,
     <1>16, <1>17, <1>18
  DEF Next

LEMMA TypedInit == Init => Typed
<1> SUFFICES ASSUME Init PROVE Typed
  OBVIOUS
<1>1. \A a \in Actors : route[a] \in Seq(Tiles) /\ Len(route[a]) <= MaxPath
  BY BoundsAssumption DEF Init
<1>2. /\ units \in [Actors -> 0..MaxUnits] /\ bought \in [Actors -> 0..MaxUnits]
      /\ crashes \in 0..MaxCrashes
      /\ \A a \in Actors : units[a] <= bought[a]
  <2>1. Brought \cup {0} \subseteq 0..MaxUnits
    BY BoundsAssumption
  <2>2. units \in [Actors -> 0..MaxUnits]
    BY <2>1 DEF Init
  <2>3. \A a \in Actors : units[a] <= bought[a]
    BY <2>2 DEF Init
  <2>4. QED
    BY <2>2, <2>3, BoundsAssumption DEF Init
<1>3. /\ member \in [Players -> Clans \cup {None}] /\ rows \in [Clans -> SUBSET Players]
      /\ torn \in SUBSET Players
  BY ActorsAssumption DEF Init
<1>4. QED
  BY <1>1, <1>2, <1>3 DEF Init, Typed, TypeOK, UnitsBounded

\* TypeOK holds for all players, clans and tiles: handlers and engine write
\* only tiles, actors and unit counts within their ranges.
THEOREM TypeCorrect == Spec => []TypeOK
<1>1. Typed => TypeOK
  BY DEF Typed
<1>2. QED
  BY <1>1, TypedInit, TypedStep, PTL DEF Spec

-----------------------------------------------------------------------------
(* Groups.  Land is never taken over; a group without leftover rows never  *)
(* had any, and nobody who could leave the season is counted in it.        *)

LEMMA OwnIsOwned ==
  ASSUME TypeOK, NEW b \in Actors, NEW t \in Own(b)
  PROVE  owner[t] # None
<1>1. ClanOf(b) \in Clans \cup {None}
  BY DEF ClanOf, TypeOK, Actors
<1>2. QED
  BY <1>1, ActorsAssumption DEF Own, GroupOf, TypeOK, Actors

LEMMA OwnIsOwnedNext ==
  ASSUME TypeOK', NEW b \in Actors, NEW t \in Own(b)'
  PROVE  owner'[t] # None
<1>1. ClanOf(b)' \in Clans \cup {None}
  BY DEF ClanOf, TypeOK, Actors
<1>2. QED
  BY <1>1, ActorsAssumption DEF Own, GroupOf, TypeOK, Actors

LEMMA OwnGrows ==
  ASSUME TypeOK,
         \A t \in Tiles : owner[t] # None => owner'[t] = owner[t],
         \A c \in Clans : rows[c] \subseteq rows'[c],
         NEW b \in Actors,
         ClanOf(b)' = ClanOf(b) \/ (ClanOf(b) = None /\ b \in GroupOf(b)')
  PROVE  \A t \in Own(b) : t \in Own(b)'
<1> SUFFICES ASSUME NEW t \in Own(b) PROVE t \in Own(b)'
  OBVIOUS
<1>1. t \in Tiles /\ owner[t] \in GroupOf(b)
  BY DEF Own
<1>2. ClanOf(b) \in Clans \cup {None}
  BY DEF ClanOf, TypeOK, Actors
<1>3. owner[t] # None
  BY OwnIsOwned
<1>4. GroupOf(b) \subseteq GroupOf(b)'
  BY <1>2 DEF GroupOf
<1>5. QED
  BY <1>1, <1>3, <1>4 DEF Own

LEMMA WholeBack ==
  ASSUME TypeOK,
         \A c \in Clans : rows[c] \subseteq rows'[c],
         \A c \in Clans : \A q \in rows[c] : member'[q] = c => member[q] = c,
         NEW b \in Actors,
         ClanOf(b)' = ClanOf(b) \/ ClanOf(b) = None,
         Whole(b)'
  PROVE  Whole(b)
<1>1. CASE ClanOf(b) = None
  BY <1>1 DEF Whole
<1>2. CASE ClanOf(b) # None /\ ClanOf(b)' = ClanOf(b)
  <2>1. ClanOf(b) \in Clans
    BY <1>2 DEF ClanOf, TypeOK, Actors
  <2>2. QED
    BY <1>2, <2>1 DEF Whole
<1>3. QED
  BY <1>1, <1>2

\* Nobody with a clan_id can quit, so the land of a group without leftover
\* rows stays its own when another player leaves.
LEMMA QuitKeepsOwn ==
  ASSUME TypeOK, NEW p \in Players, NEW b \in Actors, b # p, member[p] = None, Whole(b),
         owner' = [t \in Tiles |-> IF owner[t] = p THEN None ELSE owner[t]],
         UNCHANGED clans
  PROVE  \A t \in Own(b) : t \in Own(b)'
<1> SUFFICES ASSUME NEW t \in Own(b) PROVE t \in Own(b)'
  OBVIOUS
<1>1. t \in Tiles /\ owner[t] \in GroupOf(b)
  BY DEF Own
<1>2. p \notin GroupOf(b)
  <2>1. CASE ClanOf(b) = None
    BY <2>1 DEF GroupOf
  <2>2. CASE ClanOf(b) # None
    <3>1. ClanOf(b) \in Clans
      BY <2>2 DEF ClanOf, TypeOK, Actors
    <3>2. p # ClanOf(b) /\ p \notin rows[ClanOf(b)]
      BY <2>2, <3>1, ActorsAssumption DEF Whole
    <3>3. QED
      BY <2>2, <3>2 DEF GroupOf
  <2>3. QED
    BY <2>1, <2>2
<1>3. owner'[t] = owner[t]
  BY <1>1, <1>2
<1>4. GroupOf(b)' = GroupOf(b)
  BY DEF GroupOf, ClanOf, clans
<1>5. QED
  BY <1>1, <1>3, <1>4 DEF Own

\* The engine's step for one caravan: it moves on, comes to rest where it
\* stands or has just arrived, or goes back to its camp.
LEMMA AdvanceFacts ==
  ASSUME TypeOK, NEW a \in Actors, Advance(a)
  PROVE  /\ up /\ Moving(a) /\ Head(route[a]) \in Tiles
         /\ UNCHANGED <<people, clans, camp, bought, server>>
         /\ \/ owner' = owner
            \/ AdvanceWin(a) /\ owner[Head(route[a])] = None /\ owner' = [owner EXCEPT ![Head(route[a])] = a]
         /\ \/ /\ pos' = [pos EXCEPT ![a] = Head(route[a])]
               /\ Head(route[a]) \in Own(a) \/ owner'[Head(route[a])] = a
               /\ NextStep(a)
            \/ /\ pos' = pos \/ pos' = [pos EXCEPT ![a] = camp[a]]
               /\ DropMigration(a)
<1>1. Moving(a) => Head(route[a]) \in Tiles BY DEF Moving, TypeOK
<1>2. CASE AdvanceOwn(a) BY <1>1, <1>2 DEF AdvanceOwn, Due, army
<1>3. CASE AdvanceBlocked(a) BY <1>1, <1>3 DEF AdvanceBlocked, Due, land, army
<1>4. CASE AdvanceLose(a)
  <2>1. pos' = [pos EXCEPT ![a] = pos[a]] => pos' = pos BY DEF TypeOK
  <2>2. up /\ Moving(a) BY <1>4 DEF AdvanceLose, Arrives, Due
  <2>3. /\ UNCHANGED <<people, clans, camp, bought, server>> /\ owner' = owner /\ DropMigration(a)
        /\ pos' = pos \/ pos' = [pos EXCEPT ![a] = camp[a]]
    BY <1>4, <2>1 DEF AdvanceLose
  <2> QED BY <1>1, <2>2, <2>3
<1>5. CASE AdvanceWin(a)
  <2>1. Moving(a) /\ up /\ owner[Head(route[a])] = None
    BY <1>5 DEF AdvanceWin, Arrives, Due, Free
  <2>2. /\ owner' = [owner EXCEPT ![Head(route[a])] = a] /\ pos' = [pos EXCEPT ![a] = Head(route[a])]
        /\ NextStep(a) /\ UNCHANGED <<people, clans, camp, bought, server>>
    BY <1>5 DEF AdvanceWin
  <2>3. owner'[Head(route[a])] = a BY <1>1, <2>1, <2>2 DEF TypeOK
  <2> QED BY <1>1, <1>5, <2>1, <2>2, <2>3
<1> QED BY <1>2, <1>3, <1>4, <1>5 DEF Advance

\* What joinSeason does, whole or cut short.
Joins(p) == JoinSeason(p) \/ TornJoinSeason(p)

\* What quitSeason does, whole or cut short.
Quits(p) == QuitSeason(p) \/ TornQuitSeason(p)

LEMMA JoinFacts ==
  ASSUME NEW p \in Players, Joins(p)
  PROVE  \E t \in CampTiles :
           /\ owner[t] = None /\ status[p] = "new" /\ status' = [status EXCEPT ![p] = "in"]
           /\ \/ torn' = torn /\ owner' = [owner EXCEPT ![t] = p] /\ UNCHANGED <<locks, server>>
              \/ torn' = torn \cup {p} /\ owner' = owner /\ Dies
           /\ camp' = [camp EXCEPT ![p] = t] /\ pos' = [pos EXCEPT ![p] = t]
           /\ member' = [member EXCEPT ![p] = None] /\ UNCHANGED <<rows, route>>
           /\ units' = [units EXCEPT ![p] = 0] /\ bought' = [bought EXCEPT ![p] = 0]
<1>1. CASE JoinSeason(p)
  BY <1>1 DEF JoinSeason, Enters
<1>2. CASE TornJoinSeason(p)
  BY <1>2 DEF TornJoinSeason, Enters
<1>3. QED
  BY <1>1, <1>2 DEF Joins

LEMMA QuitFacts ==
  ASSUME TypeOK, NEW p \in Players, Quits(p)
  PROVE  /\ member[p] = None
         /\ owner' = [t \in Tiles |-> IF owner[t] = p THEN None ELSE owner[t]]
         /\ route' = [route EXCEPT ![p] = <<>>]
         /\ UNCHANGED <<clans, camp, pos>>
         /\ \/ /\ status' = [status EXCEPT ![p] = IF status[p] = "in" THEN "quit" ELSE status[p]]
               /\ torn' = torn /\ UNCHANGED server /\ up
               /\ locks' = IF Moving(p) THEN Unlock(p) ELSE locks
               /\ units' = [units EXCEPT ![p] = 0] /\ bought' = [bought EXCEPT ![p] = 0]
            \/ status' = status /\ torn' = torn \cup {p} /\ Dies /\ UNCHANGED army
<1>1. CASE QuitSeason(p)
  BY <1>1 DEF QuitSeason, Authed
<1>2. CASE TornQuitSeason(p)
  BY <1>2 DEF TornQuitSeason
<1>3. QED
  BY <1>1, <1>2 DEF Quits

\* createClan and respondJoin, whole or cut short: one more row.
Enrols(p, c) == CreateClan(p, c) \/ RespondJoin(p, c) \/ TornEnrol(p, c)

LEMMA EnrolFacts ==
  ASSUME TypeOK, NEW p \in Players, NEW c \in Clans, Enrols(p, c)
  PROVE  /\ member[p] = None /\ p \notin rows[c]
         /\ rows' = [rows EXCEPT ![c] = rows[c] \cup {p}]
         /\ member' = [member EXCEPT ![p] = c] \/ member' = member
         /\ UNCHANGED <<people, land, army, route>>
         /\ \/ member' = [member EXCEPT ![p] = c] /\ UNCHANGED <<locks, server>> /\ up
            \/ Dies
<1>1. CASE CreateClan(p, c)
  <2>1. rows[c] = {}
    BY <1>1 DEF CreateClan, Founded
  <2>2. QED
    BY <1>1, <2>1 DEF CreateClan, Authed, caravans
<1>2. CASE RespondJoin(p, c)
  BY <1>2 DEF RespondJoin, caravans
<1>3. CASE TornEnrol(p, c)
  BY <1>3 DEF TornEnrol
<1>4. QED
  BY <1>1, <1>2, <1>3 DEF Enrols

\* The actions that change neither people, clans, land nor routes but by
\* dropping them.
Quiet == /\ UNCHANGED <<people, clans, land>>
         /\ \A b \in Actors : route'[b] = route[b] \/ route'[b] = <<>>

LEMMA QuietActions ==
  ASSUME TypeOK, [Next]_vars
  PROVE  \/ Quiet
         \/ \E p \in Players : Joins(p) \/ Quits(p)
         \/ \E p \in Players, c \in Clans : Enrols(p, c)
         \/ \E p \in Players, t \in Tiles : SetClanCamp(p, t)
         \/ \E a \in Actors : StartMove(a) \/ Advance(a)
<1>1. ASSUME NEW p \in Players, DonateUnits(p) PROVE Quiet
  BY <1>1 DEF DonateUnits, Quiet, caravans
<1>2. ASSUME NEW a \in Actors, BuyUnits(a) PROVE Quiet
  BY <1>2 DEF BuyUnits, Quiet, caravans
<1>3. ASSUME NEW a \in Actors, CancelMove(a) PROVE Quiet
  BY <1>3 DEF CancelMove, Quiet, TypeOK
<1>4. ASSUME CloseSeason PROVE Quiet
  BY <1>4 DEF CloseSeason, Quiet
<1>5. ASSUME Crash \/ Boot PROVE Quiet
  BY <1>5 DEF Crash, Boot, Quiet
<1>6. ASSUME NEW p \in Players, TornDonate(p) PROVE Quiet
  BY <1>6 DEF TornDonate, Quiet
<1>7. ASSUME UNCHANGED vars PROVE Quiet
  BY <1>7 DEF vars, Quiet, caravans
<1>8. QED
  BY <1>1, <1>2, <1>3, <1>4, <1>5, <1>6, <1>7 DEF Next, Joins, Quits, Enrols

\* What has a group it keeps, and no step makes a group whole again, but that
\* who joins the season begins anew and who quits gives up its land.
LEMMA Keeps ==
  ASSUME Base, [Next]_vars, NEW b \in Actors,
         \A p \in Players : b = p => ~Joins(p) /\ ~Quits(p)
  PROVE  Whole(b)' => Whole(b) /\ \A t \in Own(b) : t \in Own(b)'
<1> USE ActorsAssumption, SubsetsAssumption
<1>0. TypeOK /\ Enrolled
  BY DEF Base, Typed
<1>01. \A c \in Clans : rows[c] \subseteq Players
  BY <1>0 DEF TypeOK
<1>1. ASSUME NEW p \in Players, Joins(p)
      PROVE  Whole(b)' => Whole(b) /\ \A t \in Own(b) : t \in Own(b)'
  <2>1. PICK t \in CampTiles :
          /\ owner[t] = None
          /\ owner' = owner \/ owner' = [owner EXCEPT ![t] = p]
          /\ member' = [member EXCEPT ![p] = None] /\ rows' = rows
    BY <1>1, JoinFacts
  <2>2. b # p
    BY <1>1
  <2>3. ClanOf(b)' = ClanOf(b)
    BY <1>0, <2>1, <2>2 DEF ClanOf, TypeOK, Actors
  <2>4. \A c \in Clans : \A q \in rows[c] : member'[q] = c => member[q] = c
    BY <1>0, <1>01, <2>1 DEF TypeOK, Actors
  <2>5. \A u \in Tiles : owner[u] # None => owner'[u] = owner[u]
    BY <1>0, <2>1 DEF TypeOK
  <2>6. QED
    BY <1>0, <2>1, <2>3, <2>4, <2>5, OwnGrows, WholeBack
<1>2. ASSUME NEW p \in Players, Quits(p)
      PROVE  Whole(b)' => Whole(b) /\ \A t \in Own(b) : t \in Own(b)'
  <2>1. Whole(b)' = Whole(b)
    BY <1>0, <1>2, QuitFacts DEF Whole, ClanOf, clans
  <2>2. QED
    BY <1>0, <1>2, <2>1, QuitFacts, QuitKeepsOwn
<1>3. ASSUME NEW p \in Players, NEW c \in Clans, Enrols(p, c)
      PROVE  Whole(b)' => Whole(b) /\ \A t \in Own(b) : t \in Own(b)'
  <2>1. /\ member[p] = None /\ p \notin rows[c] /\ rows' = [rows EXCEPT ![c] = rows[c] \cup {p}]
        /\ member' = [member EXCEPT ![p] = c] \/ member' = member
        /\ owner' = owner
    BY <1>0, <1>3, EnrolFacts DEF land
  <2>2. \A d \in Clans : rows[d] \subseteq rows'[d]
    BY <1>0, <2>1 DEF TypeOK
  <2>3. \A d \in Clans : \A q \in rows[d] : member'[q] = d => member[q] = d
    BY <1>0, <1>01, <2>1 DEF TypeOK
  <2>4. ClanOf(b)' = ClanOf(b) \/ (ClanOf(b) = None /\ b \in GroupOf(b)')
    <3>1. CASE b # p \/ member' = member
      BY <1>0, <2>1, <3>1 DEF ClanOf, TypeOK, Actors
    <3>2. CASE b = p /\ member' = [member EXCEPT ![p] = c]
      <4>1. ClanOf(b) = None /\ ClanOf(b)' = c
        BY <1>0, <2>1, <3>2 DEF ClanOf, TypeOK
      <4>2. p \in rows'[c] /\ c # None
        BY <1>0, <2>1 DEF TypeOK, Actors
      <4>3. QED
        BY <3>2, <4>1, <4>2 DEF GroupOf
    <3>3. QED
      BY <2>1, <3>1, <3>2
  <2>5. QED
    BY <1>0, <2>1, <2>2, <2>3, <2>4, OwnGrows, WholeBack
<1>4. ASSUME UNCHANGED clans, \A t \in Tiles : owner[t] # None => owner'[t] = owner[t]
      PROVE  Whole(b)' => Whole(b) /\ \A t \in Own(b) : t \in Own(b)'
  <2>1. ClanOf(b)' = ClanOf(b) /\ Whole(b)' = Whole(b) /\ \A c \in Clans : rows[c] \subseteq rows'[c]
    BY <1>4 DEF ClanOf, Whole, clans
  <2>2. QED
    BY <1>0, <1>4, <2>1, OwnGrows
<1>5. ASSUME NEW a \in Actors, StartMove(a) \/ Advance(a)
      PROVE  UNCHANGED clans /\ \A t \in Tiles : owner[t] # None => owner'[t] = owner[t]
  <2>1. CASE StartMove(a)
    BY <2>1 DEF StartMove, land
  <2>2. CASE Advance(a)
    BY <1>0, <2>2, AdvanceFacts DEF TypeOK
  <2>3. QED
    BY <1>5, <2>1, <2>2
<1>6. ASSUME Quiet \/ \E p \in Players, t \in Tiles : SetClanCamp(p, t)
      PROVE  UNCHANGED clans /\ owner' = owner
  BY <1>6 DEF Quiet, SetClanCamp, land
<1>7. QED
  BY <1>0, <1>1, <1>2, <1>3, <1>4, <1>5, <1>6, QuietActions

\* Exactness, once lost, does not come back.
LEMMA ExactBack ==
  ASSUME Base, Base', [Next]_vars, Exact'
  PROVE  Exact
<1>1. crashes' = 0 => crashes = 0
  <2>1. crashes \in Nat
    BY DEF Base, Typed, TypeOK
  <2>2. crashes' = crashes \/ crashes' = crashes + 1
    BY DEF Next, vars, server, JoinSeason, QuitSeason, DonateUnits, CreateClan, RespondJoin,
           SetClanCamp, BuyUnits, StartMove, CancelMove, Advance, AdvanceOwn, AdvanceBlocked,
           AdvanceLose, AdvanceWin, CloseSeason, Crash, TornJoinSeason, TornQuitSeason,
           TornDonate, TornEnrol, Dies, Boot
  <2>3. QED
    BY <2>1, <2>2
<1>2. ASSUME NEW c \in Clans, Whole(c)' PROVE Whole(c)
  <2>1. c \in Actors /\ \A p \in Players : c # p
    BY ActorsAssumption DEF Actors
  <2>2. QED
    BY <1>2, <2>1, Keeps
<1>3. QED
  BY <1>1, <1>2 DEF Exact

LEMMA EnrolledStep == Base /\ [Next]_vars => Enrolled'
<1> USE ActorsAssumption, SubsetsAssumption
<1> SUFFICES ASSUME Base, [Next]_vars PROVE Enrolled'
  OBVIOUS
<1>0. TypeOK /\ TypeOK' /\ Enrolled
  BY TypedStep DEF Base, Typed
<1>01. \A p \in Players : p \in Actors /\ p # None
  BY DEF Actors
<1>1. up' \/ crashes' > 0
  <2>1. ASSUME Dies PROVE crashes' > 0
    BY <1>0, <2>1 DEF Dies, TypeOK
  <2>2. \/ Dies
        \/ up' = up /\ crashes' = crashes
        \/ up'
    BY DEF Next, vars, server, JoinSeason, QuitSeason, DonateUnits, CreateClan, RespondJoin,
           SetClanCamp, BuyUnits, StartMove, CancelMove, Advance, AdvanceOwn, AdvanceBlocked,
           AdvanceLose, AdvanceWin, CloseSeason, Crash, TornJoinSeason, TornQuitSeason,
           TornDonate, TornEnrol, Boot
  <2>3. QED
    BY <1>0, <2>1, <2>2 DEF Enrolled
<1>2. ASSUME NEW p \in Players, Joins(p) PROVE Enrolled'
  <2>1. PICK t \in CampTiles :
          /\ status' = [status EXCEPT ![p] = "in"]
          /\ owner' = owner \/ owner' = [owner EXCEPT ![t] = p]
          /\ member' = [member EXCEPT ![p] = None] /\ UNCHANGED <<rows, route>>
    BY <1>2, JoinFacts
  <2>2. \A q \in Players : q # p => status'[q] = status[q] /\ member'[q] = member[q]
    BY <1>0, <2>1 DEF TypeOK
  <2>3. status'[p] = "in" /\ member'[p] = None
    BY <1>0, <2>1 DEF TypeOK
  <2>4. \A q \in Players : q # p => \A u \in Tiles : owner[u] # q => owner'[u] # q
    BY <1>0, <2>1 DEF TypeOK
  <2>5. \A q \in Players : member'[q] # None => q \in rows'[member'[q]]
    BY <1>0, <2>1, <2>2, <2>3 DEF Enrolled
  <2>6. \A q \in Players : status'[q] = "new" => \A u \in Tiles : owner'[u] # q
    BY <1>0, <2>2, <2>3, <2>4 DEF Enrolled
  <2>7. \A q \in Players : route'[q] # <<>> => status'[q] = "in"
    BY <1>0, <2>1, <2>2, <2>3 DEF Enrolled, Moving
  <2>8. QED
    BY <1>1, <2>5, <2>6, <2>7 DEF Enrolled, Moving
<1>3. ASSUME NEW p \in Players, Quits(p) PROVE Enrolled'
  <2>1. /\ \/ status' = [status EXCEPT ![p] = IF status[p] = "in" THEN "quit" ELSE status[p]]
           \/ status' = status
        /\ owner' = [t \in Tiles |-> IF owner[t] = p THEN None ELSE owner[t]]
        /\ route' = [route EXCEPT ![p] = <<>>]
        /\ UNCHANGED clans
    BY <1>0, <1>3, QuitFacts
  <2>2. \A q \in Players : /\ status'[q] = "new" => status[q] = "new"
                           /\ q # p => status'[q] = status[q]
    BY <1>0, <2>1 DEF TypeOK
  <2>3. \A q \in Players : \A u \in Tiles : owner[u] # q => owner'[u] # q
    BY <1>0, <1>01, <2>1 DEF TypeOK
  <2>4. route'[p] = <<>> /\ \A q \in Players : q # p => route'[q] = route[q]
    BY <1>0, <1>01, <2>1 DEF TypeOK
  <2>5. \A q \in Players : member'[q] # None => q \in rows'[member'[q]]
    BY <1>0, <2>1 DEF Enrolled, clans
  <2>6. \A q \in Players : status'[q] = "new" => \A u \in Tiles : owner'[u] # q
    BY <1>0, <2>2, <2>3 DEF Enrolled
  <2>7. \A q \in Players : route'[q] # <<>> => status'[q] = "in"
    BY <1>0, <2>2, <2>4 DEF Enrolled, Moving
  <2>8. QED
    BY <1>1, <2>5, <2>6, <2>7 DEF Enrolled, Moving
<1>4. ASSUME NEW p \in Players, NEW c \in Clans, Enrols(p, c) PROVE Enrolled'
  <2>1. /\ rows' = [rows EXCEPT ![c] = rows[c] \cup {p}]
        /\ member' = [member EXCEPT ![p] = c] \/ member' = member
        /\ UNCHANGED <<people, land, route>>
    BY <1>0, <1>4, EnrolFacts
  <2>2. \A q \in Players : member'[q] # None => q \in rows'[member'[q]]
    <3>1. rows'[c] = rows[c] \cup {p} /\ \A d \in Clans : rows[d] \subseteq rows'[d]
      BY <1>0, <2>1 DEF TypeOK
    <3>2. \A q \in Players : member'[q] = member[q] \/ (q = p /\ member'[q] = c)
      BY <1>0, <2>1 DEF TypeOK
    <3>3. QED
      BY <1>0, <3>1, <3>2 DEF Enrolled, TypeOK
  <2>3. QED
    BY <1>0, <1>1, <2>1, <2>2 DEF Enrolled, Moving, people, land
<1>5. ASSUME NEW a \in Actors, StartMove(a) PROVE Enrolled'
  <2>1. /\ UNCHANGED <<people, clans, land>>
        /\ a \in Players => status[a] = "in"
        /\ \A b \in Actors \ {a} : route'[b] = route[b]
    BY <1>0, <1>5 DEF StartMove, Controllable, TypeOK
  <2>2. QED
    BY <1>0, <1>01, <1>1, <2>1 DEF Enrolled, Moving, people, clans, land
<1>6. ASSUME NEW a \in Actors, Advance(a) PROVE Enrolled'
  <2>1. /\ Moving(a) /\ UNCHANGED <<people, clans>>
        /\ owner' = owner \/ owner' = [owner EXCEPT ![Head(route[a])] = a]
        /\ \A b \in Actors \ {a} : route'[b] = route[b]
    BY <1>0, <1>6, AdvanceFacts DEF NextStep, DropMigration, TypeOK
  <2>2. a \in Players => status[a] = "in"
    BY <1>0, <2>1 DEF Enrolled
  <2>3. \A q \in Players : status[q] = "new" => \A u \in Tiles : owner'[u] # q
    BY <1>0, <2>1, <2>2 DEF Enrolled, TypeOK
  <2>4. QED
    BY <1>0, <1>01, <1>1, <2>1, <2>2, <2>3 DEF Enrolled, Moving, people, clans
<1>7. ASSUME Quiet \/ \E p \in Players, t \in Tiles : SetClanCamp(p, t) PROVE Enrolled'
  <2>1. /\ UNCHANGED <<people, clans, owner>>
        /\ \A b \in Actors : route'[b] = route[b] \/ route'[b] = <<>>
    BY <1>7 DEF Quiet, SetClanCamp, land, caravans
  <2>2. QED
    BY <1>0, <1>01, <1>1, <2>1 DEF Enrolled, Moving, people, clans
<1>8. QED
  BY <1>0, <1>2, <1>3, <1>4, <1>5, <1>6, <1>7, QuietActions

LEMMA BaseInit == Init => Base
<1> SUFFICES ASSUME Init PROVE Base
  OBVIOUS
<1>1. Enrolled
  BY ActorsAssumption DEF Init, Enrolled, Moving, Actors
<1>2. QED
  BY <1>1, TypedInit DEF Base

LEMMA BaseStep == Base /\ [Next]_vars => Base'
BY TypedStep, EnrolledStep DEF Base

-----------------------------------------------------------------------------
(* Exclusion.  While the server is up Reserved is the whole story: the two *)
(* other parts of IInv follow from it, and they are what remains of it     *)
(* across a crash, when the lock table is gone.                            *)

\* What the steps of one caravan a have in common, whether it starts, goes on
\* or ends: no other caravan's route or lock on a free tile changes, a keeps
\* at most the lock of its next tile, and that tile is its group's or locked.
RouteStep(a) ==
  /\ \A b \in Actors \ {a} : route'[b] = route[b]
  /\ \A t \in Tiles : owner[t] = None /\ locks[t] \notin {None, a} => locks'[t] = locks[t]
  /\ \A t \in Tiles : locks'[t] # None =>
        \/ locks'[t] = locks[t] /\ locks[t] # a
        \/ locks'[t] = a /\ route'[a] # <<>> /\ Head(route'[a]) = t
  /\ route'[a] # <<>> =>
        \/ Head(route'[a]) \in Own(a)
        \/ owner[Head(route'[a])] = None /\ locks'[Head(route'[a])] = a

LEMMA DropIsRouteStep ==
  ASSUME TypeOK, NEW a \in Actors, DropMigration(a)
  PROVE  RouteStep(a)
  BY DEF DropMigration, Unlock, RouteStep, TypeOK

LEMMA NextIsRouteStep ==
  ASSUME TypeOK, NoOrphanLock, NEW a \in Actors, Moving(a), NextStep(a),
         Head(route[a]) \in Own(a) \cup Free(a)
  PROVE  RouteStep(a)
<1> DEFINE p == Head(route[a])
           rest == Tail(route[a])
           np == Head(rest)
<1>1. p \in Tiles /\ rest \in Seq(Tiles)
  BY DEF TypeOK, Moving
<1>2. \A t \in Tiles : locks[t] = a => t = p
  BY ActorsAssumption DEF NoOrphanLock
<1>3. owner[p] = None => locks[p] \in {None, a}
  BY OwnIsOwned DEF Free, LockedFor
<1>4. CASE DropMigration(a)
  BY <1>4, DropIsRouteStep
<1>5. CASE /\ route' = [route EXCEPT ![a] = <<>>]
           /\ locks' = [Unlock(a) EXCEPT ![p] = None]
  BY <1>1, <1>3, <1>5 DEF Unlock, RouteStep, TypeOK
<1>6. CASE /\ rest # <<>> /\ np \in Own(a)
           /\ route' = [route EXCEPT ![a] = rest]
           /\ locks' = [locks EXCEPT ![p] = None]
  BY <1>1, <1>2, <1>3, <1>6 DEF RouteStep, TypeOK
<1>7. CASE /\ rest # <<>>
           /\ owner[np] = None /\ ~LockedFor(np, a)
           /\ route' = [route EXCEPT ![a] = rest]
           /\ locks' = [locks EXCEPT ![p] = None, ![np] = a]
  <2>1. np \in Tiles
    BY <1>1, <1>7
  <2>2. \A t \in Tiles : locks'[t] = IF t = np THEN a ELSE IF t = p THEN None ELSE locks[t]
    BY <1>1, <1>7, <2>1 DEF TypeOK
  <2>3. route'[a] = rest /\ \A b \in Actors \ {a} : route'[b] = route[b]
    BY <1>7 DEF TypeOK
  <2>4. QED
    BY <1>2, <1>3, <1>7, <2>1, <2>2, <2>3 DEF RouteStep, LockedFor
<1>8. QED
  BY <1>4, <1>5, <1>6, <1>7 DEF NextStep

\* A caravan under way neither joins nor quits: its group keeps what it has.
LEMMA KeepsMoving ==
  ASSUME Base, [Next]_vars, NEW b \in Actors, Moving(b), route'[b] # <<>>
  PROVE  Whole(b)' => Whole(b) /\ \A t \in Own(b) : t \in Own(b)'
<1>1. ASSUME NEW p \in Players, b = p PROVE ~Joins(p) /\ ~Quits(p)
  <2>1. status[p] = "in"
    BY <1>1 DEF Base, Enrolled
  <2>2. ~Joins(p)
    BY <2>1, JoinFacts
  <2>3. ~Quits(p)
    BY <1>1, QuitFacts DEF Base, Typed, TypeOK
  <2>4. QED
    BY <2>2, <2>3
<1>2. QED
  BY <1>1, Keeps

\* A step of one caravan keeps the locks exact, also when it captures a tile
\* that is free and not locked for it.
LEMMA RouteStepKeeps ==
  ASSUME Base, Base', [Next]_vars, NoOrphanLock, Reserved, up, NEW a \in Actors, RouteStep(a),
         UNCHANGED clans,
         \/ owner' = owner
         \/ \E t \in Free(a) : owner' = [owner EXCEPT ![t] = a]
  PROVE  NoOrphanLock' /\ Reserved'
<1> USE ActorsAssumption DEF Actors
<1>00. TypeOK /\ TypeOK' /\ (Exact' => Exact)
  BY ExactBack DEF Base, Typed
<1>0. \A b \in Actors : route'[b] # <<>> => Head(route'[b]) \in Tiles
  BY <1>00 DEF TypeOK
<1>1. NoOrphanLock'
  <2> SUFFICES ASSUME NEW t \in Tiles, locks'[t] # None
               PROVE  route'[locks'[t]] # <<>> /\ Head(route'[locks'[t]]) = t
    BY DEF NoOrphanLock, Moving
  <2>1. CASE locks'[t] = locks[t] /\ locks[t] # a
    <3>1. locks[t] \in Actors \ {a}
      BY <1>00, <2>1 DEF TypeOK
    <3>2. QED
      BY <2>1, <3>1 DEF NoOrphanLock, RouteStep, Moving
  <2>2. QED
    BY <2>1 DEF RouteStep
<1>2. \A t \in Tiles : owner[t] # None => owner'[t] = owner[t]
  BY <1>00 DEF Free, TypeOK
<1>3. \A b \in Actors : GroupOf(b)' = GroupOf(b) /\ Whole(b)' = Whole(b) /\ b \in GroupOf(b) \cup {b}
  BY DEF GroupOf, ClanOf, Whole, clans
<1>4. \A b \in Actors : \A t \in Own(b) : t \in Own(b)'
  <2> SUFFICES ASSUME NEW b \in Actors, NEW t \in Own(b) PROVE t \in Own(b)'
    OBVIOUS
  <2>1. ClanOf(b)' = ClanOf(b) /\ \A c \in Clans : rows[c] \subseteq rows'[c]
    BY DEF ClanOf, clans
  <2>2. QED
    BY <1>00, <1>2, <2>1, OwnGrows
<1>5. a \in GroupOf(a)
  <2>1. a \in Players /\ member[a] # None => a \in rows[member[a]]
    BY DEF Base, Enrolled
  <2>2. QED
    BY <2>1 DEF GroupOf, ClanOf
<1>6. Reserved'
  <2> SUFFICES ASSUME NEW b \in Actors, Exact', Whole(b)', route'[b] # <<>>, Head(route'[b]) \notin CampTiles
               PROVE  \/ owner'[Head(route'[b])] = None /\ locks'[Head(route'[b])] = b
                      \/ Head(route'[b]) \in Own(b)'
    BY DEF Reserved, Moving
  <2> DEFINE h == Head(route'[b])
  <2>1. CASE b = a
    <3>1. h \in Own(a) \/ (owner[h] = None /\ locks'[h] = a)
      BY <2>1 DEF RouteStep
    <3>2. ASSUME owner[h] = None, h \in Tiles PROVE owner'[h] = None \/ h \in Own(a)'
      <4>1. owner'[h] \in {None, a}
        BY <1>00, <3>2 DEF Free, TypeOK
      <4>2. QED
        BY <1>3, <1>5, <3>2, <4>1 DEF Own
    <3>3. QED
      BY <1>0, <1>4, <2>1, <3>1, <3>2
  <2>2. CASE b # a
    <3>1. route'[b] = route[b] /\ Moving(b) /\ Whole(b) /\ Exact
      BY <1>00, <1>3, <2>2 DEF RouteStep, Moving
    <3>2. CASE h \in Own(b)
      BY <1>4, <3>2
    <3>3. CASE owner[h] = None /\ locks[h] = b
      <4>1. h \in Tiles
        BY <1>00, <3>1 DEF TypeOK, Moving
      <4>2. locks'[h] = b
        BY <2>2, <3>3, <4>1 DEF RouteStep
      <4>3. owner'[h] = None
        BY <1>00, <2>2, <3>3, <4>1 DEF Free, LockedFor, TypeOK
      <4>4. QED
        BY <4>2, <4>3
    <3>4. QED
      BY <3>1, <3>2, <3>3 DEF Reserved
  <2>3. QED
    BY <2>1, <2>2
<1>7. QED
  BY <1>1, <1>6

\* startMove overwrites the lock of its first tile, own or not; that is sound
\* because the planner checked the tile.
LEMMA StartIsRouteStep ==
  ASSUME TypeOK, NoOrphanLock, NEW a \in Actors, StartMove(a)
  PROVE  RouteStep(a)
<1>1. PICK s \in AllPaths :
        /\ FreeTravel(a, s) \/ SingleMove(a, s) \/ LongMove(a, s)
        /\ route' = [route EXCEPT ![a] = s]
        /\ locks' = [locks EXCEPT ![s[1]] = a]
  BY DEF StartMove
<1>2. /\ s \in Seq(Tiles) /\ s # <<>> /\ Len(s) \in Nat /\ Len(s) >= 1
      /\ Head(s) = s[1] /\ s[1] \in Tiles
  BY PathType
<1>3. s[1] \in Own(a) \cup Free(a)
  <2>1. CASE FreeTravel(a, s)
    BY <1>2, <2>1 DEF FreeTravel, On
  <2>2. CASE SingleMove(a, s)
    <3>1. CASE Len(s) = 1
      BY <2>2, <3>1 DEF SingleMove, Target
    <3>2. CASE Len(s) > 1
      <4>1. /\ SubSeq(s, 1, Len(s) - 1)[1] = s[1]
            /\ 1 \in 1..Len(SubSeq(s, 1, Len(s) - 1))
        BY <1>2, <3>2
      <4>2. QED
        BY <2>2, <4>1 DEF SingleMove, On
    <3>3. QED
      BY <1>2, <3>1, <3>2
  <2>3. CASE LongMove(a, s)
    BY <1>2, <2>3 DEF LongMove, On
  <2>4. QED
    BY <1>1, <2>1, <2>2, <2>3
<1>4. owner[s[1]] = None => locks[s[1]] \in {None, a}
  BY <1>3, OwnIsOwned DEF Free, LockedFor
<1>5. ~Moving(a)
  BY DEF StartMove
<1>6. \A t \in Tiles : locks[t] # a
  BY <1>5, ActorsAssumption DEF NoOrphanLock
<1>7. QED
  BY <1>1, <1>2, <1>3, <1>4, <1>6 DEF RouteStep, Own, Free, LockedFor, TypeOK

\* A caravan that gives up its route gives up its locks, and no tile becomes
\* somebody's but a camp tile.
OnlyDrops ==
  /\ \A b \in Actors : route'[b] # <<>> => route'[b] = route[b]
  /\ \A t \in Tiles \ CampTiles : owner[t] = None => owner'[t] = None

LEMMA DropsKeep ==
  ASSUME Base, Base', [Next]_vars, NoOrphanLock, Reserved, up, OnlyDrops,
         \A t \in Tiles : locks[t] # None =>
            locks'[t] = IF route'[locks[t]] = <<>> THEN None ELSE locks[t],
         \A t \in Tiles : locks[t] = None => locks'[t] = None
  PROVE  NoOrphanLock' /\ Reserved'
<1> USE ActorsAssumption
<1>0. TypeOK /\ TypeOK' /\ (Exact' => Exact)
  BY ExactBack DEF Base, Typed
<1>1. NoOrphanLock'
  BY <1>0 DEF NoOrphanLock, OnlyDrops, Moving, TypeOK
<1>2. Reserved'
  <2> SUFFICES ASSUME NEW b \in Actors, Exact', Whole(b)', route'[b] # <<>>, Head(route'[b]) \notin CampTiles
               PROVE  \/ owner'[Head(route'[b])] = None /\ locks'[Head(route'[b])] = b
                      \/ Head(route'[b]) \in Own(b)'
    BY DEF Reserved, Moving
  <2> DEFINE h == Head(route'[b])
  <2>1. route'[b] = route[b] /\ Moving(b) /\ h \in Tiles
    BY <1>0 DEF OnlyDrops, Moving, TypeOK
  <2>2. Whole(b) /\ Exact /\ \A t \in Own(b) : t \in Own(b)'
    BY <1>0, <2>1, KeepsMoving
  <2>3. CASE owner[h] = None /\ locks[h] = b
    <3>1. owner'[h] = None
      BY <2>1, <2>3 DEF OnlyDrops
    <3>2. locks'[h] = b
      BY <2>1, <2>3
    <3>3. QED
      BY <3>1, <3>2
  <2>4. QED
    BY <2>1, <2>2, <2>3 DEF Reserved
<1>3. QED
  BY <1>1, <1>2

\* When the server dies the lock table goes, and what remains of Reserved is
\* where the caravans head.
LEMMA DiesKeeps ==
  ASSUME Base, Base', [Next]_vars, TargetOpen, OneCaravanPerTile, OnlyDrops, Dies
  PROVE  NoOrphanLock' /\ Reserved' /\ TargetOpen' /\ OneCaravanPerTile'
<1> USE ActorsAssumption
<1>0. TypeOK /\ TypeOK' /\ (Exact' => Exact)
  BY ExactBack DEF Base, Typed
<1>1. NoOrphanLock' /\ Reserved'
  BY DEF Dies, NoOrphanLock, Reserved
<1>2. \A b \in Actors : route'[b] # <<>> /\ Whole(b)' =>
        /\ Moving(b) /\ route'[b] = route[b] /\ Whole(b) /\ Head(route[b]) \in Tiles
        /\ \A t \in Own(b) : t \in Own(b)'
  BY <1>0, KeepsMoving DEF OnlyDrops, Moving, TypeOK
<1>3. TargetOpen'
  BY <1>0, <1>2 DEF TargetOpen, OnlyDrops, Moving
<1>4. \A b \in Actors : \A t \in Own(b)' : owner'[t] # None
  BY <1>0, OwnIsOwnedNext
<1>5. OneCaravanPerTile'
  <2> SUFFICES ASSUME Exact', NEW a \in Actors, NEW b \in Actors,
                      a # b, route'[a] # <<>>, route'[b] # <<>>,
                      Head(route'[a]) = Head(route'[b]), Head(route'[a]) \notin CampTiles,
                      Whole(a)', Whole(b)'
               PROVE  owner'[Head(route'[a])] # None
    BY DEF OneCaravanPerTile, Moving
  <2>1. owner[Head(route[a])] # None
    BY <1>0, <1>2 DEF OneCaravanPerTile
  <2>2. Head(route[a]) \in Own(a)
    BY <1>0, <1>2, <2>1 DEF TargetOpen
  <2>3. Head(route'[a]) \in Own(a)'
    BY <1>2, <2>2
  <2>4. QED
    BY <1>4, <2>3
<1>6. QED
  BY <1>1, <1>3, <1>5

-----------------------------------------------------------------------------
(* The inductive invariant.                                                *)

LEMMA IInvInit == Init => IInv
<1> SUFFICES ASSUME Init PROVE IInv
  OBVIOUS
<1>1. NoOrphanLock /\ TargetOpen /\ OneCaravanPerTile /\ Reserved
  BY DEF Init, NoOrphanLock, TargetOpen, OneCaravanPerTile, Reserved, Moving
<1>2. QED
  BY <1>1, BaseInit DEF IInv

LEMMA IInvStep == IInv /\ [Next]_vars => IInv'
<1> USE ActorsAssumption, SubsetsAssumption
<1> SUFFICES ASSUME IInv, [Next]_vars PROVE IInv'
  OBVIOUS
<1>0. Base /\ TypeOK /\ NoOrphanLock /\ TargetOpen /\ OneCaravanPerTile /\ Reserved
  BY DEF IInv, Base, Typed
<1>00. Base' /\ TypeOK'
  BY <1>0, BaseStep DEF Base, Typed
<1>01. \A p \in Players : p \in Actors /\ p # None
  BY DEF Actors
<1>02. ASSUME up, UNCHANGED <<route, locks>>, \A t \in Tiles \ CampTiles : owner[t] = None => owner'[t] = None
       PROVE  NoOrphanLock' /\ Reserved'
  <2>1. \A t \in Tiles : locks[t] # None => route'[locks[t]] # <<>>
    BY <1>0, <1>02 DEF NoOrphanLock, Moving
  <2>2. QED
    BY <1>0, <1>00, <1>02, <2>1, DropsKeep DEF OnlyDrops
<1> DEFINE Held == NoOrphanLock' /\ Reserved'
<1>1. ASSUME NEW p \in Players, JoinSeason(p) PROVE Held /\ up'
  <2>1. PICK t \in CampTiles : owner' = [owner EXCEPT ![t] = p]
    BY <1>1 DEF JoinSeason
  <2>2. up /\ up' /\ UNCHANGED <<route, locks>>
    BY <1>1 DEF JoinSeason, Enters, server
  <2>3. \A u \in Tiles \ CampTiles : owner'[u] = owner[u]
    BY <1>0, <2>1 DEF TypeOK
  <2>4. QED
    BY <1>02, <2>2, <2>3
<1>2. ASSUME NEW p \in Players, QuitSeason(p) PROVE Held /\ up'
  <2>1. /\ up /\ up'
        /\ owner' = [t \in Tiles |-> IF owner[t] = p THEN None ELSE owner[t]]
        /\ route' = [route EXCEPT ![p] = <<>>]
        /\ locks' = IF Moving(p) THEN Unlock(p) ELSE locks
    BY <1>2 DEF QuitSeason, Authed, server
  <2>2. \A t \in Tiles : locks'[t] = IF locks[t] = p THEN None ELSE locks[t]
    BY <1>0, <1>01, <2>1 DEF NoOrphanLock, Unlock, Moving, TypeOK
  <2>3. route'[p] = <<>> /\ \A b \in Actors \ {p} : route'[b] = route[b]
    BY <1>0, <1>01, <2>1 DEF TypeOK
  <2>4. OnlyDrops
    BY <2>1, <2>3 DEF OnlyDrops
  <2>5. \A t \in Tiles : locks[t] # None => locks[t] \in Actors /\ route[locks[t]] # <<>>
    BY <1>0 DEF NoOrphanLock, Moving, TypeOK
  <2>6. \A t \in Tiles : locks[t] # None =>
          locks'[t] = IF route'[locks[t]] = <<>> THEN None ELSE locks[t]
    BY <2>2, <2>3, <2>5
  <2>7. \A t \in Tiles : locks[t] = None => locks'[t] = None
    BY <2>2
  <2>8. QED
    BY <1>0, <1>00, <2>1, <2>4, <2>6, <2>7, DropsKeep
<1>3. ASSUME NEW p \in Players, DonateUnits(p) PROVE Held /\ up'
  BY <1>02, <1>3 DEF DonateUnits, Authed, land, caravans, server
<1>4. ASSUME NEW p \in Players, NEW c \in Clans, CreateClan(p, c) \/ RespondJoin(p, c)
      PROVE Held /\ up'
  BY <1>02, <1>4 DEF CreateClan, RespondJoin, Authed, land, caravans, server
<1>5. ASSUME NEW p \in Players, NEW t \in Tiles, SetClanCamp(p, t) PROVE Held /\ up'
  BY <1>02, <1>5 DEF SetClanCamp, caravans, server
<1>6. ASSUME NEW a \in Actors, BuyUnits(a) PROVE Held /\ up'
  BY <1>02, <1>6 DEF BuyUnits, land, caravans, server
<1>7. ASSUME NEW a \in Actors, StartMove(a) PROVE Held /\ up'
  <2>1. up /\ up' /\ owner' = owner /\ UNCHANGED clans
    BY <1>7 DEF StartMove, land, server
  <2>2. QED
    BY <1>0, <1>00, <1>7, <2>1, StartIsRouteStep, RouteStepKeeps
<1>8. ASSUME NEW a \in Actors, CancelMove(a) PROVE Held /\ up'
  <2>1. up /\ up' /\ DropMigration(a) /\ owner' = owner /\ UNCHANGED clans
    BY <1>8 DEF CancelMove, DropMigration, land, server
  <2>2. QED
    BY <1>0, <1>00, <2>1, DropIsRouteStep, RouteStepKeeps
<1>9. ASSUME NEW a \in Actors, Advance(a) PROVE Held /\ up'
  <2>1. up /\ up' /\ Moving(a) /\ UNCHANGED clans
    BY <1>0, <1>9, AdvanceFacts DEF server
  <2>2. CASE AdvanceOwn(a)
    <3>1. NextStep(a) /\ Head(route[a]) \in Own(a) /\ owner' = owner
      BY <2>2 DEF AdvanceOwn
    <3>2. QED
      BY <1>0, <1>00, <2>1, <3>1, NextIsRouteStep, RouteStepKeeps
  <2>3. CASE AdvanceBlocked(a) \/ AdvanceLose(a)
    <3>1. DropMigration(a) /\ owner' = owner
      BY <2>3 DEF AdvanceBlocked, AdvanceLose, land
    <3>2. QED
      BY <1>0, <1>00, <2>1, <3>1, DropIsRouteStep, RouteStepKeeps
  <2>4. CASE AdvanceWin(a)
    <3>1. /\ NextStep(a) /\ Head(route[a]) \in Free(a)
          /\ owner' = [owner EXCEPT ![Head(route[a])] = a]
      BY <2>4 DEF AdvanceWin, Arrives
    <3>2. QED
      BY <1>0, <1>00, <2>1, <3>1, NextIsRouteStep, RouteStepKeeps
  <2>5. QED
    BY <1>9, <2>2, <2>3, <2>4 DEF Advance
<1>10. ASSUME CloseSeason PROVE Held /\ up'
  BY <1>10 DEF CloseSeason, NoOrphanLock, Reserved, Moving
<1>11. ASSUME Dies PROVE IInv'
  <2>1. OnlyDrops
    <3>1. ASSUME NEW p \in Players, Joins(p) PROVE OnlyDrops
      BY <1>0, <3>1, JoinFacts DEF OnlyDrops, TypeOK
    <3>2. ASSUME NEW p \in Players, Quits(p) PROVE OnlyDrops
      BY <1>0, <1>01, <3>2, QuitFacts DEF OnlyDrops, TypeOK
    <3>3. ASSUME NEW p \in Players, NEW c \in Clans, Enrols(p, c) PROVE OnlyDrops
      BY <1>0, <3>3, EnrolFacts DEF OnlyDrops, land
    <3>4. ASSUME NEW a \in Actors, StartMove(a) \/ Advance(a) PROVE FALSE
      <4>1. crashes' = crashes
        BY <1>0, <3>4, AdvanceFacts DEF StartMove, server
      <4>2. QED
        BY <1>0, <1>11, <4>1 DEF Dies, TypeOK
    <3>5. ASSUME Quiet \/ \E p \in Players, t \in Tiles : SetClanCamp(p, t) PROVE OnlyDrops
      BY <3>5 DEF Quiet, SetClanCamp, OnlyDrops, land, caravans
    <3>6. QED
      BY <1>0, <3>1, <3>2, <3>3, <3>4, <3>5, QuietActions
  <2>2. QED
    BY <1>0, <1>00, <1>11, <2>1, DiesKeeps DEF IInv
<1>12. ASSUME NEW p \in Players, TornJoinSeason(p) \/ TornQuitSeason(p) \/ TornDonate(p) PROVE Dies
  BY <1>12 DEF TornJoinSeason, TornQuitSeason, TornDonate
<1>13. ASSUME NEW p \in Players, NEW c \in Clans, TornEnrol(p, c) PROVE Dies
  BY <1>13 DEF TornEnrol
<1>14. ASSUME Boot PROVE Held /\ up'
  <2>1. up' /\ ~up /\ Rebuilt(locks') /\ UNCHANGED <<clans, owner, route, crashes>>
    BY <1>14 DEF Boot, land
  <2>2. NoOrphanLock'
    BY <2>1 DEF Rebuilt, NoOrphanLock, Moving
  <2>3. ASSUME Exact, NEW a \in Actors, Moving(a), Head(route[a]) \notin CampTiles,
               owner[Head(route[a])] = None
        PROVE  locks'[Head(route[a])] = a
    <3>1. Head(route[a]) \in Tiles
      BY <1>0, <2>3 DEF Moving, TypeOK
    <3>2. \A c \in Clans : Whole(c)
      BY <1>0, <2>1, <2>3 DEF Exact, Base, Enrolled, Typed, TypeOK
    <3>3. \A b \in Actors : Whole(b)
      <4>1. \A b \in Actors : ClanOf(b) \in Clans \cup {None}
        BY <1>0 DEF ClanOf, TypeOK, Actors
      <4>2. QED
        BY <3>2, <4>1 DEF Whole, ClanOf
    <3>4. {b \in Actors : Moving(b) /\ Head(route[b]) = Head(route[a])} = {a}
      BY <1>0, <2>3, <3>3 DEF OneCaravanPerTile
    <3>5. QED
      BY <2>1, <3>1, <3>4 DEF Rebuilt
  <2>4. Exact' = Exact /\ \A a \in Actors : Moving(a)' = Moving(a) /\ Own(a)' = Own(a) /\ Whole(a)' = Whole(a)
    BY <2>1 DEF Exact, Moving, Own, GroupOf, ClanOf, Whole, clans
  <2>5. Reserved'
    BY <1>0, <2>1, <2>3, <2>4 DEF TargetOpen, Reserved
  <2>6. QED
    BY <2>1, <2>2, <2>5
<1>15. ASSUME UNCHANGED vars PROVE IInv'
  <2>1. UNCHANGED <<clans, owner, route, locks, up, crashes>>
    BY <1>15 DEF vars, land, caravans, server
  <2>2. Exact' = Exact /\ \A a \in Actors : Moving(a)' = Moving(a) /\ Own(a)' = Own(a) /\ Whole(a)' = Whole(a)
    BY <2>1 DEF Exact, Moving, Own, GroupOf, ClanOf, Whole, clans
  <2>3. NoOrphanLock'
    BY <1>0, <2>1 DEF NoOrphanLock, Moving
  <2>4. TargetOpen' /\ OneCaravanPerTile' /\ Reserved'
    BY <1>0, <2>1, <2>2 DEF TargetOpen, OneCaravanPerTile, Reserved
  <2>5. QED
    BY <1>00, <2>3, <2>4 DEF IInv
<1>16. ASSUME Held, up' PROVE IInv'
  <2>1. \A b \in Actors : \A t \in Own(b)' : owner'[t] # None
    BY <1>00, OwnIsOwnedNext
  <2>2. TargetOpen' /\ OneCaravanPerTile'
    BY <1>00, <1>16, <2>1 DEF Reserved, TargetOpen, OneCaravanPerTile
  <2>3. QED
    BY <1>00, <1>16, <2>2 DEF IInv
<1>17. QED
  BY <1>1, <1>2, <1>3, <1>4, <1>5, <1>6, <1>7, <1>8, <1>9, <1>10, <1>11, <1>12, <1>13, <1>14,
     <1>15, <1>16
  DEF Next, Crash

\* No lock outlives the caravan it was taken for, for any number of actors,
\* any map, any routes and any number of restarts.
THEOREM NoLockLeaks == Spec => []NoOrphanLock
<1>1. IInv => NoOrphanLock
  BY DEF IInv
<1>2. QED
  BY <1>1, IInvInit, IInvStep, PTL DEF Spec

\* The lock of a free tile excludes every other caravan of a group without
\* leftover rows, before and after a restart, for any number of actors, any
\* map and any routes.
THEOREM LockExclusion == Spec => [](OneCaravanPerTile /\ Reserved)
<1>1. IInv => OneCaravanPerTile /\ Reserved
  BY DEF IInv
<1>2. QED
  BY <1>1, IInvInit, IInvStep, PTL DEF Spec

-----------------------------------------------------------------------------
(* Land, routes and units.                                                 *)

\* The camp of a clan is the land of a member, who never leaves.
ClanCamps ==
  \A c \in Clans : camp[c] # None =>
    \E p \in Players : owner[camp[c]] = p /\ member[p] = c

Settled == ClanCamps /\ StandsOnOwnLand

\* Only actors that have a camp are on the way, and their routes run from tile
\* to neighbouring tile.
OnTheWay ==
  /\ \A a \in Actors : Moving(a) => camp[a] # None
  /\ \A a \in Actors : \A i \in 1..Len(route[a]) - 1 : Adjacent(route[a][i], route[a][i + 1])

Roads == OnTheWay /\ NextTileAdjacent

LInv == Base /\ Settled /\ Roads

-----------------------------------------------------------------------------
(* Camps and armies stand on land of their own group.                      *)

LEMMA ClanCampsStep ==
  ASSUME Base, Base', ClanCamps, [Next]_vars
  PROVE  ClanCamps'
<1> USE ActorsAssumption, SubsetsAssumption
<1>0. TypeOK /\ Enrolled
  BY DEF Base, Typed
<1>01. \A c \in Clans : c \in Actors /\ c \notin Players
  BY DEF Actors
<1>1. ASSUME \A c \in Clans : camp'[c] = camp[c],
             \A t \in Tiles, p \in Players : owner[t] = p /\ member[p] # None =>
               owner'[t] = p /\ member'[p] = member[p]
      PROVE  ClanCamps'
  <2> SUFFICES ASSUME NEW c \in Clans, camp'[c] # None
               PROVE  \E p \in Players : owner'[camp'[c]] = p /\ member'[p] = c
    BY DEF ClanCamps
  <2>1. camp'[c] = camp[c] /\ camp[c] \in Tiles /\ c # None
    BY <1>0, <1>01, <1>1 DEF TypeOK
  <2>2. PICK p \in Players : owner[camp[c]] = p /\ member[p] = c
    BY <2>1 DEF ClanCamps
  <2>3. owner'[camp[c]] = p /\ member'[p] = c
    BY <1>1, <2>1, <2>2
  <2>4. QED
    BY <2>1, <2>3
<1>2. ASSUME NEW p \in Players, Joins(p) PROVE ClanCamps'
  <2>1. PICK t \in CampTiles :
          /\ owner[t] = None /\ status[p] = "new"
          /\ owner' = owner \/ owner' = [owner EXCEPT ![t] = p]
          /\ camp' = [camp EXCEPT ![p] = t] /\ member' = [member EXCEPT ![p] = None]
    BY <1>2, JoinFacts
  <2>2. \A u \in Tiles : owner[u] # p
    BY <1>0, <2>1 DEF Enrolled
  <2>3. \A q \in Players : q # p => member'[q] = member[q]
    BY <1>0, <2>1 DEF TypeOK
  <2>4. \A u \in Tiles : owner[u] # None => owner'[u] = owner[u]
    BY <1>0, <2>1 DEF TypeOK
  <2>5. \A c \in Clans : camp'[c] = camp[c]
    BY <1>0, <1>01, <2>1 DEF TypeOK
  <2>6. \A q \in Players : q # None
    BY DEF Actors
  <2>7. QED
    BY <1>1, <2>2, <2>3, <2>4, <2>5, <2>6
<1>3. ASSUME NEW p \in Players, Quits(p) PROVE ClanCamps'
  <2>1. /\ member[p] = None /\ UNCHANGED <<member, camp>>
        /\ owner' = [t \in Tiles |-> IF owner[t] = p THEN None ELSE owner[t]]
    BY <1>0, <1>3, QuitFacts DEF clans
  <2>2. QED
    BY <1>1, <2>1
<1>4. ASSUME NEW p \in Players, NEW c \in Clans, Enrols(p, c) PROVE ClanCamps'
  <2>1. /\ member[p] = None /\ UNCHANGED <<owner, camp>>
        /\ member' = [member EXCEPT ![p] = c] \/ member' = member
    BY <1>0, <1>4, EnrolFacts DEF land
  <2>2. \A q \in Players : member[q] # None => member'[q] = member[q]
    BY <1>0, <2>1 DEF TypeOK
  <2>3. QED
    BY <1>1, <2>1, <2>2
<1>5. ASSUME NEW p \in Players, NEW t \in Tiles, SetClanCamp(p, t) PROVE ClanCamps'
  <2> DEFINE d == member[p]
  <2>1. /\ d # None /\ owner[t] = p /\ camp' = [camp EXCEPT ![d] = t]
        /\ UNCHANGED <<member, owner>>
    BY <1>5 DEF SetClanCamp, clans
  <2>2. d \in Clans /\ d \in Actors
    BY <1>0, <1>01, <2>1 DEF TypeOK
  <2>3. camp'[d] = t /\ \A c \in Clans : c # d => camp'[c] = camp[c]
    BY <1>0, <1>01, <2>1, <2>2 DEF TypeOK
  <2>4. QED
    BY <2>1, <2>3 DEF ClanCamps
<1>6. ASSUME NEW a \in Actors, Advance(a) PROVE ClanCamps'
  <2>1. UNCHANGED <<member, camp>> /\ \A t \in Tiles : owner[t] # None => owner'[t] = owner[t]
    BY <1>0, <1>6, AdvanceFacts DEF clans, TypeOK
  <2>2. \A q \in Players : q # None
    BY DEF Actors
  <2>3. QED
    BY <1>1, <2>1, <2>2
<1>7. ASSUME Quiet \/ \E a \in Actors : StartMove(a) PROVE ClanCamps'
  <2>1. UNCHANGED <<member, owner, camp>>
    BY <1>7 DEF Quiet, StartMove, clans, land
  <2>2. QED
    BY <1>1, <2>1
<1>8. QED
  BY <1>0, <1>2, <1>3, <1>4, <1>5, <1>6, <1>7, QuietActions

\* Who was not cut short in joining or quitting and is in the season.
Steady(a) == a \in Players => status[a] = "in" /\ a \notin torn

LEMMA SteadyStays ==
  ASSUME Base, NEW a \in Actors, Steady(a), Steady(a)'
  PROVE  \A p \in Players : a = p => ~Joins(p) /\ ~Quits(p)
<1> SUFFICES ASSUME a \in Players PROVE ~Joins(a) /\ ~Quits(a)
  OBVIOUS
<1>1. status[a] = "in" /\ status'[a] = "in" /\ a \notin torn'
  BY DEF Steady
<1>2. ~Joins(a)
  BY <1>1, JoinFacts
<1>3. ~Quits(a)
  BY <1>1, QuitFacts DEF Base, Typed, TypeOK
<1>4. QED
  BY <1>2, <1>3

LEMMA ClanCampIsOwn ==
  ASSUME Base, ClanCamps, NEW c \in Clans, camp[c] # None
  PROVE  camp[c] \in Own(c)
<1>1. PICK p \in Players : owner[camp[c]] = p /\ member[p] = c
  BY DEF ClanCamps
<1>2. c # None /\ camp[c] \in Tiles
  BY ActorsAssumption DEF Base, Typed, TypeOK, Actors
<1>3. p \in rows[c]
  BY <1>1, <1>2 DEF Base, Enrolled
<1>4. QED
  BY <1>1, <1>2, <1>3 DEF Own, GroupOf, ClanOf

LEMMA ClanCampIsOwnNext ==
  ASSUME Base', ClanCamps', NEW c \in Clans, camp'[c] # None
  PROVE  camp'[c] \in Own(c)'
<1>1. PICK p \in Players : owner'[camp'[c]] = p /\ member'[p] = c
  BY DEF ClanCamps
<1>2. c # None /\ camp'[c] \in Tiles
  BY ActorsAssumption DEF Base, Typed, TypeOK, Actors
<1>3. p \in rows'[c]
  BY <1>1, <1>2 DEF Base, Enrolled
<1>4. QED
  BY <1>1, <1>2, <1>3 DEF Own, GroupOf, ClanOf

LEMMA SettledStep ==
  ASSUME Base, Base', Settled, [Next]_vars
  PROVE  Settled'
<1> USE ActorsAssumption, SubsetsAssumption
<1>0. TypeOK /\ Enrolled /\ ClanCamps /\ StandsOnOwnLand
  BY DEF Base, Typed, Settled
<1>00. ClanCamps' /\ TypeOK'
  BY <1>0, ClanCampsStep DEF Base, Typed
<1>01. \A c \in Clans : camp'[c] # None => camp'[c] \in Own(c)'
  BY <1>00, ClanCampIsOwnNext
<1>02. \A p \in Players : p \in Actors /\ p # None /\ p \notin Clans
  BY DEF Actors
<1> SUFFICES ASSUME NEW a \in Actors, Whole(a)', Steady(a)'
             PROVE  /\ camp'[a] # None => camp'[a] \in Own(a)'
                    /\ pos'[a] # None => pos'[a] \in Own(a)'
  BY <1>00, <1>01 DEF Settled, StandsOnOwnLand, Steady
<1> DEFINE Stands == /\ camp'[a] # None => camp'[a] \in Own(a)'
                     /\ pos'[a] # None => pos'[a] \in Own(a)'
<1>03. Steady(a) => Whole(a) /\ \A t \in Own(a) : t \in Own(a)'
  BY SteadyStays, Keeps
<1>1. ASSUME Steady(a), camp'[a] = camp[a], pos'[a] \in {pos[a], camp[a]}
      PROVE  Stands
  BY <1>0, <1>03, <1>1 DEF StandsOnOwnLand, Steady
<1>2. ASSUME NEW p \in Players, Joins(p) PROVE Stands
  <2>1. PICK t \in CampTiles :
          /\ owner[t] = None /\ status' = [status EXCEPT ![p] = "in"]
          /\ \/ torn' = torn /\ owner' = [owner EXCEPT ![t] = p]
             \/ torn' = torn \cup {p}
          /\ camp' = [camp EXCEPT ![p] = t] /\ pos' = [pos EXCEPT ![p] = t]
          /\ member' = [member EXCEPT ![p] = None]
    BY <1>2, JoinFacts
  <2>2. CASE a = p
    <3>1. owner' = [owner EXCEPT ![t] = p]
      BY <2>1, <2>2 DEF Steady
    <3>2. member'[p] = None /\ owner'[t] = p /\ camp'[p] = t /\ pos'[p] = t
      BY <1>0, <1>02, <2>1, <3>1 DEF TypeOK
    <3>3. t \in Own(p)'
      BY <1>02, <3>2 DEF Own, GroupOf, ClanOf
    <3>4. QED
      BY <2>2, <3>2, <3>3
  <2>3. CASE a # p
    <3>1. /\ camp'[a] = camp[a] /\ pos'[a] = pos[a]
          /\ a \in Players => status'[a] = status[a]
      BY <1>0, <2>1, <2>3 DEF TypeOK
    <3>2. Steady(a)
      BY <2>1, <3>1 DEF Steady
    <3>3. QED
      BY <1>1, <3>1, <3>2
  <2>4. QED
    BY <2>2, <2>3
<1>3. ASSUME NEW p \in Players, Quits(p) PROVE Stands
  <2>1. /\ UNCHANGED <<camp, pos>> /\ torn \subseteq torn'
        /\ \A q \in Players : status'[q] = "in" => status[q] = "in"
    BY <1>0, <1>3, QuitFacts DEF TypeOK
  <2>2. Steady(a)
    BY <2>1 DEF Steady
  <2>3. QED
    BY <1>1, <2>1, <2>2
<1>4. ASSUME NEW p \in Players, NEW c \in Clans, Enrols(p, c) PROVE Stands
  <2>1. UNCHANGED <<people, land>>
    BY <1>0, <1>4, EnrolFacts
  <2>2. QED
    BY <1>1, <2>1 DEF Steady, people, land
<1>5. ASSUME NEW p \in Players, NEW t \in Tiles, SetClanCamp(p, t) PROVE Stands
  <2> DEFINE d == member[p]
  <2>1. /\ d # None /\ camp' = [camp EXCEPT ![d] = t] /\ pos' = [pos EXCEPT ![d] = t]
        /\ UNCHANGED people
    BY <1>5 DEF SetClanCamp
  <2>2. d \in Clans /\ d \in Actors
    BY <1>0, <2>1 DEF TypeOK, Actors
  <2>3. CASE a = d
    BY <1>0, <1>01, <2>1, <2>2, <2>3 DEF TypeOK
  <2>4. CASE a # d
    <3>1. camp'[a] = camp[a] /\ pos'[a] = pos[a]
      BY <1>0, <2>1, <2>4 DEF TypeOK
    <3>2. QED
      BY <1>1, <2>1, <3>1 DEF Steady, people
  <2>5. QED
    BY <2>3, <2>4
<1>6. ASSUME NEW b \in Actors, Advance(b) PROVE Stands
  <2>1. /\ Head(route[b]) \in Tiles
        /\ UNCHANGED <<people, clans, camp>>
        /\ \/ /\ pos' = [pos EXCEPT ![b] = Head(route[b])]
              /\ Head(route[b]) \in Own(b) \/ owner'[Head(route[b])] = b
           \/ pos' = pos \/ pos' = [pos EXCEPT ![b] = camp[b]]
    BY <1>0, <1>6, AdvanceFacts
  <2>2. CASE pos'[a] \in {pos[a], camp[a]}
    BY <1>1, <2>1, <2>2 DEF Steady, people
  <2>3. CASE pos'[a] \notin {pos[a], camp[a]}
    <3>1. a = b /\ pos'[a] = Head(route[a])
      BY <1>0, <2>1, <2>3 DEF TypeOK
    <3>2. Head(route[a]) \in Own(a) \/ owner'[Head(route[a])] = a
      BY <1>0, <2>1, <2>3, <3>1 DEF TypeOK
    <3>3. Steady(a) /\ camp'[a] = camp[a]
      BY <2>1 DEF Steady, people
    <3>4. a \in GroupOf(a)'
      <4>1. a \in Players /\ member'[a] # None => a \in rows'[member'[a]]
        BY <1>0, <2>1 DEF Enrolled, clans
      <4>2. QED
        BY <4>1 DEF GroupOf, ClanOf, Actors
    <3>5. pos'[a] \in Own(a)'
      BY <1>03, <2>1, <3>1, <3>2, <3>3, <3>4 DEF Own
    <3>6. camp'[a] # None => camp'[a] \in Own(a)'
      BY <1>0, <1>03, <3>3 DEF StandsOnOwnLand, Steady
    <3>7. QED
      BY <3>5, <3>6
  <2>4. QED
    BY <2>2, <2>3
<1>7. ASSUME Quiet \/ \E b \in Actors : StartMove(b) PROVE Stands
  <2>1. UNCHANGED <<people, land>>
    BY <1>7 DEF Quiet, StartMove
  <2>2. QED
    BY <1>1, <2>1 DEF Steady, people, land
<1>8. QED
  BY <1>0, <1>2, <1>3, <1>4, <1>5, <1>6, <1>7, QuietActions

-----------------------------------------------------------------------------
(* Routes begin next to the army.                                          *)

\* One step of the loop either ends the journey or shortens the route by the
\* tile the army has entered.
LEMMA NextStepRoute ==
  ASSUME TypeOK, NEW a \in Actors, Moving(a), NextStep(a)
  PROVE  \/ route' = [route EXCEPT ![a] = <<>>]
         \/ Tail(route[a]) # <<>> /\ route' = [route EXCEPT ![a] = Tail(route[a])]
BY DEF NextStep, DropMigration

\* Camps are never given up, armies stay put and routes are kept or dropped.
LEMMA RoadsKept ==
  ASSUME TypeOK, Roads,
         \A a \in Actors : route'[a] = route[a] \/ route'[a] = <<>>,
         \A a \in Actors : route'[a] # <<>> => camp'[a] # None /\ pos'[a] = pos[a]
  PROVE  Roads'
<1>1. OnTheWay'
  <2>1. \A p \in Players : p \in Actors BY DEF Actors
  <2>2. \A a \in Actors : \A i \in 1..Len(route'[a]) - 1 : Adjacent(route'[a][i], route'[a][i + 1])
    <3> SUFFICES ASSUME NEW a \in Actors, NEW i \in 1..Len(route'[a]) - 1
                 PROVE  Adjacent(route'[a][i], route'[a][i + 1])
      OBVIOUS
    <3>1. CASE route'[a] = route[a] BY <3>1 DEF Roads, OnTheWay
    <3>2. CASE route'[a] = <<>> BY <3>2
    <3> QED BY <3>1, <3>2
  <2> QED BY <2>1, <2>2 DEF Roads, OnTheWay, Moving
<1>2. NextTileAdjacent' BY DEF Roads, NextTileAdjacent, Moving
<1> QED BY <1>1, <1>2 DEF Roads

LEMMA RoadsStep ==
  ASSUME Base, Roads, [Next]_vars
  PROVE  Roads'
<1> USE ActorsAssumption
<1>0. TypeOK /\ Enrolled BY DEF Base, Typed
<1>01. \A p \in Players : p \in Actors BY DEF Actors
<1>1. ASSUME UNCHANGED <<camp, pos>>,
             \A a \in Actors : route'[a] = route[a] \/ route'[a] = <<>>
      PROVE  Roads'
  <2>1. \A a \in Actors : route'[a] # <<>> => camp[a] # None BY <1>1 DEF Roads, OnTheWay, Moving
  <2> QED BY <1>0, <1>1, <2>1, RoadsKept
<1>2. ASSUME NEW p \in Players, Joins(p) PROVE Roads'
  <2>1. PICK t \in CampTiles :
          /\ status[p] = "new" /\ camp' = [camp EXCEPT ![p] = t] /\ pos' = [pos EXCEPT ![p] = t]
          /\ route' = route
    BY <1>2, JoinFacts
  <2>2. route[p] = <<>> BY <1>0, <2>1 DEF Enrolled, Moving
  <2>3. \A a \in Actors \ {p} : camp'[a] = camp[a] /\ pos'[a] = pos[a] BY <1>0, <2>1 DEF TypeOK
  <2>4. \A a \in Actors : route'[a] # <<>> => camp'[a] # None /\ pos'[a] = pos[a]
    BY <2>1, <2>2, <2>3 DEF Roads, OnTheWay, Moving
  <2> QED BY <1>0, <2>1, <2>4, RoadsKept
<1>3. ASSUME NEW p \in Players, Quits(p) PROVE Roads'
  <2>1. route' = [route EXCEPT ![p] = <<>>] /\ UNCHANGED <<camp, pos>> BY <1>0, <1>3, QuitFacts
  <2>2. \A a \in Actors : route'[a] = route[a] \/ route'[a] = <<>> BY <1>0, <1>01, <2>1 DEF TypeOK
  <2> QED BY <1>1, <2>1, <2>2
<1>4. ASSUME NEW p \in Players, NEW t \in Tiles, SetClanCamp(p, t) PROVE Roads'
  <2> DEFINE c == member[p]
  <2>1. /\ c # None /\ camp[c] = None /\ camp' = [camp EXCEPT ![c] = t] /\ pos' = [pos EXCEPT ![c] = t]
        /\ route' = route
    BY <1>4 DEF SetClanCamp, caravans
  <2>2. c \in Actors BY <1>0, <2>1 DEF TypeOK, Actors
  <2>3. route[c] = <<>> BY <2>1, <2>2 DEF Roads, OnTheWay, Moving
  <2>4. \A a \in Actors : a # c => camp'[a] = camp[a] /\ pos'[a] = pos[a] BY <1>0, <2>1 DEF TypeOK
  <2>5. \A a \in Actors : route'[a] # <<>> => camp'[a] # None /\ pos'[a] = pos[a]
    BY <2>1, <2>3, <2>4 DEF Roads, OnTheWay, Moving
  <2> HIDE DEF c
  <2> QED BY <1>0, <2>1, <2>5, RoadsKept
<1>5. ASSUME NEW a \in Actors, StartMove(a) PROVE Roads'
  <2>1. PICK s \in AllPaths :
          /\ camp[a] # None /\ pos[a] # None
          /\ Adjacent(pos[a], s[1])
          /\ route' = [route EXCEPT ![a] = s]
          /\ UNCHANGED <<camp, pos>>
    BY <1>5 DEF StartMove, From, land
  <2>2. s # <<>> /\ Head(s) = s[1] BY PathType
  <2>3. \A i \in 1..Len(s) - 1 : Adjacent(s[i], s[i + 1]) BY DEF AllPaths, IsPath
  <2>4. route'[a] = s /\ \A b \in Actors \ {a} : route'[b] = route[b] BY <1>0, <2>1 DEF TypeOK
  <2>5. OnTheWay'
    <3>2. \A b \in Actors : route'[b] # <<>> => camp'[b] # None
      BY <2>1, <2>4 DEF Roads, OnTheWay, Moving
    <3>3. \A b \in Actors : \A i \in 1..Len(route'[b]) - 1 : Adjacent(route'[b][i], route'[b][i + 1])
      <4> SUFFICES ASSUME NEW b \in Actors, NEW i \in 1..Len(route'[b]) - 1
                   PROVE  Adjacent(route'[b][i], route'[b][i + 1])
        OBVIOUS
      <4>1. CASE b = a BY <2>3, <2>4, <4>1
      <4>2. CASE b # a
        <5>1. route'[b] = route[b] BY <2>4, <4>2
        <5> QED BY <5>1 DEF Roads, OnTheWay
      <4> QED BY <4>1, <4>2
    <3> QED BY <3>2, <3>3 DEF OnTheWay, Moving
  <2>6. NextTileAdjacent' BY <2>1, <2>2, <2>4 DEF Roads, NextTileAdjacent, Moving
  <2> QED BY <2>5, <2>6 DEF Roads
<1>6. ASSUME NEW a \in Actors, Advance(a) PROVE Roads'
  <2>1. /\ Moving(a) /\ Head(route[a]) \in Tiles
        /\ camp' = camp
        /\ \/ /\ pos' = [pos EXCEPT ![a] = Head(route[a])]
              /\ NextStep(a)
           \/ /\ pos' = pos \/ pos' = [pos EXCEPT ![a] = camp[a]]
              /\ DropMigration(a)
    BY <1>0, <1>6, AdvanceFacts
  <2>2. \A b \in Actors \ {a} : pos'[b] = pos[b] BY <1>0, <2>1 DEF TypeOK
  <2>3. CASE route' = [route EXCEPT ![a] = <<>>]
    <3>1. route'[a] = <<>> /\ \A b \in Actors \ {a} : route'[b] = route[b] BY <1>0, <2>3 DEF TypeOK
    <3>2. \A b \in Actors : route'[b] # <<>> => camp'[b] # None /\ pos'[b] = pos[b]
      BY <2>1, <2>2, <3>1 DEF Roads, OnTheWay, Moving
    <3> QED BY <1>0, <2>1, <3>1, <3>2, RoadsKept
  <2>4. CASE /\ pos' = [pos EXCEPT ![a] = Head(route[a])]
             /\ Tail(route[a]) # <<>> /\ route' = [route EXCEPT ![a] = Tail(route[a])]
    <3> DEFINE r == route[a]
    <3>1. r \in Seq(Tiles) /\ r # <<>> BY <1>0, <2>1 DEF TypeOK, Moving
    <3>2. /\ Tail(r) \in Seq(Tiles) /\ Len(r) \in Nat /\ Len(Tail(r)) = Len(r) - 1 /\ Len(r) >= 2
          /\ Head(r) = r[1] /\ Head(Tail(r)) = r[2]
          /\ \A i \in 1..Len(r) - 1 : Tail(r)[i] = r[i + 1]
      BY <2>4, <3>1
    <3>3. \A i \in 1..Len(r) - 1 : Adjacent(r[i], r[i + 1]) BY DEF Roads, OnTheWay
    <3>4. route'[a] = Tail(r) /\ \A b \in Actors \ {a} : route'[b] = route[b]
      BY <1>0, <2>4 DEF TypeOK
    <3>5. pos'[a] = Head(r) /\ pos'[a] # None BY <1>0, <2>1, <2>4 DEF TypeOK
    <3> HIDE DEF r
    <3>6. NextTileAdjacent'
      <4>1. Adjacent(Head(r), Head(Tail(r))) BY <3>2, <3>3
      <4> QED BY <2>2, <3>4, <3>5, <4>1 DEF Roads, NextTileAdjacent, Moving
    <3>7. \A i \in 1..Len(Tail(r)) - 1 : Adjacent(Tail(r)[i], Tail(r)[i + 1])
      <4> SUFFICES ASSUME NEW i \in 1..Len(Tail(r)) - 1 PROVE Adjacent(Tail(r)[i], Tail(r)[i + 1])
        OBVIOUS
      <4>1. i \in 1..Len(r) - 1 /\ i + 1 \in 1..Len(r) - 1 BY <3>2
      <4>2. Tail(r)[i] = r[i + 1] /\ Tail(r)[i + 1] = r[(i + 1) + 1] BY <3>2, <4>1
      <4> QED BY <3>3, <4>1, <4>2
    <3>8. \A b \in Actors : \A i \in 1..Len(route'[b]) - 1 : Adjacent(route'[b][i], route'[b][i + 1])
      <4> SUFFICES ASSUME NEW b \in Actors, NEW i \in 1..Len(route'[b]) - 1
                   PROVE  Adjacent(route'[b][i], route'[b][i + 1])
        OBVIOUS
      <4>1. CASE b = a BY <3>4, <3>7, <4>1
      <4>2. CASE b # a
        <5>1. route'[b] = route[b] BY <3>4, <4>2
        <5> QED BY <5>1 DEF Roads, OnTheWay
      <4> QED BY <4>1, <4>2
    <3>9. OnTheWay' BY <2>1, <3>4, <3>8 DEF Roads, OnTheWay, Moving
    <3> QED BY <3>6, <3>9 DEF Roads
  <2> QED BY <1>0, <2>1, <2>3, <2>4, NextStepRoute DEF DropMigration
<1>7. ASSUME NEW p \in Players, NEW c \in Clans, Enrols(p, c) PROVE Roads'
  <2>1. UNCHANGED <<camp, pos, route>> BY <1>0, <1>7, EnrolFacts DEF land
  <2> QED BY <1>1, <2>1
<1>8. Quiet => Roads' BY <1>1 DEF Quiet, land
<1> QED BY <1>0, <1>2, <1>3, <1>4, <1>5, <1>6, <1>7, <1>8, QuietActions

LEMMA LInvInit == Init => LInv
<1> SUFFICES ASSUME Init PROVE LInv OBVIOUS
<1>1. Settled BY ActorsAssumption DEF Init, Settled, ClanCamps, StandsOnOwnLand, Actors
<1>2. \A a \in Actors : route[a] = <<>> BY DEF Init
<1>3. Roads
  <2>1. Len(<<>>) = 0 OBVIOUS
  <2> QED BY <1>2, <2>1 DEF Roads, OnTheWay, NextTileAdjacent, Moving, Actors
<1> QED BY <1>1, <1>3, BaseInit DEF LInv

LEMMA LInvStep == LInv /\ [Next]_vars => LInv'
BY BaseStep, SettledStep, RoadsStep DEF LInv

\* The next tile of a caravan is a neighbour of the tile it stands on, on any
\* map and through any restarts (the loop of advance in tick.ts).
THEOREM RoutesDoNotJump == Spec => []NextTileAdjacent
<1>1. LInv => NextTileAdjacent BY DEF LInv, Roads
<1> QED BY <1>1, LInvInit, LInvStep, PTL DEF Spec

\* Camps and armies stand on land of their own group whatever was captured,
\* lost, cancelled or left before (actions.ts and tick.ts), but for players
\* whose joining or quitting a crash cut short and for groups with rows left
\* over in clan_members.
THEOREM ArmiesAtHome == Spec => []StandsOnOwnLand
<1>1. LInv => StandsOnOwnLand BY DEF LInv, Settled
<1> QED BY <1>1, LInvInit, LInvStep, PTL DEF Spec

-----------------------------------------------------------------------------
(* No unit is made on the way.                                             *)

Accounts ==
  \A a \in Actors : IsFiniteSet(Guarded(a)) /\ units[a] + Cardinality(Guarded(a)) <= bought[a]

\* Guardians never grow in number while units and purchases do not fall behind.
LEMMA AccountsKept ==
  ASSUME Typed, Typed', Accounts, NEW a \in Actors, Guarded(a)' \subseteq Guarded(a),
         units'[a] - units[a] <= bought'[a] - bought[a]
  PROVE  IsFiniteSet(Guarded(a)') /\ units'[a] + Cardinality(Guarded(a)') <= bought'[a]
<1>1. IsFiniteSet(Guarded(a)) /\ units[a] + Cardinality(Guarded(a)) <= bought[a] BY DEF Accounts
<1>2. /\ IsFiniteSet(Guarded(a)')
      /\ Cardinality(Guarded(a)') \in Nat /\ Cardinality(Guarded(a)) \in Nat
      /\ Cardinality(Guarded(a)') <= Cardinality(Guarded(a))
  BY <1>1, FS_Subset, FS_CardinalityType
<1>3. units[a] \in Nat /\ units'[a] \in Nat /\ bought[a] \in Nat /\ bought'[a] \in Nat
  BY BoundsAssumption DEF Typed, TypeOK
<1> QED BY <1>1, <1>2, <1>3

LEMMA AccountsStep ==
  ASSUME LInv, LInv', Accounts, [Next]_vars
  PROVE  Accounts'
<1> USE ActorsAssumption, BoundsAssumption
<1> SUFFICES ASSUME NEW b \in Actors
             PROVE  IsFiniteSet(Guarded(b)') /\ units'[b] + Cardinality(Guarded(b)') <= bought'[b]
  BY DEF Accounts
<1> DEFINE Goal == IsFiniteSet(Guarded(b)') /\ units'[b] + Cardinality(Guarded(b)') <= bought'[b]
<1>0. TypeOK /\ Typed /\ Typed' /\ Enrolled BY DEF LInv, Base, Typed
<1>00. /\ \A a \in Actors : units[a] \in Nat /\ bought[a] \in Nat
       /\ \A n \in Batches : n \in Nat
  BY <1>0 DEF TypeOK
<1>1. ASSUME UNCHANGED <<owner, camp>>, units'[b] - units[b] <= bought'[b] - bought[b] PROVE Goal
  <2>1. Guarded(b)' \subseteq Guarded(b) BY <1>1 DEF Guarded
  <2> QED BY <1>0, <1>1, <2>1, AccountsKept
<1>2. ASSUME UNCHANGED <<owner, camp, units, bought>> PROVE Goal BY <1>00, <1>1, <1>2
<1>3. ASSUME NEW p \in Players, Joins(p) PROVE Goal
  <2>1. PICK t \in CampTiles : /\ status[p] = "new" /\ camp' = [camp EXCEPT ![p] = t]
                               /\ owner' = owner \/ owner' = [owner EXCEPT ![t] = p]
                               /\ units' = [units EXCEPT ![p] = 0] /\ bought' = [bought EXCEPT ![p] = 0]
    BY <1>3, JoinFacts
  <2>2. p \in Actors /\ \A u \in Tiles : owner[u] # p BY <1>0, <2>1 DEF Enrolled, Actors
  <2>3. CASE b = p
    <3>1. camp'[p] = t /\ \A u \in Tiles : u # t => owner'[u] # p BY <1>0, <2>1, <2>2 DEF TypeOK
    <3>2. Guarded(b)' = {} BY <2>3, <3>1 DEF Guarded
    <3>3. units'[b] = 0 /\ bought'[b] = 0 BY <1>0, <2>1, <2>3 DEF TypeOK
    <3> QED BY <3>2, <3>3, FS_EmptySet
  <2>4. CASE b # p
    <3>1. camp'[b] = camp[b] /\ \A u \in Tiles : owner'[u] = b => owner[u] = b
      BY <1>0, <2>1, <2>4 DEF TypeOK
    <3>2. Guarded(b)' \subseteq Guarded(b) BY <3>1 DEF Guarded
    <3>3. units'[b] = units[b] /\ bought'[b] = bought[b] BY <1>0, <2>1, <2>4 DEF TypeOK
    <3> QED BY <1>0, <1>00, <3>2, <3>3, AccountsKept
  <2> QED BY <2>3, <2>4
<1>4. ASSUME NEW p \in Players, Quits(p) PROVE Goal
  <2>1. /\ owner' = [t \in Tiles |-> IF owner[t] = p THEN None ELSE owner[t]] /\ camp' = camp
        /\ \/ units' = [units EXCEPT ![p] = 0] /\ bought' = [bought EXCEPT ![p] = 0]
           \/ units' = units /\ bought' = bought
    BY <1>0, <1>4, QuitFacts DEF army
  <2>2. b # None BY DEF Actors
  <2>3. Guarded(b)' \subseteq Guarded(b) BY <2>1, <2>2 DEF Guarded
  <2>4. CASE units'[b] = units[b] /\ bought'[b] = bought[b]
    BY <1>0, <1>00, <2>3, <2>4, AccountsKept
  <2>5. CASE b = p /\ units'[b] = 0 /\ bought'[b] = 0
    <3>1. Guarded(b)' = {} BY <2>1, <2>2, <2>5 DEF Guarded
    <3> QED BY <2>5, <3>1, FS_EmptySet
  <2>6. \/ units'[b] = units[b] /\ bought'[b] = bought[b]
        \/ b = p /\ units'[b] = 0 /\ bought'[b] = 0
    BY <1>0, <2>1 DEF TypeOK
  <2> QED BY <2>4, <2>5, <2>6
<1>5. ASSUME NEW p \in Players, DonateUnits(p) PROVE Goal
  <2>1. PICK n \in Batches :
          /\ member[p] # None
          /\ units' = [units EXCEPT ![p] = units[p] - n, ![member[p]] = @ + n]
          /\ bought' = [bought EXCEPT ![member[p]] = bought[member[p]] + n]
          /\ UNCHANGED <<owner, camp>>
    BY <1>5 DEF DonateUnits, land
  <2>2. member[p] \in Actors /\ p \in Actors /\ member[p] # p BY <1>0, <2>1 DEF TypeOK, Actors
  <2>3. /\ units'[b] = IF b = member[p] THEN units[b] + n ELSE IF b = p THEN units[b] - n ELSE units[b]
        /\ bought'[b] = IF b = member[p] THEN bought[b] + n ELSE bought[b]
    BY <1>0, <2>1, <2>2 DEF TypeOK
  <2>4. units'[b] - units[b] <= bought'[b] - bought[b] BY <1>00, <2>3
  <2> QED BY <1>1, <2>1, <2>4
<1>6. ASSUME NEW a \in Actors, BuyUnits(a) PROVE Goal
  <2>1. PICK n \in Batches : /\ units' = [units EXCEPT ![a] = units[a] + n]
                             /\ bought' = [bought EXCEPT ![a] = bought[a] + n]
                             /\ UNCHANGED <<owner, camp>>
    BY <1>6 DEF BuyUnits, land
  <2>2. /\ units'[b] = IF b = a THEN units[b] + n ELSE units[b]
        /\ bought'[b] = IF b = a THEN bought[b] + n ELSE bought[b]
    BY <1>0, <2>1 DEF TypeOK
  <2>3. units'[b] - units[b] <= bought'[b] - bought[b] BY <1>00, <2>2
  <2> QED BY <1>1, <2>1, <2>3
<1>7. ASSUME NEW p \in Players, NEW t \in Tiles, SetClanCamp(p, t) PROVE Goal
  <2>1. /\ member[p] # None /\ owner[t] = p /\ camp' = [camp EXCEPT ![member[p]] = t]
        /\ camp[member[p]] = None /\ UNCHANGED <<owner, units, bought>>
    BY <1>7 DEF SetClanCamp, army
  <2>2. member[p] \in Clans BY <1>0, <2>1 DEF TypeOK
  <2>3. b # member[p] => camp'[b] = camp[b] BY <1>0, <2>1 DEF TypeOK
  <2>4. b = member[p] => None \notin Tiles /\ camp[b] = None BY <2>1
  <2>5. Guarded(b)' \subseteq Guarded(b) BY <2>1, <2>3, <2>4 DEF Guarded
  <2> QED BY <1>0, <1>00, <2>1, <2>5, AccountsKept
<1>8. ASSUME NEW a \in Actors, Advance(a) PROVE Goal
  <2> DEFINE h == Head(route[a])
  <2>1. CASE AdvanceOwn(a) \/ AdvanceBlocked(a) BY <1>2, <2>1 DEF AdvanceOwn, AdvanceBlocked, land, army
  <2>2. CASE AdvanceLose(a)
    <3>1. PICK losses \in Losses(a, h) :
            units' = [units EXCEPT ![a] = units[a] - losses] /\ UNCHANGED <<owner, camp, bought>>
      BY <2>2 DEF AdvanceLose
    <3>2. losses \in Nat BY <1>0, <3>1 DEF Losses, TypeOK
    <3>3. units'[b] = IF b = a THEN units[b] - losses ELSE units[b] BY <1>0, <3>1 DEF TypeOK
    <3>4. units'[b] - units[b] <= bought'[b] - bought[b] BY <1>00, <3>1, <3>2, <3>3
    <3> QED BY <1>1, <3>1, <3>4
  <2>3. CASE AdvanceWin(a)
    <3>1. PICK losses \in Losses(a, h) :
            /\ units' = [units EXCEPT ![a] = units[a] - losses - 1]
            /\ owner' = [owner EXCEPT ![h] = a]
            /\ UNCHANGED <<camp, bought>>
      BY <2>3 DEF AdvanceWin
    <3>2. losses \in Nat BY <1>0, <3>1 DEF Losses, TypeOK
    <3>3. units'[b] = IF b = a THEN units[b] - losses - 1 ELSE units[b] BY <1>0, <3>1 DEF TypeOK
    <3>4. CASE b # a
      <4>1. Guarded(b)' \subseteq Guarded(b) BY <1>0, <3>1, <3>4 DEF Guarded, TypeOK
      <4> QED BY <1>0, <1>00, <3>1, <3>3, <3>4, <4>1, AccountsKept
    <3>5. CASE b = a
      <4>1. Guarded(b)' \subseteq Guarded(b) \cup {h} BY <1>0, <3>1, <3>5 DEF Guarded, TypeOK
      <4>2. IsFiniteSet(Guarded(b)) /\ units[b] + Cardinality(Guarded(b)) <= bought[b] BY DEF Accounts
      <4>3. /\ IsFiniteSet(Guarded(b) \cup {h})
            /\ Cardinality(Guarded(b) \cup {h}) \in Nat /\ Cardinality(Guarded(b)) \in Nat
            /\ Cardinality(Guarded(b) \cup {h}) <= Cardinality(Guarded(b)) + 1
        <5>1. /\ IsFiniteSet(Guarded(b) \cup {h})
              /\ \/ Cardinality(Guarded(b) \cup {h}) = Cardinality(Guarded(b))
                 \/ Cardinality(Guarded(b) \cup {h}) = Cardinality(Guarded(b)) + 1
          BY <4>2, FS_AddElement
        <5>2. Cardinality(Guarded(b)) \in Nat BY <4>2, FS_CardinalityType
        <5> QED BY <5>1, <5>2
      <4>4. /\ IsFiniteSet(Guarded(b)') /\ Cardinality(Guarded(b)') \in Nat
            /\ Cardinality(Guarded(b)') <= Cardinality(Guarded(b) \cup {h})
        BY <4>1, <4>3, FS_Subset, FS_CardinalityType
      <4> QED BY <1>00, <3>1, <3>2, <3>3, <3>5, <4>2, <4>3, <4>4
    <3> QED BY <3>4, <3>5
  <2> QED BY <1>8, <2>1, <2>2, <2>3 DEF Advance
<1>9. ASSUME NEW p \in Players, NEW c \in Clans, Enrols(p, c) PROVE Goal
  <2>1. UNCHANGED <<owner, camp, units, bought>> BY <1>0, <1>9, EnrolFacts DEF land, army
  <2> QED BY <1>2, <2>1
<1>10. ASSUME NEW a \in Actors, StartMove(a) \/ CancelMove(a) PROVE Goal
  BY <1>2, <1>10 DEF StartMove, CancelMove, land, army
<1>11. ASSUME CloseSeason \/ Crash \/ Boot \/ UNCHANGED vars PROVE Goal
  BY <1>2, <1>11 DEF CloseSeason, Crash, Boot, vars, land, army
<1>12. ASSUME NEW p \in Players, TornDonate(p) PROVE Goal
  <2>1. PICK n \in Batches : /\ units' = [units EXCEPT ![p] = units[p] - n]
                             /\ UNCHANGED <<owner, camp, bought>>
    BY <1>12 DEF TornDonate, land
  <2>2. units'[b] = IF b = p THEN units[b] - n ELSE units[b] BY <1>0, <2>1 DEF TypeOK
  <2>3. units'[b] - units[b] <= bought'[b] - bought[b] BY <1>00, <2>1, <2>2
  <2> QED BY <1>1, <2>1, <2>3
<1> QED BY <1>3, <1>4, <1>5, <1>6, <1>7, <1>8, <1>9, <1>10, <1>11, <1>12
        DEF Next, Joins, Quits, Enrols

\* Free units and guardians together are never more than were bought or given
\* (buyUnits and donateUnits of actions.ts, advance of tick.ts).
THEOREM NoUnitFromNothing == Spec => []UnitsAccounted
<1>1. Init => Accounts
  <2> SUFFICES ASSUME Init, NEW a \in Actors
               PROVE  IsFiniteSet(Guarded(a)) /\ units[a] + Cardinality(Guarded(a)) <= bought[a]
    BY DEF Accounts
  <2>1. a # None BY ActorsAssumption DEF Actors
  <2>2. Guarded(a) = {} /\ bought[a] = units[a] BY <2>1 DEF Init, Guarded
  <2>3. units[a] \in Nat BY TypedInit DEF Typed, TypeOK
  <2> QED BY <2>2, <2>3, FS_EmptySet
<1>2. Accounts => UnitsAccounted BY DEF Accounts, UnitsAccounted
<1> QED BY <1>1, <1>2, LInvInit, LInvStep, AccountsStep, PTL DEF Spec

-----------------------------------------------------------------------------
(* Refinement.                                                             *)

\* The two descriptions of neighbouring tiles and of a group's land agree.
LEMMA SameLand ==
  /\ \A s, t \in Tiles : Adjacent(s, t) => Land!Next8(s, t)
  /\ \A a \in Actors : Own(a) = Land!Land(a)
  /\ \A a \in Actors : Land!Firm(a) <=> a \notin torn /\ Whole(a)
<1>1. ASSUME NEW s \in Tiles, NEW t \in Tiles, Adjacent(s, t) PROVE Land!Next8(s, t)
  <2>1. s[1] \in Int /\ s[2] \in Int /\ t[1] \in Int /\ t[2] \in Int BY TilesAssumption
  <2> QED BY <1>1, <2>1 DEF Adjacent, Abs, Land!Next8, Land!Distance
<1>2. \A a \in Actors : Own(a) = Land!Land(a)
  BY DEF Own, GroupOf, ClanOf, Land!Land, Land!Allied, Land!GroupClan
<1>3. \A a \in Actors : Land!Firm(a) <=> a \notin torn /\ Whole(a)
  BY DEF Whole, ClanOf, Land!Firm, Land!GroupClan
<1> QED BY <1>1, <1>2, <1>3

LEMMA LandStep ==
  ASSUME LInv, [Next]_vars
  PROVE  [Land!TNext]_(Land!terrVars)
<1> USE ActorsAssumption, SubsetsAssumption
<1>0. TypeOK /\ Enrolled /\ StandsOnOwnLand /\ Roads BY DEF LInv, Base, Typed, Settled
<1>1. ASSUME UNCHANGED <<owner, clans, torn>> PROVE [Land!TNext]_(Land!terrVars)
  BY <1>1 DEF Land!terrVars, clans
<1>2. ASSUME NEW p \in Players, Joins(p) PROVE Land!TNext
  <2>1. PICK t \in CampTiles : /\ status[p] = "new" /\ owner[t] = None
                               /\ \/ torn' = torn /\ owner' = [owner EXCEPT ![t] = p]
                                  \/ torn' = torn \cup {p} /\ owner' = owner
                               /\ member' = [member EXCEPT ![p] = None] /\ rows' = rows
    BY <1>2, JoinFacts
  <2>2. \A s \in Tiles : owner[s] # p BY <1>0, <2>1 DEF Enrolled
  <2>3. Land!Settle(p, t) BY <2>1, <2>2 DEF Land!Settle
  <2> QED BY <2>3 DEF Land!TNext
<1>3. ASSUME NEW p \in Players, Quits(p) PROVE Land!TNext
  <2>1. /\ member[p] = None /\ torn' \in {torn, torn \cup {p}} /\ UNCHANGED <<member, rows>>
        /\ owner' = [t \in Tiles |-> IF owner[t] = p THEN None ELSE owner[t]]
    BY <1>0, <1>3, QuitFacts DEF clans
  <2>2. Land!Leave(p) BY <2>1 DEF Land!Leave
  <2> QED BY <2>2 DEF Land!TNext
<1>4. ASSUME NEW p \in Players, NEW c \in Clans, Enrols(p, c) PROVE Land!TNext
  <2>1. /\ member[p] = None /\ p \notin rows[c] /\ rows' = [rows EXCEPT ![c] = rows[c] \cup {p}]
        /\ member' = [member EXCEPT ![p] = c] \/ member' = member
        /\ UNCHANGED <<owner, torn>>
    BY <1>0, <1>4, EnrolFacts DEF people, land
  <2>2. Land!Enrol(p, c) BY <2>1 DEF Land!Enrol
  <2> QED BY <2>2 DEF Land!TNext
<1>5. ASSUME NEW a \in Actors, Advance(a) PROVE [Land!TNext]_(Land!terrVars)
  <2>1. /\ Moving(a) /\ Head(route[a]) \in Tiles /\ UNCHANGED <<people, clans>>
        /\ \/ owner' = owner
           \/ owner[Head(route[a])] = None /\ owner' = [owner EXCEPT ![Head(route[a])] = a]
    BY <1>0, <1>5, AdvanceFacts
  <2>2. CASE owner[Head(route[a])] = None /\ owner' = [owner EXCEPT ![Head(route[a])] = a]
    <3>1. a \in Players => status[a] = "in" BY <1>0, <2>1 DEF Enrolled
    <3>2. pos[a] # None /\ Adjacent(pos[a], Head(route[a])) BY <1>0, <2>1 DEF Roads, NextTileAdjacent
    <3>3. Land!Firm(a) => pos[a] \in Own(a) BY <1>0, <3>1, <3>2, SameLand DEF StandsOnOwnLand
    <3>4. pos[a] \in Own(a) => pos[a] \in Tiles /\ pos[a] \in Land!Land(a) BY SameLand DEF Own
    <3>5. pos[a] \in Own(a) => Land!Next8(pos[a], Head(route[a])) BY <2>1, <3>2, <3>4, SameLand
    <3>6. Land!Claim(a, Head(route[a]))
      BY <2>1, <2>2, <3>3, <3>4, <3>5 DEF Land!Claim, people, clans
    <3> QED BY <2>1, <3>6 DEF Land!TNext, Actors
  <2>3. CASE owner' = owner BY <1>1, <2>1, <2>3 DEF people
  <2> QED BY <2>1, <2>2, <2>3
<1>6. ASSUME Quiet \/ (\E p \in Players, t \in Tiles : SetClanCamp(p, t)) \/ \E a \in Actors : StartMove(a)
      PROVE  [Land!TNext]_(Land!terrVars)
  <2>1. UNCHANGED <<owner, clans, torn>> BY <1>6 DEF Quiet, SetClanCamp, StartMove, people, land
  <2> QED BY <1>1, <2>1
<1> QED BY <1>0, <1>2, <1>3, <1>4, <1>5, <1>6, QuietActions

\* Caravans, locks, crashes and restarts implement the rules of land: every
\* change of owner is a newcomer's camp, a claim next to one's land, or the
\* departure of a player without a clan.
THEOREM ExpeditionRefinesTerritory == Spec => ImplementsTerritory
<1>1. Init => Land!TInit
  BY ActorsAssumption DEF Init, Land!TInit
<1>2. LInv /\ [Next]_vars => [Land!TNext]_(Land!terrVars) BY LandStep
<1> QED BY <1>1, <1>2, LInvInit, LInvStep, PTL DEF Spec, ImplementsTerritory, Land!TSpec

=============================================================================
