---------------------------- MODULE PrizesProofs ----------------------------
(***************************************************************************)
(* Proofs about Prizes, for any map, players, clans, tombs and settings:   *)
(* where tombs are, the gate of the treasure, and what the prizes come to. *)
(***************************************************************************)
EXTENDS Prizes, SumProofs, SequenceTheorems

Places == [at : TombSites, captured : BOOLEAN]

Artifacts == [tomb : DOMAIN tombs, owner : Actors, sold : BOOLEAN]

Typed ==
  /\ member \in [Players -> Clans \cup {None}]
  /\ owner \in [Tiles -> Actors \cup {None}]
  /\ tombs \in Seq(Places)
  /\ artifacts \subseteq Artifacts

OnFreeLand == Spaced => \A i \in DOMAIN tombs :
  ~tombs[i].captured => owner[tombs[i].at] = None \/ tombs[i].at \in CampSites
Apart == Spaced => \A i, j \in DOMAIN tombs :
  i # j /\ ~tombs[i].captured /\ ~tombs[j].captured => tombs[i].at # tombs[j].at
OneEach ==
  /\ \A art \in artifacts : tombs[art.tomb].captured
  /\ \A art, other \in artifacts : art.tomb = other.tomb => art = other

TombInv == Typed /\ OnFreeLand /\ Apart /\ OneEach

\* What a row of tombs is, and that of an artifact.
LEMMA RowsTyped ==
  ASSUME Typed
  PROVE  /\ DOMAIN tombs = 1..Len(tombs) /\ Len(tombs) \in Nat
         /\ \A i \in DOMAIN tombs : tombs[i] \in Places /\ tombs[i].at \in TombSites
         /\ \A art \in artifacts : art.tomb \in DOMAIN tombs
<1>1. DOMAIN tombs = 1..Len(tombs) /\ Len(tombs) \in Nat /\ \A i \in DOMAIN tombs : tombs[i] \in Places
  BY DEF Typed
<1>2. \A x \in Places : x.at \in TombSites BY Zenon DEF Places
<1>3. \A art \in artifacts : art.tomb \in DOMAIN tombs BY Zenon DEF Typed, Artifacts
<1> QED BY <1>1, <1>2, <1>3

LEMMA InvInit == Init => TombInv
<1> SUFFICES ASSUME Init PROVE TombInv OBVIOUS
<1>1. FirstTombs \in Seq(TombSites) /\ DOMAIN FirstTombs = 1..Len(FirstTombs) /\ Len(FirstTombs) \in Nat
  BY PlacesAssumption
<1>2. \A i \in DOMAIN FirstTombs : FirstTombs[i] \in TombSites BY <1>1
<1>3. /\ DOMAIN tombs = DOMAIN FirstTombs
      /\ \A i \in DOMAIN tombs : tombs[i] = [at |-> FirstTombs[i], captured |-> FALSE]
  BY DEF Init
<1>4. tombs \in [1..Len(FirstTombs) -> Places]
  <2>1. \A i \in DOMAIN FirstTombs : [at |-> FirstTombs[i], captured |-> FALSE] \in Places
    BY <1>2, Zenon DEF Places
  <2> QED BY <1>1, <2>1 DEF Init
<1>5. tombs \in Seq(Places) BY <1>1, <1>4
<1>6. /\ member \in [Players -> Clans \cup {None}] /\ owner \in [Tiles -> Actors \cup {None}]
      /\ artifacts = {}
  BY DEF Init
<1>7. OnFreeLand BY <1>2, <1>3, PlacesAssumption DEF Init, OnFreeLand
<1>8. Apart BY <1>3, PlacesAssumption DEF Apart
<1> QED BY <1>5, <1>6, <1>7, <1>8 DEF TombInv, Typed, OneEach

\* Land is given up, or claimed for a camp or where no tomb waits; tombs stay as
\* they are.
LEMMA LandOnly ==
  ASSUME TombInv, UNCHANGED tombs,
         member' \in [Players -> Clans \cup {None}],
         owner' \in [Tiles -> Actors \cup {None}],
         \A t \in Tiles \ CampSites : owner'[t] \notin {owner[t], None} =>
            \A i \in DOMAIN tombs : tombs[i].captured \/ tombs[i].at # t,
         artifacts' \subseteq Artifacts,
         \A art \in artifacts' : \E old \in artifacts : old.tomb = art.tomb,
         \A art, other \in artifacts' : art.tomb = other.tomb => art = other
  PROVE  TombInv'
<1>1. Typed' BY DEF TombInv, Typed, Artifacts
<1>2. \A i \in DOMAIN tombs : tombs[i].at \in Tiles
  BY PlacesAssumption, RowsTyped DEF TombInv
<1>3. OnFreeLand' BY <1>2 DEF TombInv, OnFreeLand
<1>4. Apart' /\ OneEach' BY DEF TombInv, Apart, OneEach
<1> QED BY <1>1, <1>3, <1>4 DEF TombInv

LEMMA InvStep == TombInv /\ [Next]_vars => TombInv'
<1> SUFFICES ASSUME TombInv, [Next]_vars PROVE TombInv' OBVIOUS
<1> USE PlacesAssumption DEF Actors
<1>0. /\ member \in [Players -> Clans \cup {None}]
      /\ owner \in [Tiles -> Actors \cup {None}] /\ tombs \in Seq(Places)
      /\ artifacts \subseteq Artifacts
      /\ \A art, other \in artifacts : art.tomb = other.tomb => art = other
  BY DEF TombInv, Typed, OneEach
<1>00. /\ DOMAIN tombs = 1..Len(tombs) /\ Len(tombs) \in Nat
       /\ \A i \in DOMAIN tombs : tombs[i] \in Places /\ tombs[i].at \in TombSites
  BY RowsTyped DEF TombInv
<1>1. ASSUME UNCHANGED <<owner, tombs, artifacts>>, member' \in [Players -> Clans \cup {None}] PROVE TombInv'
  BY <1>0, <1>1, LandOnly
<1>2. ASSUME NEW p \in Players, JoinSeason(p) PROVE TombInv'
  <2>1. PICK t \in CampSites : /\ owner' = [owner EXCEPT ![t] = p] /\ UNCHANGED <<tombs, artifacts>>
                               /\ member' = [member EXCEPT ![p] = None]
    BY <1>2 DEF JoinSeason
  <2>2. member' \in [Players -> Clans \cup {None}] /\ owner' \in [Tiles -> Actors \cup {None}]
    BY <1>0, <2>1
  <2>3. \A u \in Tiles \ CampSites : owner'[u] = owner[u] BY <1>0, <2>1
  <2> QED BY <1>0, <2>1, <2>2, <2>3, LandOnly
<1>3. ASSUME NEW p \in Players, QuitSeason(p) PROVE TombInv'
  <2>1. /\ owner' = [t \in Tiles |-> IF owner[t] = p THEN None ELSE owner[t]]
        /\ artifacts' \subseteq artifacts /\ UNCHANGED <<tombs, member>>
    BY <1>3 DEF QuitSeason
  <2>2. owner' \in [Tiles -> Actors \cup {None}] BY <1>0, <2>1
  <2> QED BY <1>0, <2>1, <2>2, LandOnly
<1>4. ASSUME NEW p \in Players, NEW art \in artifacts, Trade(art, p) PROVE TombInv'
  <2> DEFINE sold == [art EXCEPT !.owner = p]
  <2>1. UNCHANGED <<owner, tombs, member>> /\ artifacts' = (artifacts \ {art}) \cup {sold}
    BY <1>4 DEF Trade, land, people
  <2>2. \A x \in Artifacts : [x EXCEPT !.owner = p] \in Artifacts /\ [x EXCEPT !.owner = p].tomb = x.tomb
    BY Zenon DEF Artifacts, Actors
  <2>3. sold \in Artifacts /\ sold.tomb = art.tomb BY <1>0, <2>2
  <2> HIDE DEF sold
  <2> QED BY <1>0, <2>1, <2>3, LandOnly
<1>5. ASSUME CloseSeason PROVE TombInv'
  <2> DEFINE Sold(x) == [x EXCEPT !.sold = TRUE]
  <2>1. UNCHANGED <<owner, tombs, member>> /\ artifacts' = {Sold(art) : art \in artifacts}
    BY <1>5 DEF CloseSeason, people
  <2>2. \A x \in Artifacts : Sold(x) \in Artifacts /\ Sold(x).tomb = x.tomb BY Zenon DEF Artifacts
  <2>3. \A x \in artifacts : Sold(x) \in Artifacts /\ Sold(x).tomb = x.tomb BY <1>0, <2>2
  <2> HIDE DEF Sold
  <2>4. artifacts' \subseteq Artifacts /\ \A art \in artifacts' : \E old \in artifacts : old.tomb = art.tomb
    BY <2>1, <2>3
  <2>5. \A art, other \in artifacts' : art.tomb = other.tomb => art = other BY <1>0, <2>1, <2>3
  <2> QED BY <1>0, <2>1, <2>4, <2>5, LandOnly
<1>6. ASSUME NEW a \in Actors, AdvanceWin(a) PROVE TombInv'
  <2> DEFINE t == Head(way[a])
             land2 == [owner EXCEPT ![t] = a]
  <2>1. owner[t] = None /\ owner' = land2 /\ member' = member BY <1>6 DEF AdvanceWin, people
  <2>2. owner' \in [Tiles -> Actors \cup {None}] BY <1>0, <2>1
  <2>3. CASE TombsAt(t) = {} /\ UNCHANGED <<tombs, artifacts>>
    <3>1. \A i \in DOMAIN tombs : tombs[i].captured \/ tombs[i].at # t BY <2>3 DEF TombsAt
    <3> QED BY <1>0, <2>1, <2>2, <2>3, <3>1, LandOnly
  <2>4. ASSUME NEW i \in TombsAt(t), NEW next \in NextTombs(i, land2), CaptureTomb(a, i, next)
        PROVE  TombInv'
    <3> DEFINE taken == [tombs EXCEPT ![i].captured = TRUE]
               new == [at |-> next, captured |-> FALSE]
    <3>1. i \in DOMAIN tombs /\ ~tombs[i].captured /\ tombs[i].at = t BY DEF TombsAt
    <3>2. taken[i] = [tombs[i] EXCEPT !.captured = TRUE]
          /\ \A j \in DOMAIN tombs \ {i} : taken[j] = tombs[j]
      BY <1>00, <3>1
    <3>3. /\ taken \in Seq(Places) /\ Len(taken) = Len(tombs) /\ DOMAIN taken = DOMAIN tombs
          /\ taken[i].captured
          /\ \A j \in DOMAIN tombs \ {i} : taken[j] = tombs[j]
      <4>1. \A x \in Places : [x EXCEPT !.captured = TRUE] \in Places /\ [x EXCEPT !.captured = TRUE].captured
        BY Zenon DEF Places
      <4>2. taken[i] \in Places /\ taken[i].captured BY <1>00, <3>1, <3>2, <4>1
      <4>3. DOMAIN taken = DOMAIN tombs OBVIOUS
      <4>4. \A j \in DOMAIN tombs : taken[j] \in Places BY <1>00, <3>2, <4>2
      <4>5. taken \in [1..Len(tombs) -> Places] BY <1>00, <4>3, <4>4
      <4> HIDE DEF taken
      <4>6. taken \in Seq(Places) /\ Len(taken) = Len(tombs) BY <1>00, <4>5
      <4> QED BY <3>2, <4>2, <4>3, <4>6
    <3>4. Spaced => \A j \in DOMAIN tombs \ {i} : ~tombs[j].captured => tombs[j].at # t
      BY <3>1 DEF TombInv, Apart
    <3>5. /\ artifacts' = artifacts \cup {[tomb |-> i, owner |-> Heir(a), sold |-> FALSE]}
          /\ tombs' = IF next = None THEN taken ELSE Append(taken, new)
      BY <2>4 DEF CaptureTomb
    <3> DEFINE art0 == [tomb |-> i, owner |-> Heir(a), sold |-> FALSE]
    <3>6. art0.tomb = i /\ art0 \in [tomb : {i}, owner : Actors, sold : BOOLEAN]
      <4>1. Heir(a) \in Actors BY <1>0 DEF Heir, GroupClan
      <4> QED BY <4>1, Zenon
    <3>7. next # None => /\ next \in TombSites /\ owner'[next] = None
                         /\ Spaced => TombsAt(next) \subseteq {i}
      BY <2>1 DEF NextTombs
    <3>8. /\ tombs' \in Seq(Places)
          /\ \A j \in DOMAIN tombs : j \in DOMAIN tombs' /\ tombs'[j] = taken[j]
          /\ \A j \in DOMAIN tombs' \ DOMAIN tombs :
               next # None /\ j = Len(tombs) + 1 /\ tombs'[j] = new
      <4>1. CASE next = None BY <3>3, <3>5, <4>1
      <4>2. CASE next # None
        <5>1. new \in Places BY <3>7, <4>2 DEF Places
        <5>2. /\ Append(taken, new) \in Seq(Places) /\ Len(Append(taken, new)) = Len(tombs) + 1
              /\ \A j \in 1..Len(tombs) : Append(taken, new)[j] = taken[j]
              /\ Append(taken, new)[Len(tombs) + 1] = new
          BY <1>00, <3>3, <5>1
        <5>3. DOMAIN Append(taken, new) = 1..Len(tombs) + 1 BY <5>2
        <5> HIDE DEF taken, new
        <5> QED BY <1>00, <3>5, <4>2, <5>2, <5>3
      <4> QED BY <4>1, <4>2
    <3> HIDE DEF taken
    <3> HIDE DEF new, art0
    <3>9. Typed'
      <4>1. DOMAIN tombs \subseteq DOMAIN tombs' BY <3>8
      <4>2. artifacts' \subseteq [tomb : DOMAIN tombs', owner : Actors, sold : BOOLEAN]
        <5>1. \A x \in Artifacts : x \in [tomb : DOMAIN tombs', owner : Actors, sold : BOOLEAN]
          BY <4>1 DEF Artifacts
        <5>2. art0 \in [tomb : DOMAIN tombs', owner : Actors, sold : BOOLEAN] BY <3>1, <3>6, <4>1
        <5>3. artifacts' = artifacts \cup {art0} BY <3>5 DEF art0
        <5> QED BY <1>0, <5>1, <5>2, <5>3
      <4> QED BY <1>0, <2>1, <2>2, <3>8, <4>2 DEF Typed, Artifacts
    <3>10. \A j \in DOMAIN tombs \ {i} : tombs'[j] = tombs[j] BY <3>3, <3>8
    <3>11. tombs'[i].captured BY <3>1, <3>3, <3>8
    <3>12. OnFreeLand'
      <4> SUFFICES ASSUME Spaced, NEW j \in DOMAIN tombs', ~tombs'[j].captured
                   PROVE  owner'[tombs'[j].at] = None \/ tombs'[j].at \in CampSites
        BY DEF OnFreeLand
      <4>1. CASE j \in DOMAIN tombs
        <5>1. j # i /\ tombs'[j] = tombs[j] BY <3>10, <3>11, <4>1
        <5>2. tombs[j].at # t /\ (owner[tombs[j].at] = None \/ tombs[j].at \in CampSites)
          BY <3>4, <4>1, <5>1 DEF TombInv, OnFreeLand
        <5>3. tombs[j].at \in Tiles BY <1>00, <4>1
        <5> QED BY <1>0, <2>1, <5>1, <5>2, <5>3
      <4>2. CASE j \notin DOMAIN tombs BY <3>7, <3>8, <4>2 DEF new
      <4> QED BY <4>1, <4>2
    <3>13. Apart'
      <4> SUFFICES ASSUME Spaced, NEW j \in DOMAIN tombs', NEW k \in DOMAIN tombs', j # k,
                          ~tombs'[j].captured, ~tombs'[k].captured
                   PROVE  tombs'[j].at # tombs'[k].at
        BY DEF Apart
      <4>1. \A l \in DOMAIN tombs : next # None /\ ~tombs[l].captured /\ l # i => tombs[l].at # next
        BY <3>7 DEF TombsAt
      <4>2. CASE j \in DOMAIN tombs /\ k \in DOMAIN tombs
        BY <3>10, <3>11, <4>2 DEF TombInv, Apart
      <4>3. CASE j \in DOMAIN tombs /\ k \notin DOMAIN tombs
        BY <3>8, <3>10, <3>11, <4>1, <4>3 DEF new
      <4>4. CASE j \notin DOMAIN tombs /\ k \in DOMAIN tombs
        BY <3>8, <3>10, <3>11, <4>1, <4>4 DEF new
      <4>5. CASE j \notin DOMAIN tombs /\ k \notin DOMAIN tombs BY <3>8, <4>5
      <4> QED BY <4>2, <4>3, <4>4, <4>5
    <3>14. OneEach'
      <4>1. \A art \in artifacts : art.tomb \in DOMAIN tombs \ {i} /\ tombs[art.tomb].captured
        BY <3>1, RowsTyped DEF TombInv, OneEach
      <4>2. artifacts' = artifacts \cup {art0} /\ art0.tomb = i BY <3>5, <3>6 DEF art0
      <4>3. \A art \in artifacts' : tombs'[art.tomb].captured BY <3>10, <3>11, <4>1, <4>2
      <4>4. \A art, other \in artifacts' : art.tomb = other.tomb => art = other BY <1>0, <4>1, <4>2
      <4> QED BY <4>3, <4>4 DEF OneEach
    <3> QED BY <3>9, <3>12, <3>13, <3>14 DEF TombInv
  <2> QED BY <1>6, <2>3, <2>4 DEF AdvanceWin
<1>7. ASSUME NEW p \in Players, ClanDeposit(p) \/ \E c \in Clans : CreateClan(p, c) \/ RespondJoin(p, c)
      PROVE  TombInv'
  <2>1. member' \in [Players -> Clans \cup {None}] /\ UNCHANGED <<owner, tombs, artifacts>>
    BY <1>0, <1>7 DEF ClanDeposit, CreateClan, RespondJoin, land
  <2> QED BY <1>1, <2>1
<1>8. ASSUME NEW a \in Actors,
             StartMove(a) \/ CancelMove(a) \/ AdvanceOwn(a) \/ AdvanceBlocked(a) \/ AdvanceLose(a)
      PROVE  TombInv'
  <2>1. UNCHANGED <<member, owner, tombs, artifacts>>
    BY <1>8 DEF StartMove, CancelMove, AdvanceOwn, AdvanceBlocked, AdvanceLose, people
  <2> QED BY <1>0, <1>1, <2>1
<1>9. ASSUME BuyCoins \/ (\E c \in Clans : SetClanCamp(c)) \/ UNCHANGED vars PROVE TombInv'
  <2>1. UNCHANGED <<member, owner, tombs, artifacts>> BY <1>9 DEF BuyCoins, SetClanCamp, vars, land, people
  <2> QED BY <1>0, <1>1, <2>1
<1> QED BY <1>2, <1>3, <1>4, <1>5, <1>6, <1>7, <1>8, <1>9 DEF Next

\* For any settings the admin may save: tombs that wait stand on free land or
\* under a camp, apart from each other if there is space between tombs, and one
\* that was taken has left one artifact at most (advance of tick.ts,
\* rules/tombs.ts, newCamp of world.ts).
THEOREM TombsCanBeTaken == Spec => []TombsOpen
<1>1. TombInv => TombsOpen BY DEF TombInv, OnFreeLand, Apart, OneEach, TombsOpen
<1> QED BY <1>1, InvInit, InvStep, PTL DEF Spec

-----------------------------------------------------------------------------
(* Levels.                                                                 *)

\* The two recursions of the levels.
NeedRule(f) == f = [l \in 1..TopLevel |-> IF l = 1 THEN 0 ELSE IF l = 2 THEN Xp.level2
                                          ELSE CeilDiv(f[l - 1] * Xp.growth, 100)]
SumRule(f) == f = [l \in 1..TopLevel |-> IF l = 1 THEN 0 ELSE f[l - 1] + XpNeed(Xp, TopLevel)[l]]

LEMMA NeedIsNatural ==
  ASSUME NEW v \in Nat PROVE CeilDiv(v * Xp.growth, 100) \in Nat
<1>1. Xp.growth \in Nat BY LevelsAssumption
<1>2. v * Xp.growth \in Nat BY <1>1
<1>3. \A n \in Nat : CeilDiv(n, 100) \in Nat BY DEF CeilDiv
<1> QED BY <1>2, <1>3

LEMMA NeedTyped == \A l \in 1..TopLevel : XpNeed(Xp, TopLevel)[l] \in Nat
<1> DEFINE need == XpNeed(Xp, TopLevel)
           Step(D) == [l \in 1..TopLevel |-> [v \in D |-> IF l = 2 THEN Xp.level2 ELSE CeilDiv(v * Xp.growth, 100)]]
<1>1. TopLevel \in Nat /\ Xp.level2 \in Nat BY LevelsAssumption
<1>2. ASSUME NEW D, Nat \subseteq D
      PROVE  \A l \in 2..TopLevel : \A v \in Nat : Step(D)[l][v] \in Nat
  BY <1>1, <1>2, NeedIsNatural
<1>3. ASSUME NEW D, NEW f, \A l \in 1..TopLevel : f[l] \in D
      PROVE  Recurs(f, TopLevel, 0, Step(D)) <=> NeedRule(f)
  <2>1. \A l \in 1..TopLevel : l # 1 => l - 1 \in 1..TopLevel BY <1>1
  <2>2. \A l \in 1..TopLevel : l # 1 =>
          Step(D)[l][f[l - 1]] = IF l = 2 THEN Xp.level2 ELSE CeilDiv(f[l - 1] * Xp.growth, 100)
    BY <1>3, <2>1
  <2> HIDE DEF Step
  <2> QED BY <2>2 DEF Recurs, NeedRule
<1>4. \E f : NeedRule(f)
  <2>1. PICK f : Recurs(f, TopLevel, 0, Step(Nat))
    <3> HIDE DEF Step
    <3> QED BY <1>1, RecursionDefined
  <2>2. \A l \in 1..TopLevel : f[l] \in Nat
    <3>1. \A l \in 2..TopLevel : \A v \in Nat : Step(Nat)[l][v] \in Nat BY <1>2
    <3> HIDE DEF Step
    <3> QED BY <1>1, <2>1, <3>1, RecursionTyped
  <2>3. NeedRule(f)
    <3> HIDE DEF Step
    <3> QED BY <1>3, <2>1, <2>2
  <2> QED BY <2>3
<1>5. NeedRule(need)
  <2>1. need = CHOOSE f : NeedRule(f) BY Zenon DEF XpNeed, NeedRule
  <2> HIDE DEF need
  <2> QED BY <1>4, <2>1, Zenon
<1> DEFINE D == Nat \cup {need[l] : l \in 1..TopLevel}
<1>6. Nat \subseteq D /\ \A l \in 1..TopLevel : need[l] \in D OBVIOUS
<1>7. \A l \in 2..TopLevel : \A v \in Nat : Step(D)[l][v] \in Nat
  <2> HIDE DEF D, Step
  <2> QED BY <1>2, <1>6
<1>8. Recurs(need, TopLevel, 0, Step(D))
  <2> HIDE DEF D, Step, need
  <2> QED BY <1>3, <1>5, <1>6
<1> HIDE DEF D, Step, need
<1>9. \A l \in 1..TopLevel : need[l] \in Nat BY <1>1, <1>7, <1>8, RecursionTyped
<1> QED BY <1>9 DEF need

LEMMA SumsTyped ==
  /\ SumRule(CumulativeXp(Xp, TopLevel))
  /\ \A l \in 1..TopLevel : CumulativeXp(Xp, TopLevel)[l] \in Nat
<1> DEFINE need == XpNeed(Xp, TopLevel)
           sums == CumulativeXp(Xp, TopLevel)
           Step(D) == [l \in 1..TopLevel |-> [v \in D |-> v + need[l]]]
<1>1. TopLevel \in Nat BY LevelsAssumption
<1>2. ASSUME NEW D, Nat \subseteq D
      PROVE  \A l \in 2..TopLevel : \A v \in Nat : Step(D)[l][v] \in Nat
  <2>1. \A l \in 2..TopLevel : need[l] \in Nat BY <1>1, NeedTyped
  <2> HIDE DEF need
  <2> QED BY <1>1, <1>2, <2>1
<1>3. ASSUME NEW D, NEW f, \A l \in 1..TopLevel : f[l] \in D
      PROVE  Recurs(f, TopLevel, 0, Step(D)) <=> SumRule(f)
  <2>1. \A l \in 1..TopLevel : l # 1 => l - 1 \in 1..TopLevel BY <1>1
  <2>2. \A l \in 1..TopLevel : l # 1 => Step(D)[l][f[l - 1]] = f[l - 1] + need[l]
    <3> HIDE DEF need
    <3> QED BY <1>3, <2>1
  <2> HIDE DEF Step
  <2> QED BY <2>2 DEF Recurs, SumRule
<1>4. \E f : SumRule(f)
  <2>1. PICK f : Recurs(f, TopLevel, 0, Step(Nat))
    <3> HIDE DEF Step
    <3> QED BY <1>1, RecursionDefined
  <2>2. \A l \in 1..TopLevel : f[l] \in Nat
    <3>1. \A l \in 2..TopLevel : \A v \in Nat : Step(Nat)[l][v] \in Nat
      <4> HIDE DEF Step
      <4> QED BY <1>2
    <3> HIDE DEF Step
    <3> QED BY <1>1, <2>1, <3>1, RecursionTyped
  <2>3. SumRule(f)
    <3> HIDE DEF Step
    <3> QED BY <1>3, <2>1, <2>2
  <2> QED BY <2>3
<1>5. SumRule(sums)
  <2>1. sums = CHOOSE f : SumRule(f) BY Zenon DEF CumulativeXp, SumRule
  <2> HIDE DEF sums
  <2> QED BY <1>4, <2>1, Zenon
<1> DEFINE D == Nat \cup {sums[l] : l \in 1..TopLevel}
<1>6. Nat \subseteq D /\ \A l \in 1..TopLevel : sums[l] \in D OBVIOUS
<1>7. \A l \in 2..TopLevel : \A v \in Nat : Step(D)[l][v] \in Nat
  <2> HIDE DEF D, Step
  <2> QED BY <1>2, <1>6
<1>8. Recurs(sums, TopLevel, 0, Step(D))
  <2> HIDE DEF D, Step, sums
  <2> QED BY <1>3, <1>5, <1>6
<1> HIDE DEF D, Step, sums
<1>9. \A l \in 1..TopLevel : sums[l] \in Nat BY <1>1, <1>7, <1>8, RecursionTyped
<1> QED BY <1>5, <1>9 DEF sums

LEMMA SumsRise ==
  \A i, j \in 1..TopLevel : i <= j => CumulativeXp(Xp, TopLevel)[i] <= CumulativeXp(Xp, TopLevel)[j]
<1> DEFINE need == XpNeed(Xp, TopLevel)
           sums == CumulativeXp(Xp, TopLevel)
<1>1. TopLevel \in Nat BY LevelsAssumption
<1>2. \A l \in 1..TopLevel : need[l] \in Nat /\ sums[l] \in Nat BY NeedTyped, SumsTyped
<1>3. \A l \in 2..TopLevel : sums[l] = sums[l - 1] + need[l]
  <2>1. SumRule(sums) BY SumsTyped
  <2> HIDE DEF sums
  <2> QED BY <1>1, <2>1 DEF SumRule
<1> HIDE DEF need, sums
<1>4. \A l \in 2..TopLevel : l - 1 \in 1..TopLevel /\ sums[l - 1] <= sums[l]
  <2> SUFFICES ASSUME NEW l \in 2..TopLevel PROVE l - 1 \in 1..TopLevel /\ sums[l - 1] <= sums[l]
    OBVIOUS
  <2>1. l \in 1..TopLevel /\ l - 1 \in 1..TopLevel BY <1>1
  <2>2. sums[l - 1] \in Nat /\ need[l] \in Nat /\ sums[l] = sums[l - 1] + need[l] BY <1>2, <1>3, <2>1
  <2> QED BY <2>1, <2>2
<1> SUFFICES ASSUME NEW i \in 1..TopLevel PROVE \A j \in 1..TopLevel : i <= j => sums[i] <= sums[j]
  BY DEF sums
<1> DEFINE Out == {j \in 1..TopLevel : i <= j /\ ~(sums[i] <= sums[j])}
<1> SUFFICES ASSUME Out # {} PROVE FALSE OBVIOUS
<1>5. Out \subseteq Nat BY <1>1
<1>6. PICK j \in Out : \A k \in Out : j <= k
  <2> HIDE DEF Out
  <2> QED BY <1>5, LeastNumber
<1>7. j \in 1..TopLevel /\ i <= j /\ ~(sums[i] <= sums[j]) OBVIOUS
<1>8. sums[i] \in Nat /\ sums[j] \in Nat BY <1>2, <1>7
<1>9. i # j /\ i <= j - 1 /\ j \in 2..TopLevel BY <1>1, <1>7, <1>8
<1>10. j - 1 \in 1..TopLevel /\ sums[j - 1] <= sums[j] /\ sums[j - 1] \in Nat BY <1>2, <1>4, <1>9
<1>11. ~(sums[i] <= sums[j - 1]) BY <1>7, <1>8, <1>10
<1>12. j - 1 \in Out BY <1>9, <1>10, <1>11
<1>13. j <= j - 1 BY <1>6, <1>12
<1> QED BY <1>7, <1>13

\* levelForXp: which level is chosen, and that more experience is never less of a level.
LEMMA LevelChosen ==
  ASSUME NEW n \in Nat
  PROVE  LET sums == CumulativeXp(Xp, TopLevel) IN
         /\ Level(n) \in 1..TopLevel
         /\ sums[Level(n)] <= n
         /\ Level(n) = TopLevel \/ n < sums[Level(n) + 1]
<1> DEFINE sums == CumulativeXp(Xp, TopLevel)
           Fits(l) == sums[l] <= n /\ (l = TopLevel \/ n < sums[l + 1])
           Reached == {l \in 1..TopLevel : l = TopLevel \/ n < sums[l + 1]}
<1>1. TopLevel \in Nat /\ TopLevel # 0 BY LevelsAssumption
<1>2. \A l \in 1..TopLevel : sums[l] \in Nat BY SumsTyped
<1>3. sums[1] = 0
  <2>1. SumRule(sums) BY SumsTyped
  <2> HIDE DEF sums
  <2> QED BY <1>1, <2>1 DEF SumRule
<1>4. Level(n) = CHOOSE l \in 1..TopLevel : Fits(l) BY Zenon DEF Level, LevelForXp
<1> HIDE DEF sums
<1>5. Reached \subseteq Nat /\ TopLevel \in Reached BY <1>1
<1>6. PICK l \in Reached : \A m \in Reached : l <= m
  <2> HIDE DEF Reached
  <2> QED BY <1>5, LeastNumber
<1>7. l \in 1..TopLevel /\ (l = TopLevel \/ n < sums[l + 1]) OBVIOUS
<1>8. sums[l] <= n
  <2>1. CASE l = 1 BY <1>3, <2>1
  <2>2. CASE l # 1
    <3>1. l - 1 \in 1..TopLevel /\ l - 1 # TopLevel /\ ~(l <= l - 1) /\ (l - 1) + 1 = l BY <1>1, <1>7, <2>2
    <3>2. l - 1 \notin Reached BY <1>6, <3>1
    <3>3. ~(n < sums[l]) BY <3>1, <3>2
    <3> QED BY <1>2, <1>7, <3>3
  <2> QED BY <2>1, <2>2
<1>9. \E m \in 1..TopLevel : Fits(m) BY <1>7, <1>8
<1> HIDE DEF Fits
<1>10. Level(n) \in 1..TopLevel /\ Fits(Level(n)) BY <1>4, <1>9, Zenon
<1> QED BY <1>10 DEF Fits, sums

LEMMA LevelRises ==
  ASSUME NEW m \in Nat, NEW n \in Nat, m <= n
  PROVE  Level(m) \in Nat /\ Level(n) \in Nat /\ Level(m) <= Level(n)
<1> DEFINE sums == CumulativeXp(Xp, TopLevel)
           a == Level(m)
           b == Level(n)
<1>1. TopLevel \in Nat BY LevelsAssumption
<1>2. a \in 1..TopLevel /\ sums[a] <= m BY LevelChosen
<1>3. b \in 1..TopLevel /\ (b = TopLevel \/ n < sums[b + 1]) BY LevelChosen
<1>4. \A i \in 1..TopLevel : sums[i] \in Nat BY SumsTyped
<1>5. \A i, j \in 1..TopLevel : i <= j => sums[i] <= sums[j] BY SumsRise
<1> HIDE DEF sums, a, b
<1>6. SUFFICES ASSUME b < a PROVE FALSE BY <1>1, <1>2, <1>3 DEF a, b
<1>7. b + 1 \in 1..TopLevel /\ b + 1 <= a /\ b # TopLevel BY <1>1, <1>2, <1>3, <1>6
<1>8. sums[b + 1] <= sums[a] /\ sums[b + 1] \in Nat /\ sums[a] \in Nat BY <1>2, <1>4, <1>5, <1>7
<1> QED BY <1>2, <1>3, <1>7, <1>8

-----------------------------------------------------------------------------
(* The gate of the treasure.                                               *)

\* A gate asks for the level of Strength(a).
Strength(a) == IF GroupClan(a) = None THEN xp[a] ELSE AtLeast(xp[GroupClan(a)], xp[a])
Strong(a) == Level(Strength(a)) >= Gate["treasure"]

Ways == {None} \cup {s \in Seq(Tiles) : Len(s) > 0}

Kept ==
  /\ active \subseteq Players /\ camped \subseteq Clans
  /\ row \in [Clans -> [Players -> Nat \cup {None}]]
  /\ xp \in [Actors -> Nat]
  /\ way \in [Actors -> Ways]

\* Whoever has land or a caravan takes part, and a clan's rows stay.
Standing ==
  /\ \A p \in Players : member[p] # None => p \in Rows(member[p])
  /\ \A p \in Players \ active : way[p] = None /\ \A t \in Tiles : owner[t] # p
  /\ \A c \in camped : Founded(c)
  /\ \A c \in Clans \ camped : way[c] = None /\ \A t \in Tiles : owner[t] # c

Clean == \A c \in Clans : \A p \in Rows(c) : member[p] = c

Holds(a) == \E t \in Tiles : Terrain[t] = "treasure" /\ owner[t] = a
Seeks(a) == way[a] # None /\ \E i \in 1..Len(way[a]) : Terrain[way[a][i]] = "treasure"

Led == \A p \in Players : member[p] # None => xp[member[p]] >= xp[p]
Passed == \A a \in Actors : Holds(a) \/ Seeks(a) => Strong(a)

GateInv == Kept /\ Standing /\ (Clean => Led /\ Passed)

LEMMA GroupClanTyped ==
  ASSUME Typed, NEW a \in Actors
  PROVE  GroupClan(a) \in Clans \cup {None} /\ (a \in Players => GroupClan(a) = member[a])
BY PlacesAssumption DEF Typed, GroupClan, Actors

LEMMA StrengthTyped ==
  ASSUME Typed, Kept, NEW a \in Actors
  PROVE  Strength(a) \in Nat
BY GroupClanTyped DEF Kept, Strength, AtLeast, Actors

LEMMA WayTyped ==
  ASSUME Kept, NEW a \in Actors, way[a] # None
  PROVE  /\ way[a] \in Seq(Tiles) /\ Len(way[a]) > 0 /\ Len(way[a]) \in Nat
         /\ Head(way[a]) = way[a][1] /\ Head(way[a]) \in Tiles
         /\ \A i \in 1..Len(way[a]) : way[a][i] \in Tiles
<1>1. way[a] \in Seq(Tiles) /\ Len(way[a]) > 0 BY DEF Kept, Ways
<1> QED BY <1>1

LEMMA OnwardTyped ==
  ASSUME Kept, NEW a \in Actors, way[a] # None, NEW land2
  PROVE  /\ Onward(a, land2) \in Ways
         /\ Onward(a, land2) # None =>
              \A i \in 1..Len(Onward(a, land2)) :
                 i + 1 \in 1..Len(way[a]) /\ Onward(a, land2)[i] = way[a][i + 1]
<1> DEFINE s == way[a]
<1>1. s \in Seq(Tiles) /\ Len(s) > 0 /\ Len(s) \in Nat BY WayTyped
<1>2. Onward(a, land2) = None \/ (Onward(a, land2) = Tail(s) /\ Len(s) # 1) BY DEF Onward
<1> HIDE DEF s
<1>3. CASE Len(s) = 1 \/ Onward(a, land2) = None BY <1>2, <1>3 DEF Ways
<1>4. CASE Len(s) # 1 /\ Onward(a, land2) = Tail(s)
  <2>0. s # <<>> BY <1>1
  <2>1. /\ Tail(s) \in Seq(Tiles) /\ Len(Tail(s)) = Len(s) - 1
        /\ \A i \in 1..Len(Tail(s)) : Tail(s)[i] = s[i + 1]
    BY <1>1, <2>0, HeadTailProperties
  <2>3. Tail(s) \in Ways BY <1>1, <1>4, <2>1 DEF Ways
  <2>4. \A i \in 1..Len(Tail(s)) : i + 1 \in 1..Len(s) /\ Tail(s)[i] = s[i + 1] BY <1>1, <2>1
  <2> QED BY <1>4, <2>3, <2>4 DEF s
<1> QED BY <1>2, <1>3, <1>4

LEMMA CaptureXpTyped ==
  ASSUME NEW t \in Tiles
  PROVE  CaptureXp(TerrainAt(t), Monsters[TerrainAt(t)], Xp) \in Nat
<1> DEFINE k == TerrainAt(t)
           m == Monsters[k]
<1>1. m \in Nat BY LevelsAssumption DEF TerrainAt
<1>2. Xp.base \in Nat /\ Xp.div \in Nat \ {0} /\ Xp.tomb \in Nat /\ Xp.treasure \in Nat
  BY LevelsAssumption
<1>3. \A x \in Nat, d \in Nat \ {0} : (2 * x + d) \div (2 * d) \in Nat OBVIOUS
<1> HIDE DEF k, m
<1>4. (2 * m + Xp.div) \div (2 * Xp.div) \in Nat BY <1>1, <1>2, <1>3
<1>5. CaptureXp(k, m, Xp) \in {Xp.tomb, Xp.treasure, Xp.base + (2 * m + Xp.div) \div (2 * Xp.div)}
  BY DEF CaptureXp
<1>6. CaptureXp(k, m, Xp) \in Nat BY <1>2, <1>4, <1>5
<1> QED BY <1>6 DEF k, m

LEMMA GateInit == Init => Kept /\ Standing /\ (Clean => Led /\ Passed)
<1> SUFFICES ASSUME Init PROVE Kept /\ Standing /\ Led /\ Passed OBVIOUS
<1> USE PlacesAssumption
<1>1. Kept BY DEF Init, Kept, Ways
<1>2. \A p \in Players : member[p] = None BY DEF Init
<1>3. \A a \in Actors : way[a] = None BY DEF Init
<1>4. \A a \in Actors : \A t \in Tiles : owner[t] # a BY DEF Init, Actors
<1>5. camped = {} BY DEF Init
<1>6. Standing BY <1>2, <1>3, <1>4, <1>5 DEF Standing, Actors
<1>7. Led /\ Passed BY <1>2, <1>3, <1>4 DEF Led, Passed, Holds, Seeks
<1> QED BY <1>1, <1>6, <1>7

\* What a step leaves of the types; weights are whole numbers.
LEMMA KeptStep == TombInv /\ Kept /\ Standing /\ [Next]_vars => Kept'
<1> SUFFICES ASSUME TombInv, Kept, Standing, [Next]_vars PROVE Kept' OBVIOUS
<1>0. /\ active \subseteq Players /\ camped \subseteq Clans
      /\ row \in [Clans -> [Players -> Nat \cup {None}]]
      /\ xp \in [Actors -> Nat] /\ way \in [Actors -> Ways]
      /\ member \in [Players -> Clans \cup {None}]
  BY DEF Kept, TombInv, Typed
<1>1. Players \subseteq Actors /\ Clans \subseteq Actors /\ None \in Ways BY DEF Actors, Ways
<1>2. ASSUME UNCHANGED <<active, camped, row, xp>>, way' \in [Actors -> Ways] PROVE Kept'
  BY <1>0, <1>2 DEF Kept
<1>3. ASSUME NEW p \in Players, JoinSeason(p) PROVE Kept'
  <2>1. active' = active \cup {p} /\ xp' = [xp EXCEPT ![p] = 0] /\ UNCHANGED <<row, camped, way>>
    BY <1>3 DEF JoinSeason
  <2> QED BY <1>0, <1>1, <2>1 DEF Kept
<1>4. ASSUME NEW p \in Players, QuitSeason(p) PROVE Kept'
  <2>1. /\ active' = active \ {p} /\ xp' = [xp EXCEPT ![p] = 0]
        /\ way' = [way EXCEPT ![p] = None] /\ UNCHANGED <<row, camped>>
    BY <1>4 DEF QuitSeason
  <2> QED BY <1>0, <1>1, <2>1 DEF Kept
<1>5. ASSUME NEW p \in Players, NEW c \in Clans, CreateClan(p, c) \/ RespondJoin(p, c) PROVE Kept'
  <2>1. PICK brought \in Brought : row' = [row EXCEPT ![c][p] = brought]
    BY <1>5 DEF CreateClan, RespondJoin
  <2>2. /\ UNCHANGED <<active, camped, way>>
        /\ xp' = [xp EXCEPT ![c] = xp[p]] \/ xp' = [xp EXCEPT ![c] = AtLeast(xp[c], xp[p])]
    BY <1>5 DEF CreateClan, RespondJoin, land
  <2>3. brought \in Nat BY PrizesAssumption
  <2>4. row' \in [Clans -> [Players -> Nat \cup {None}]] BY <1>0, <2>1, <2>3
  <2>5. xp[p] \in Nat /\ AtLeast(xp[c], xp[p]) \in Nat BY <1>0, <1>1 DEF AtLeast
  <2>6. xp' \in [Actors -> Nat] BY <1>0, <2>2, <2>5
  <2> QED BY <1>0, <2>2, <2>4, <2>6 DEF Kept
<1>6. ASSUME NEW p \in Players, ClanDeposit(p) PROVE Kept'
  <2> DEFINE c == member[p]
             n == row[c][p]
  <2>1. c # None /\ row' = [row EXCEPT ![c][p] = n + 1] /\ UNCHANGED <<active, camped, xp, way>>
    BY <1>6 DEF ClanDeposit, land
  <2>2. c \in Clans BY <1>0, <2>1
  <2>3. n # None BY <2>1 DEF Standing, Rows
  <2>4. n \in Nat BY <1>0, <2>2, <2>3
  <2> HIDE DEF n, c
  <2>5. row' \in [Clans -> [Players -> Nat \cup {None}]] BY <1>0, <2>1, <2>2, <2>4
  <2> QED BY <1>0, <2>1, <2>5 DEF Kept
<1>7. ASSUME NEW c \in Clans, SetClanCamp(c) PROVE Kept'
  BY <1>0, <1>7 DEF SetClanCamp, people, Kept
<1>8. ASSUME NEW a \in Actors, StartMove(a) PROVE Kept'
  <2>1. PICK s \in Roads : way' = [way EXCEPT ![a] = s] BY <1>8 DEF StartMove
  <2>2. s \in Ways
    <3>1. PICK n \in 1..MaxPath : s \in [1..n -> Tiles] BY DEF Roads
    <3>2. s \in Seq(Tiles) /\ Len(s) = n /\ n > 0 BY <3>1
    <3> QED BY <3>2 DEF Ways
  <2>3. UNCHANGED <<active, camped, row, xp>> BY <1>8 DEF StartMove, people
  <2> QED BY <1>0, <1>2, <2>1, <2>2, <2>3
<1>9. ASSUME NEW a \in Actors, CancelMove(a) \/ AdvanceOwn(a) \/ AdvanceBlocked(a) \/ AdvanceLose(a)
      PROVE  Kept'
  <2>1. /\ UNCHANGED <<active, camped, row, xp>> /\ way[a] # None
        /\ way' = [way EXCEPT ![a] = None] \/ way' = [way EXCEPT ![a] = Onward(a, owner)]
    BY <1>9 DEF CancelMove, AdvanceOwn, AdvanceBlocked, AdvanceLose, people
  <2>2. Onward(a, owner) \in Ways BY <2>1, OnwardTyped
  <2> QED BY <1>0, <1>1, <1>2, <2>1, <2>2
<1>10. ASSUME NEW a \in Actors, AdvanceWin(a) PROVE Kept'
  <2> DEFINE t == Head(way[a])
             land2 == [owner EXCEPT ![t] = a]
             n == CaptureXp(TerrainAt(t), Monsters[TerrainAt(t)], Xp)
  <2>1. /\ way[a] # None /\ way' = [way EXCEPT ![a] = Onward(a, land2)] /\ xp' = Gained(a, n)
        /\ UNCHANGED <<active, camped, row>>
    BY <1>10 DEF AdvanceWin, people
  <2>2. t \in Tiles BY <2>1, WayTyped
  <2>3. n \in Nat
    <3> HIDE DEF t
    <3> QED BY <2>2, CaptureXpTyped
  <2> HIDE DEF n, land2, t
  <2>4. Gained(a, n) \in [Actors -> Nat]
    <3>1. xp[a] \in Nat /\ xp[a] + n \in Nat BY <1>0, <2>3
    <3>2. CASE a \in Players /\ member[a] # None
      <4>1. member[a] \in Actors /\ xp[member[a]] \in Nat BY <1>0, <1>1, <3>2
      <4>2. AtLeast(xp[member[a]], xp[a] + n) \in Nat BY <3>1, <4>1 DEF AtLeast
      <4>3. member[a] # a BY <1>0, <3>2, PlacesAssumption
      <4>4. Gained(a, n) = [xp EXCEPT ![a] = xp[a] + n, ![member[a]] = AtLeast(xp[member[a]], xp[a] + n)]
        BY <1>0, <3>2, <4>1, <4>3 DEF Gained
      <4> QED BY <1>0, <3>1, <4>2, <4>4
    <3>3. CASE ~(a \in Players /\ member[a] # None)
      <4>1. Gained(a, n) = [xp EXCEPT ![a] = xp[a] + n] BY <3>3 DEF Gained
      <4> QED BY <1>0, <3>1, <4>1
    <3> QED BY <3>2, <3>3
  <2>5. Onward(a, land2) \in Ways BY <2>1, OnwardTyped
  <2> QED BY <1>0, <2>1, <2>4, <2>5 DEF Kept
<1>11. ASSUME CloseSeason PROVE Kept'
  <2>1. way' = [a \in Actors |-> None] /\ UNCHANGED <<active, camped, row, xp>>
    BY <1>11 DEF CloseSeason, people
  <2> QED BY <1>0, <1>1, <1>2, <2>1
<1>12. ASSUME BuyCoins \/ UNCHANGED vars \/ \E p \in Players, art \in artifacts : Trade(art, p) PROVE Kept'
  <2>1. UNCHANGED <<active, camped, row, xp, way>> BY <1>12 DEF BuyCoins, Trade, vars, people, land
  <2> QED BY <1>0, <1>2, <2>1
<1> QED BY <1>3, <1>4, <1>5, <1>6, <1>7, <1>8, <1>9, <1>10, <1>11, <1>12 DEF Next

LEMMA StandingStep == TombInv /\ Kept /\ Standing /\ [Next]_vars => Standing'
<1> SUFFICES ASSUME TombInv, Kept, Standing, [Next]_vars PROVE Standing' OBVIOUS
<1> USE PlacesAssumption
<1>0. /\ active \subseteq Players /\ camped \subseteq Clans
      /\ row \in [Clans -> [Players -> Nat \cup {None}]]
      /\ way \in [Actors -> Ways] /\ owner \in [Tiles -> Actors \cup {None}]
      /\ member \in [Players -> Clans \cup {None}]
  BY DEF Kept, TombInv, Typed
<1>1. Actors = Players \cup Clans BY DEF Actors
\* Nobody new owns land or has a caravan but one who takes part.
<1>2. ASSUME UNCHANGED <<member, row>>, active \subseteq active', camped \subseteq camped',
             \A c \in camped' : Founded(c),
             \A p \in Players \ active' : way'[p] = None /\ \A t \in Tiles : owner'[t] # p,
             \A c \in Clans \ camped' : way'[c] = None /\ \A t \in Tiles : owner'[t] # c
      PROVE  Standing'
  BY <1>2 DEF Standing, Rows, Founded
<1>3. ASSUME UNCHANGED <<member, row, active, camped>>,
             \A a \in Actors : way[a] = None => way'[a] = None \/ a \in active \cup camped,
             \A a \in Actors, t \in Tiles : owner'[t] = a => owner[t] = a \/ a \in active \cup camped
      PROVE  Standing'
  BY <1>0, <1>1, <1>2, <1>3 DEF Standing
<1>4. ASSUME NEW p \in Players, JoinSeason(p) PROVE Standing'
  <2>1. PICK t \in CampSites :
          /\ active' = active \cup {p} /\ member' = [member EXCEPT ![p] = None]
          /\ owner' = [owner EXCEPT ![t] = p] /\ UNCHANGED <<row, camped, way>>
    BY <1>4 DEF JoinSeason
  <2>2. \A q \in Players : member'[q] # None => q \in Rows(member[q]) /\ member'[q] = member[q]
    BY <1>0, <2>1 DEF Standing
  <2>3. \A s \in Tiles : owner'[s] = owner[s] \/ owner'[s] = p BY <1>0, <2>1
  <2>4. \A q \in Players \ active' : way'[q] = None /\ \A s \in Tiles : owner'[s] # q
    BY <2>1, <2>3 DEF Standing
  <2>5. \A c \in Clans \ camped' : way'[c] = None /\ \A s \in Tiles : owner'[s] # c
    BY <2>1, <2>3 DEF Standing
  <2> QED BY <2>1, <2>2, <2>4, <2>5 DEF Standing, Rows, Founded
<1>5. ASSUME NEW p \in Players, QuitSeason(p) PROVE Standing'
  <2>1. /\ active' = active \ {p} /\ way' = [way EXCEPT ![p] = None]
        /\ owner' = [t \in Tiles |-> IF owner[t] = p THEN None ELSE owner[t]]
        /\ UNCHANGED <<member, row, camped>>
    BY <1>5 DEF QuitSeason
  <2>2. \A t \in Tiles : owner'[t] # p /\ (owner'[t] = owner[t] \/ owner'[t] = None) BY <2>1
  <2>3. way'[p] = None /\ \A a \in Actors \ {p} : way'[a] = way[a] BY <1>0, <1>1, <2>1
  <2>4. \A q \in Players \ active' : way'[q] = None /\ \A t \in Tiles : owner'[t] # q
    BY <1>1, <2>1, <2>2, <2>3 DEF Standing
  <2>5. \A c \in Clans \ camped' : way'[c] = None /\ \A t \in Tiles : owner'[t] # c
    BY <1>1, <2>1, <2>2, <2>3 DEF Standing
  <2> QED BY <2>1, <2>4, <2>5 DEF Standing, Rows, Founded
<1>6. ASSUME NEW p \in Players, NEW c \in Clans, CreateClan(p, c) \/ RespondJoin(p, c) PROVE Standing'
  <2>1. PICK brought \in Brought : row' = [row EXCEPT ![c][p] = brought]
    BY <1>6 DEF CreateClan, RespondJoin
  <2>2. member' = [member EXCEPT ![p] = c] /\ UNCHANGED <<active, camped, way, owner>>
    BY <1>6 DEF CreateClan, RespondJoin, land
  <2>3. brought # None BY LevelsAssumption, PrizesAssumption
  <2>4. \A d \in Clans, q \in Players : row'[d][q] = row[d][q] \/ (row'[d][q] # None /\ d = c /\ q = p)
    BY <1>0, <2>1, <2>3
  <2>5. row'[c][p] # None BY <1>0, <2>1, <2>3
  <2>6. \A d \in Clans, q \in Players : row[d][q] # None => row'[d][q] # None BY <2>4
  <2>7. \A q \in Players : member'[q] # None => row'[member'[q]][q] # None
    BY <1>0, <2>2, <2>5, <2>6 DEF Standing, Rows
  <2>8. \A d \in camped : \E q \in Players : row'[d][q] # None
    BY <1>0, <2>6 DEF Standing, Rows, Founded
  <2> QED BY <2>2, <2>7, <2>8 DEF Standing, Rows, Founded
<1>7. ASSUME NEW p \in Players, ClanDeposit(p) PROVE Standing'
  <2> DEFINE c == member[p]
             n == row[c][p]
  <2>1. c # None /\ row' = [row EXCEPT ![c][p] = n + 1] /\ UNCHANGED <<active, camped, member, way, owner>>
    BY <1>7 DEF ClanDeposit, land
  <2>2. c \in Clans BY <1>0, <2>1
  <2>3. n # None BY <2>1 DEF Standing, Rows
  <2>4. n + 1 # None
    <3>1. n \in Int BY <1>0, <2>2, <2>3
    <3> HIDE DEF n
    <3> QED BY <3>1, LevelsAssumption
  <2> HIDE DEF n, c
  <2>5. \A d \in Clans, q \in Players : row[d][q] # None => row'[d][q] # None BY <1>0, <2>1, <2>2, <2>4
  <2>6. \A q \in Players : member'[q] # None => row'[member'[q]][q] # None
    BY <1>0, <2>1, <2>5 DEF Standing, Rows
  <2>7. \A d \in camped : \E q \in Players : row'[d][q] # None
    BY <1>0, <2>5 DEF Standing, Rows, Founded
  <2> QED BY <2>1, <2>6, <2>7 DEF Standing, Rows, Founded
<1>8. ASSUME NEW c \in Clans, SetClanCamp(c) PROVE Standing'
  <2>1. /\ \E p \in Players : member[p] = c
        /\ camped' = camped \cup {c} /\ UNCHANGED <<active, member, row, way, owner>>
    BY <1>8 DEF SetClanCamp, people
  <2>2. Founded(c) BY <2>1 DEF Standing, Founded
  <2> QED BY <1>2, <2>1, <2>2 DEF Standing
<1>9. ASSUME NEW a \in Actors, StartMove(a) PROVE Standing'
  <2>1. /\ a \in active \cup camped /\ \E s \in Roads : way' = [way EXCEPT ![a] = s]
        /\ UNCHANGED <<member, row, active, camped, owner>>
    BY <1>9 DEF StartMove, people
  <2>2. \A b \in Actors : way'[b] = way[b] \/ b = a BY <1>0, <2>1
  <2> QED BY <1>3, <2>1, <2>2
<1>10. ASSUME NEW a \in Actors, CancelMove(a) \/ AdvanceOwn(a) \/ AdvanceBlocked(a) \/ AdvanceLose(a)
       PROVE  Standing'
  <2>1. /\ UNCHANGED <<active, camped, member, row, owner>> /\ way[a] # None
        /\ \E w : way' = [way EXCEPT ![a] = w]
    BY <1>10 DEF CancelMove, AdvanceOwn, AdvanceBlocked, AdvanceLose, people
  <2>2. \A b \in Actors : way'[b] = way[b] \/ b = a BY <1>0, <2>1
  <2> QED BY <1>3, <2>1, <2>2
<1>11. ASSUME NEW a \in Actors, AdvanceWin(a) PROVE Standing'
  <2>1. /\ way[a] # None /\ UNCHANGED <<active, camped, member, row>>
        /\ owner' = [owner EXCEPT ![Head(way[a])] = a]
        /\ \E w : way' = [way EXCEPT ![a] = w]
    BY <1>11 DEF AdvanceWin, people
  <2>2. a \in active \cup camped BY <1>1, <2>1 DEF Standing
  <2>3. \A b \in Actors : way'[b] = way[b] \/ b = a BY <1>0, <2>1
  <2>4. \A t \in Tiles : owner'[t] = owner[t] \/ owner'[t] = a BY <1>0, <2>1
  <2> QED BY <1>3, <2>1, <2>2, <2>3, <2>4
<1>12. ASSUME CloseSeason PROVE Standing'
  <2>1. way' = [a \in Actors |-> None] /\ UNCHANGED <<active, camped, member, row, owner>>
    BY <1>12 DEF CloseSeason, people
  <2> QED BY <1>3, <2>1
<1>13. ASSUME BuyCoins \/ UNCHANGED vars \/ \E p \in Players, art \in artifacts : Trade(art, p)
       PROVE  Standing'
  <2>1. UNCHANGED <<active, camped, member, row, way, owner>>
    BY <1>13 DEF BuyCoins, Trade, vars, people, land
  <2> QED BY <1>3, <2>1
<1> QED BY <1>4, <1>5, <1>6, <1>7, <1>8, <1>9, <1>10, <1>11, <1>12, <1>13 DEF Next

\* Nobody is rid of a row that a clan keeps of one who is no longer a member.
LEMMA CleanStep == TombInv /\ Kept /\ Standing /\ [Next]_vars => (Clean' => Clean)
<1> SUFFICES ASSUME TombInv, Kept, Standing, [Next]_vars, Clean',
                    NEW d \in Clans, NEW q \in Players, row[d][q] # None
             PROVE  member[q] = d
  BY DEF Clean, Rows
<1> USE PlacesAssumption
<1>0. /\ row \in [Clans -> [Players -> Nat \cup {None}]]
      /\ member \in [Players -> Clans \cup {None}]
  BY DEF Kept, TombInv, Typed
<1>1. row'[d][q] # None => member'[q] = d BY DEF Clean, Rows
<1>2. ASSUME UNCHANGED <<member, row>> PROVE member[q] = d BY <1>1, <1>2
<1>3. ASSUME NEW p \in Players, JoinSeason(p) PROVE member[q] = d
  <2>1. member' = [member EXCEPT ![p] = None] /\ row' = row BY <1>3 DEF JoinSeason
  <2> QED BY <1>0, <1>1, <2>1
<1>4. ASSUME NEW p \in Players, NEW c \in Clans, CreateClan(p, c) \/ RespondJoin(p, c)
      PROVE  member[q] = d
  <2>1. PICK brought \in Brought : row' = [row EXCEPT ![c][p] = brought]
    BY <1>4 DEF CreateClan, RespondJoin
  <2>2. member' = [member EXCEPT ![p] = c] /\ row[c][p] = None
    BY <1>4 DEF CreateClan, RespondJoin, Founded, Rows
  <2>3. q # p \/ d # c BY <2>2
  <2>4. row'[d][q] = row[d][q] BY <1>0, <2>1, <2>3
  <2>5. member'[q] = d BY <1>1, <2>4
  <2> QED BY <1>0, <2>2, <2>3, <2>5
<1>5. ASSUME NEW p \in Players, ClanDeposit(p) PROVE member[q] = d
  <2> DEFINE c == member[p]
             n == row[c][p]
  <2>1. c # None /\ row' = [row EXCEPT ![c][p] = n + 1] /\ member' = member
    BY <1>5 DEF ClanDeposit, land
  <2>2. c \in Clans BY <1>0, <2>1
  <2>3. n # None BY <2>1 DEF Standing, Rows
  <2>4. n + 1 # None
    <3>1. n \in Int BY <1>0, <2>2, <2>3
    <3> HIDE DEF n
    <3> QED BY <3>1, LevelsAssumption
  <2> HIDE DEF n, c
  <2>5. row'[d][q] # None BY <1>0, <2>1, <2>2, <2>4
  <2> QED BY <1>1, <2>1, <2>5
<1>6. ASSUME NEW p \in Players, QuitSeason(p) PROVE member[q] = d BY <1>2, <1>6 DEF QuitSeason
<1>7. ASSUME NEW c \in Clans, SetClanCamp(c) PROVE member[q] = d BY <1>2, <1>7 DEF SetClanCamp, people
<1>8. ASSUME NEW a \in Actors,
             \/ StartMove(a) \/ CancelMove(a) \/ AdvanceOwn(a) \/ AdvanceBlocked(a)
             \/ AdvanceLose(a) \/ AdvanceWin(a)
      PROVE  member[q] = d
  <2>1. UNCHANGED <<member, row>>
    BY <1>8 DEF StartMove, CancelMove, AdvanceOwn, AdvanceBlocked, AdvanceLose, AdvanceWin, people
  <2> QED BY <1>2, <2>1
<1>9. ASSUME \/ BuyCoins \/ CloseSeason \/ UNCHANGED vars
             \/ \E p \in Players, art \in artifacts : Trade(art, p)
      PROVE  member[q] = d
  <2>1. UNCHANGED <<member, row>> BY <1>9 DEF BuyCoins, CloseSeason, Trade, vars, people
  <2> QED BY <1>2, <2>1
<1> QED BY <1>3, <1>4, <1>5, <1>6, <1>7, <1>8, <1>9 DEF Next

\* More experience is no less of a level.
LEMMA Stronger ==
  ASSUME NEW a \in Actors, Strength(a) \in Nat, Strength(a)' \in Nat,
         Strong(a), Strength(a) <= Strength(a)'
  PROVE  Strong(a)'
<1> DEFINE m == Strength(a)
           n == Strength(a)'
<1>1. m \in Nat /\ n \in Nat /\ m <= n /\ Level(m) >= Gate["treasure"] BY DEF Strong
<1> HIDE DEF m, n
<1>2. Level(m) \in Nat /\ Level(n) \in Nat /\ Level(m) <= Level(n) BY <1>1, LevelRises
<1>3. Gate["treasure"] \in Nat BY LevelsAssumption
<1>4. Level(n) >= Gate["treasure"] BY <1>1, <1>2, <1>3
<1> QED BY <1>4 DEF Strong, n

\* Most steps give nobody the treasure or a way to it, and take no level from
\* those who have one.
LEMMA NobodyWeaker ==
  ASSUME TombInv, Kept, Typed', Kept', Passed,
         \A a \in Actors : Holds(a)' \/ Seeks(a)' =>
            (Holds(a) \/ Seeks(a)) /\ Strength(a) <= Strength(a)'
  PROVE  Passed'
<1>1. \A a \in Actors : Strength(a) \in Nat BY StrengthTyped DEF TombInv
<1>2. \A a \in Actors : Strength(a)' \in Nat
  BY PlacesAssumption DEF Typed, Kept, Strength, GroupClan, AtLeast, Actors
<1>3. ASSUME NEW a \in Actors, Holds(a)' \/ Seeks(a)' PROVE Strong(a)'
  <2>1. (Holds(a) \/ Seeks(a)) /\ Strength(a) <= Strength(a)' BY <1>3
  <2>2. Strong(a) BY <2>1 DEF Passed
  <2> QED BY <1>1, <1>2, <2>1, <2>2, Stronger
<1> QED BY <1>3 DEF Passed

\* In a group whose rows are of its members, all have the same gates.
LEMMA GroupStrength ==
  ASSUME TombInv, Kept, Clean, Led, NEW a \in Actors, NEW b \in Actors, b \in Group(a)
  PROVE  Strength(a) = Strength(b)
<1> USE PlacesAssumption
<1>0. member \in [Players -> Clans \cup {None}] /\ xp \in [Actors -> Nat] BY DEF TombInv, Typed, Kept
<1>1. Actors = Players \cup Clans BY DEF Actors
<1>2. CASE GroupClan(a) = None BY <1>2 DEF Group
<1>3. CASE GroupClan(a) # None
  <2> DEFINE c == GroupClan(a)
  <2>1. c \in Clans /\ (b = c \/ b \in Rows(c)) BY <1>3, GroupClanTyped DEF Group, TombInv
  <2>2. GroupClan(b) = c
    <3>1. CASE b = c BY <2>1, <3>1 DEF GroupClan
    <3>2. CASE b \in Rows(c)
      <4>1. b \in Players /\ member[b] = c BY <2>1, <3>2 DEF Clean, Rows
      <4> QED BY <4>1 DEF GroupClan
    <3> QED BY <2>1, <3>1, <3>2
  <2>3. \A x \in Actors : GroupClan(x) = c => Strength(x) = xp[c]
    <3> SUFFICES ASSUME NEW x \in Actors, GroupClan(x) = c PROVE Strength(x) = xp[c] OBVIOUS
    <3>1. xp[x] \in Nat /\ xp[c] \in Nat BY <1>0, <1>1, <2>1
    <3>2. CASE x \in Clans
      <4>1. x = c BY <3>2 DEF GroupClan
      <4> QED BY <2>1, <3>1, <4>1 DEF Strength, AtLeast
    <3>3. CASE x \notin Clans
      <4>1. x \in Players /\ member[x] = c BY <1>1, <3>3 DEF GroupClan
      <4>2. xp[c] >= xp[x] BY <2>1, <4>1 DEF Led
      <4> HIDE DEF c
      <4> QED BY <1>3, <2>1, <3>1, <4>1, <4>2 DEF Strength, AtLeast
    <3> QED BY <3>2, <3>3
  <2> QED BY <2>2, <2>3
<1> QED BY <1>2, <1>3

\* Before a caravan leaves, the gates of its way were open to it.
LEMMA StartPassed ==
  ASSUME TombInv, Kept, Clean, Led, Passed, NEW a \in Actors, StartMove(a), Seeks(a)'
  PROVE  Strong(a)
<1> DEFINE own == Own(a)
<1>0. way \in [Actors -> Ways] BY DEF Kept
<1>1. PICK s \in Roads : way' = [way EXCEPT ![a] = s] /\ \A t \in Gated(s, own) : GateOpen(a, t)
  BY DEF StartMove
<1>2. way'[a] = s BY <1>0, <1>1
<1>3. PICK i \in 1..Len(s) : Terrain[s[i]] = "treasure" BY <1>2 DEF Seeks
<1>4. DOMAIN s = 1..Len(s) /\ s[i] \in Tiles
  <2>1. PICK n \in 1..MaxPath : s \in [1..n -> Tiles] BY DEF Roads
  <2>2. Len(s) = n /\ DOMAIN s = 1..n BY <2>1
  <2> QED BY <2>1, <2>2
<1> DEFINE t == s[i]
<1>5. t \in Range(s) /\ t \in Tiles /\ Terrain[t] = "treasure" BY <1>3, <1>4 DEF Range
<1> HIDE DEF t
<1>6. CASE t \in own
  <2>1. owner[t] \in Group(a) /\ owner \in [Tiles -> Actors \cup {None}] BY <1>6 DEF Own, TombInv, Typed
  <2>2. owner[t] \in Actors
    <3>1. None \notin Group(a) BY GroupClanTyped, PlacesAssumption DEF Group, Rows, Actors, TombInv
    <3> QED BY <1>5, <2>1, <3>1
  <2>3. Holds(owner[t]) BY <1>5 DEF Holds
  <2>4. Strong(owner[t]) BY <2>2, <2>3 DEF Passed
  <2>5. Strength(a) = Strength(owner[t]) BY <2>1, <2>2, GroupStrength
  <2> QED BY <2>4, <2>5 DEF Strong
<1>7. CASE t \notin own
  <2>1. GateOpen(a, t) BY <1>1, <1>5, <1>7 DEF Gated
  <2>2. \A j \in DOMAIN tombs : tombs[j].at \in TombSites BY RowsTyped DEF TombInv
  <2>3. TombsAt(t) = {} BY <1>5, <2>2, PlacesAssumption DEF TombsAt
  <2>4. TerrainAt(t) = "treasure" BY <1>5, <2>3 DEF TerrainAt
  <2>5. GateLevel(a) >= Gate["treasure"] BY <2>1, <2>4 DEF GateOpen
  <2> QED BY <2>5, Zenon DEF GateLevel, Strong, Strength
<1> QED BY <1>6, <1>7

\* A caravan that wins gains experience, and with it its clan.
LEMMA WinRanks ==
  ASSUME TombInv, Kept, Led, NEW a \in Actors, NEW n \in Nat, xp' = Gained(a, n), member' = member
  PROVE  Led' /\ \A b \in Actors : Strength(b) <= Strength(b)'
<1> USE PlacesAssumption
<1>0. member \in [Players -> Clans \cup {None}] /\ xp \in [Actors -> Nat] BY DEF TombInv, Typed, Kept
<1>1. Actors = Players \cup Clans BY DEF Actors
<1>2. xp[a] \in Nat BY <1>0
<1> DEFINE c == member[a]
<1>3. CASE a \in Players /\ c # None
  <2>1. c \in Clans /\ c # a /\ xp[c] \in Nat BY <1>0, <1>1, <1>3
  <2>2. xp' = [xp EXCEPT ![a] = xp[a] + n, ![c] = AtLeast(xp[c], xp[a] + n)]
    BY <1>0, <1>3, <2>1 DEF Gained
  <2> HIDE DEF c
  <2>3. /\ xp'[a] = xp[a] + n /\ xp'[c] = AtLeast(xp[c], xp[a] + n)
        /\ \A b \in Actors \ {a, c} : xp'[b] = xp[b]
    BY <1>0, <1>1, <2>1, <2>2
  <2>4. xp'[c] \in Nat /\ xp'[c] >= xp[c] /\ xp'[c] >= xp'[a] /\ xp'[a] \in Nat /\ xp'[a] >= xp[a]
    BY <1>2, <2>1, <2>3 DEF AtLeast
  <2>5. \A b \in Actors : xp'[b] \in Nat /\ xp[b] \in Nat /\ xp'[b] >= xp[b] BY <1>0, <1>2, <2>1, <2>3, <2>4
  <2>6. Led'
    <3> SUFFICES ASSUME NEW p \in Players, member[p] # None PROVE xp'[member[p]] >= xp'[p]
      BY DEF Led
    <3>1. member[p] \in Clans BY <1>0
    <3>2. CASE p = a BY <2>4, <3>2 DEF c
    <3>3. CASE p # a
      <4>1. xp'[p] = xp[p] BY <1>1, <2>1, <2>3, <3>3
      <4>2. xp[member[p]] >= xp[p] BY DEF Led
      <4>3. xp'[member[p]] >= xp[member[p]] BY <1>1, <2>5, <3>1
      <4> QED BY <1>1, <2>5, <3>1, <4>1, <4>2, <4>3
    <3> QED BY <3>2, <3>3
  <2> QED BY <1>0, <1>1, <2>5, <2>6 DEF Strength, GroupClan, AtLeast
<1>4. CASE ~(a \in Players /\ c # None)
  <2>1. xp' = [xp EXCEPT ![a] = xp[a] + n] BY <1>4 DEF Gained
  <2>2. xp'[a] = xp[a] + n /\ \A b \in Actors \ {a} : xp'[b] = xp[b] BY <1>0, <2>1
  <2>3. \A b \in Actors : xp'[b] \in Nat /\ xp[b] \in Nat /\ xp'[b] >= xp[b] BY <1>0, <1>2, <2>2
  <2>4. \A p \in Players : member[p] # None => xp'[p] = xp[p] BY <1>1, <1>4, <2>2
  <2>5. Led'
    <3> SUFFICES ASSUME NEW p \in Players, member[p] # None PROVE xp'[member[p]] >= xp'[p]
      BY DEF Led
    <3>1. member[p] \in Actors BY <1>0, <1>1
    <3>2. xp[member[p]] >= xp[p] /\ xp'[p] = xp[p] BY <2>4 DEF Led
    <3> QED BY <1>1, <2>3, <3>1, <3>2
  <2> QED BY <1>0, <1>1, <2>3, <2>5 DEF Strength, GroupClan, AtLeast
<1> QED BY <1>3, <1>4

LEMMA PassedStep ==
  ASSUME TombInv, Kept, Standing, Clean, Led, Passed, Typed', Kept', [Next]_vars
  PROVE  Led' /\ Passed'
<1> USE PlacesAssumption
<1>0. /\ member \in [Players -> Clans \cup {None}] /\ xp \in [Actors -> Nat]
      /\ way \in [Actors -> Ways] /\ owner \in [Tiles -> Actors \cup {None}]
  BY DEF Kept, TombInv, Typed
<1>00. Actors = Players \cup Clans BY DEF Actors
<1>1. \A a \in Actors : Strength(a) \in Nat BY StrengthTyped DEF TombInv
\* Ranks stay, and nobody has a new way to the treasure or its land.
<1>2. ASSUME UNCHANGED <<member, xp>>, \A a \in Actors : Holds(a)' \/ Seeks(a)' => Holds(a) \/ Seeks(a)
      PROVE  Led' /\ Passed'
  <2>1. Led' BY <1>2 DEF Led
  <2>2. \A a \in Actors : Strength(a)' = Strength(a) BY <1>2 DEF Strength, GroupClan
  <2>3. \A a \in Actors : Strength(a) <= Strength(a)' BY <1>1, <2>2
  <2> QED BY <1>2, <2>1, <2>3, NobodyWeaker
<1>3. ASSUME NEW p \in Players, JoinSeason(p) PROVE Led' /\ Passed'
  <2>1. PICK t \in CampSites :
          /\ p \notin active /\ member' = [member EXCEPT ![p] = None] /\ xp' = [xp EXCEPT ![p] = 0]
          /\ owner' = [owner EXCEPT ![t] = p] /\ way' = way
    BY <1>3 DEF JoinSeason
  <2>2. \A c \in Clans : xp'[c] = xp[c] BY <1>0, <1>00, <2>1
  <2>3. \A q \in Players \ {p} : xp'[q] = xp[q] /\ member'[q] = member[q] BY <1>0, <1>00, <2>1
  <2>4. member'[p] = None BY <1>0, <2>1
  <2>5. Led' BY <1>0, <2>2, <2>3, <2>4 DEF Led
  <2>6. \A s \in Tiles : owner'[s] = owner[s] \/ (owner'[s] = p /\ Terrain[s] # "treasure") BY <1>0, <2>1
  <2>7. \A s \in Tiles : owner[s] # p BY <2>1 DEF Standing
  <2>8. ASSUME NEW a \in Actors, Holds(a)' \/ Seeks(a)'
        PROVE  (Holds(a) \/ Seeks(a)) /\ Strength(a) <= Strength(a)'
    <3>1. Holds(a) \/ Seeks(a) BY <2>1, <2>6, <2>8 DEF Holds, Seeks
    <3>2. a # p BY <2>1, <2>7, <3>1 DEF Holds, Seeks, Standing
    <3>3. Strength(a)' = Strength(a) BY <1>0, <1>00, <2>2, <2>3, <3>2 DEF Strength, GroupClan
    <3> QED BY <1>1, <3>1, <3>3
  <2> QED BY <2>5, <2>8, NobodyWeaker
<1>4. ASSUME NEW p \in Players, QuitSeason(p) PROVE Led' /\ Passed'
  <2>1. /\ member[p] = None /\ member' = member /\ xp' = [xp EXCEPT ![p] = 0]
        /\ owner' = [t \in Tiles |-> IF owner[t] = p THEN None ELSE owner[t]]
        /\ way' = [way EXCEPT ![p] = None]
    BY <1>4 DEF QuitSeason
  <2>2. \A a \in Actors \ {p} : xp'[a] = xp[a] /\ way'[a] = way[a] BY <1>0, <2>1
  <2>3. way'[p] = None BY <1>0, <1>00, <2>1
  <2>4. \A t \in Tiles : owner'[t] # p /\ (owner'[t] = owner[t] \/ owner'[t] = None) BY <2>1
  <2>5. Led'
    <3> SUFFICES ASSUME NEW q \in Players, member[q] # None PROVE xp'[member[q]] >= xp'[q]
      BY <2>1 DEF Led
    <3>1. q # p /\ member[q] \in Clans /\ member[q] # p BY <1>0, <2>1
    <3>2. xp'[q] = xp[q] /\ xp'[member[q]] = xp[member[q]] BY <1>00, <2>2, <3>1
    <3> QED BY <3>2 DEF Led
  <2>6. ASSUME NEW a \in Actors, Holds(a)' \/ Seeks(a)'
        PROVE  (Holds(a) \/ Seeks(a)) /\ Strength(a) <= Strength(a)'
    <3>1. a # p /\ a # None BY <1>00, <2>3, <2>4, <2>6 DEF Holds, Seeks
    <3>2. Holds(a) \/ Seeks(a) BY <2>2, <2>4, <2>6, <3>1 DEF Holds, Seeks
    <3>3. \A c \in Clans : xp'[c] = xp[c] BY <1>00, <2>2
    <3>4. Strength(a)' = Strength(a) BY <1>0, <1>00, <2>1, <2>2, <3>1, <3>3 DEF Strength, GroupClan
    <3> QED BY <1>1, <3>2, <3>4
  <2> QED BY <2>5, <2>6, NobodyWeaker
<1>5. ASSUME NEW p \in Players, NEW c \in Clans, CreateClan(p, c) \/ RespondJoin(p, c)
      PROVE  Led' /\ Passed'
  <2>00. \A i, j, k \in Nat : /\ i <= j => AtLeast(i, k) <= AtLeast(j, k)
                              /\ i <= AtLeast(i, j) /\ j <= AtLeast(i, j) /\ AtLeast(i, i) = i
    BY DEF AtLeast
  <2>1. /\ member[p] = None /\ member' = [member EXCEPT ![p] = c] /\ UNCHANGED <<owner, way, camped>>
        /\ \/ Rows(c) = {} /\ xp' = [xp EXCEPT ![c] = xp[p]]
           \/ xp' = [xp EXCEPT ![c] = AtLeast(xp[c], xp[p])]
    BY <1>5 DEF CreateClan, RespondJoin, land, Founded
  <2>2. \A a \in Actors \ {c} : xp'[a] = xp[a] BY <1>0, <2>1
  <2>3. xp[p] \in Nat /\ xp[c] \in Nat /\ p # c BY <1>0, <1>00
  <2>4. xp'[c] \in Nat /\ xp'[c] >= xp[p] /\ (Rows(c) = {} \/ xp'[c] >= xp[c])
    BY <1>0, <1>00, <2>1, <2>3 DEF AtLeast
  <2>5. member'[p] = c /\ \A q \in Players \ {p} : member'[q] = member[q] BY <1>0, <2>1
  <2>6. \A q \in Players : member[q] = c => Rows(c) # {} BY DEF Standing
  <2>7. Led'
    <3> SUFFICES ASSUME NEW q \in Players, member'[q] # None PROVE xp'[member'[q]] >= xp'[q]
      BY DEF Led
    <3>1. q # c /\ xp'[q] = xp[q] /\ xp[q] \in Nat BY <1>0, <1>00, <2>2
    <3>2. CASE q = p BY <2>4, <2>5, <3>1, <3>2
    <3>3. CASE q # p
      <4>1. member'[q] = member[q] /\ member[q] \in Clans /\ xp[member[q]] >= xp[q] BY <1>0, <2>5, <3>3 DEF Led
      <4>2. CASE member[q] = c
        <5>1. xp'[c] >= xp[c] BY <2>4, <2>6, <4>2
        <5> QED BY <2>3, <2>4, <3>1, <4>1, <4>2, <5>1
      <4>3. CASE member[q] # c
        <5>1. xp'[member[q]] = xp[member[q]] BY <1>00, <2>2, <4>1, <4>3
        <5> QED BY <3>1, <4>1, <5>1
      <4> QED BY <4>2, <4>3
    <3> QED BY <3>2, <3>3
  <2>8. ASSUME NEW a \in Actors, Holds(a)' \/ Seeks(a)'
        PROVE  (Holds(a) \/ Seeks(a)) /\ Strength(a) <= Strength(a)'
    <3>1. Holds(a) \/ Seeks(a) BY <2>1, <2>8 DEF Holds, Seeks
    <3> SUFFICES Strength(a) <= Strength(a)' BY <3>1
    <3>2. a = c => Rows(c) # {} BY <3>1 DEF Holds, Seeks, Standing, Founded
    <3>3. CASE a = c
      <4>1. Strength(a) = xp[c] /\ Strength(a)' = xp'[c]
        BY <2>00, <2>3, <2>4, <3>3 DEF Strength, GroupClan
      <4> QED BY <2>3, <2>4, <3>2, <3>3, <4>1
    <3>4. CASE a # c
      <4>1. xp'[a] = xp[a] /\ xp[a] \in Nat BY <1>0, <2>2, <3>4
      <4>2. CASE a = p
        <5>1. Strength(a) = xp[p] BY <2>1, <2>3, <4>2 DEF Strength, GroupClan
        <5>2. Strength(a)' = AtLeast(xp'[c], xp[p]) BY <2>3, <2>5, <4>1, <4>2 DEF Strength, GroupClan
        <5> QED BY <2>00, <2>3, <2>4, <5>1, <5>2
      <4>3. CASE a # p /\ GroupClan(a) = c
        <5>1. a \in Players /\ member[a] = c /\ member'[a] = c BY <1>00, <2>5, <3>4, <4>3 DEF GroupClan
        <5>2. xp'[c] >= xp[c] BY <2>4, <2>6, <5>1
        <5>3. Strength(a) = AtLeast(xp[c], xp[a]) /\ Strength(a)' = AtLeast(xp'[c], xp[a])
          BY <3>4, <4>1, <5>1 DEF Strength, GroupClan
        <5> QED BY <2>00, <2>3, <2>4, <4>1, <5>2, <5>3
      <4>4. CASE a # p /\ GroupClan(a) # c
        <5>1. GroupClan(a)' = GroupClan(a) BY <1>00, <2>5, <4>4 DEF GroupClan
        <5>2. GroupClan(a) \in Clans \cup {None} BY GroupClanTyped DEF TombInv
        <5>3. GroupClan(a) # None => xp'[GroupClan(a)] = xp[GroupClan(a)] BY <1>00, <2>2, <4>4, <5>2
        <5>4. Strength(a)' = Strength(a) BY <4>1, <5>1, <5>3, Zenon DEF Strength
        <5> QED BY <1>1, <5>4
      <4> QED BY <4>2, <4>3, <4>4
    <3> QED BY <3>3, <3>4
  <2> QED BY <2>7, <2>8, NobodyWeaker
<1>6. ASSUME NEW p \in Players, ClanDeposit(p) PROVE Led' /\ Passed'
  BY <1>2, <1>6 DEF ClanDeposit, land, Holds, Seeks
<1>7. ASSUME NEW c \in Clans, SetClanCamp(c) PROVE Led' /\ Passed'
  BY <1>2, <1>7 DEF SetClanCamp, people, Holds, Seeks
<1>8. ASSUME NEW a \in Actors, StartMove(a) PROVE Led' /\ Passed'
  <2>1. UNCHANGED <<member, row, xp, owner>> /\ \E s : way' = [way EXCEPT ![a] = s]
    BY <1>8 DEF StartMove, people
  <2>2. \A b \in Actors \ {a} : way'[b] = way[b] BY <1>0, <2>1
  <2>3. \A b \in Actors : Strength(b)' = Strength(b) BY <2>1 DEF Strength, GroupClan
  <2>4. Led' BY <2>1 DEF Led
  <2>5. ASSUME NEW b \in Actors, Holds(b)' \/ Seeks(b)' PROVE Strong(b)
    <3>1. CASE Holds(b) \/ Seeks(b) BY <3>1 DEF Passed
    <3>2. CASE b = a /\ Seeks(a)' BY <1>8, <3>2, StartPassed
    <3>3. Holds(b)' => Holds(b) BY <2>1 DEF Holds
    <3>4. b # a /\ Seeks(b)' => Seeks(b) BY <2>2 DEF Seeks
    <3> QED BY <2>5, <3>1, <3>2, <3>3, <3>4
  <2>6. \A b \in Actors : Strong(b) => Strong(b)' BY <2>3 DEF Strong
  <2> QED BY <2>4, <2>5, <2>6 DEF Passed
<1>9. ASSUME NEW a \in Actors, CancelMove(a) \/ AdvanceOwn(a) \/ AdvanceBlocked(a) \/ AdvanceLose(a)
      PROVE  Led' /\ Passed'
  <2>1. /\ UNCHANGED <<member, xp, owner>> /\ way[a] # None
        /\ way' = [way EXCEPT ![a] = None] \/ way' = [way EXCEPT ![a] = Onward(a, owner)]
    BY <1>9 DEF CancelMove, AdvanceOwn, AdvanceBlocked, AdvanceLose, people
  <2>2. \A b \in Actors \ {a} : way'[b] = way[b] BY <1>0, <2>1
  <2>3. way'[a] = None \/ way'[a] = Onward(a, owner) BY <1>0, <2>1
  <2>4. Seeks(a)' => Seeks(a) BY <2>1, <2>3, OnwardTyped DEF Seeks
  <2>5. \A b \in Actors : Seeks(b)' => Seeks(b) BY <2>2, <2>4 DEF Seeks
  <2>6. \A b \in Actors : Holds(b)' => Holds(b) BY <2>1 DEF Holds
  <2> QED BY <1>2, <2>1, <2>5, <2>6
<1>10. ASSUME NEW a \in Actors, AdvanceWin(a) PROVE Led' /\ Passed'
  <2> DEFINE t == Head(way[a])
             land2 == [owner EXCEPT ![t] = a]
             n == CaptureXp(TerrainAt(t), Monsters[TerrainAt(t)], Xp)
  <2>1. /\ way[a] # None /\ way' = [way EXCEPT ![a] = Onward(a, land2)] /\ xp' = Gained(a, n)
        /\ owner' = land2 /\ member' = member
    BY <1>10 DEF AdvanceWin, people
  <2>2. t \in Tiles /\ t = way[a][1] /\ 1 \in 1..Len(way[a]) BY <2>1, WayTyped
  <2> HIDE DEF t
  <2>3. n \in Nat BY <2>2, CaptureXpTyped
  <2>4. owner'[t] = a /\ \A s \in Tiles \ {t} : owner'[s] = owner[s] BY <1>0, <2>1, <2>2
  <2> HIDE DEF n, land2
  <2>5. Led' /\ \A b \in Actors : Strength(b) <= Strength(b)' BY <2>1, <2>3, WinRanks
  <2>6. \A b \in Actors \ {a} : way'[b] = way[b] BY <1>0, <2>1
  <2>7. way'[a] = Onward(a, land2) BY <1>0, <2>1
  <2>8. Seeks(a)' => Seeks(a) BY <2>1, <2>7, OnwardTyped DEF Seeks
  <2>9. \A b \in Actors : Seeks(b)' => Seeks(b) BY <2>6, <2>8 DEF Seeks
  <2>10. Holds(a)' => Holds(a) \/ Seeks(a) BY <2>1, <2>2, <2>4 DEF Holds, Seeks
  <2>11. \A b \in Actors : Holds(b)' => Holds(b) \/ Seeks(b) BY <2>4, <2>10 DEF Holds
  <2> QED BY <2>5, <2>9, <2>11, NobodyWeaker
<1>11. ASSUME CloseSeason PROVE Led' /\ Passed'
  <2>1. way' = [a \in Actors |-> None] /\ UNCHANGED <<member, xp, owner>> BY <1>11 DEF CloseSeason, people
  <2> QED BY <1>2, <2>1 DEF Holds, Seeks
<1>12. ASSUME BuyCoins \/ UNCHANGED vars \/ \E p \in Players, art \in artifacts : Trade(art, p)
       PROVE  Led' /\ Passed'
  <2>1. UNCHANGED <<member, xp, owner, way>> BY <1>12 DEF BuyCoins, Trade, vars, people, land
  <2> QED BY <1>2, <2>1 DEF Holds, Seeks
<1> QED BY <1>3, <1>4, <1>5, <1>6, <1>7, <1>8, <1>9, <1>10, <1>11, <1>12 DEF Next

LEMMA GateStep == TombInv /\ GateInv /\ TombInv' /\ [Next]_vars => GateInv'
<1> SUFFICES ASSUME TombInv, GateInv, TombInv', [Next]_vars PROVE GateInv' OBVIOUS
<1>1. Kept' /\ Standing' /\ (Clean' => Clean) BY KeptStep, StandingStep, CleanStep DEF GateInv
<1>2. ASSUME Clean' PROVE Led' /\ Passed' BY <1>1, <1>2, PassedStep DEF GateInv, TombInv
<1> QED BY <1>1, <1>2 DEF GateInv

\* Whoever owns the land of the treasure has the level of its gate (gateCheck of
\* actions.ts, advance of tick.ts), for any map, ways, clans and experience, as
\* long as no clan has a row of somebody who is not its member.
THEOREM TreasureIsGated == Spec => []TreasureNeedsLevel
<1>1. TombInv /\ GateInv => TreasureNeedsLevel
  <2> SUFFICES ASSUME TombInv, GateInv, Clean, NEW t \in Tiles, Terrain[t] = "treasure", owner[t] # None
               PROVE  GateLevel(owner[t]) >= Gate["treasure"]
    BY Zenon DEF TreasureNeedsLevel, Clean
  <2>1. owner[t] \in Actors BY DEF TombInv, Typed
  <2>2. Strong(owner[t]) BY <2>1 DEF GateInv, Passed, Holds
  <2> QED BY <2>2, Zenon DEF Strong, GateLevel, Strength
<1>2. Init => GateInv BY GateInit DEF GateInv
<1> QED BY <1>1, <1>2, InvInit, InvStep, GateStep, PTL DEF Spec

-----------------------------------------------------------------------------
(* The prizes.                                                             *)

Banks == [wallet : [Players -> Nat], announced : Nat, rounding : Nat, unshared : Nat]
Full(b) == b.announced - SumOver(b.wallet, Players) \in b.unshared..b.unshared + b.rounding

\* Who may own an artifact or win the treasure: a clan has members by then.
Payable(who) == who \in Actors /\ (who \in Clans => Founded(who))
Weighed == row \in [Clans -> [Players -> Nat \cup {None}]]

LEMMA FinitePlayers == IsFiniteSet(Players)
BY PrizesAssumption

LEMMA BankParts ==
  ASSUME NEW b \in Banks
  PROVE  /\ b.wallet \in [Players -> Nat] /\ b.announced \in Nat
         /\ b.rounding \in Nat /\ b.unshared \in Nat
BY DEF Banks

\* A bank that has paid n more, and what got lost of it.
Paid(b, next, got, n, rounding, unshared) ==
  /\ next \in Banks
  /\ next.announced = b.announced + n
  /\ next.rounding = b.rounding + rounding /\ next.unshared = b.unshared + unshared
  /\ \A p \in Players : got[p] \in Nat /\ next.wallet[p] = b.wallet[p] + got[p]

LEMMA PaidFully ==
  ASSUME NEW b \in Banks, Full(b), NEW next, NEW got,
         NEW n \in Nat, NEW rounding \in Nat, NEW unshared \in Nat,
         Paid(b, next, got, n, rounding, unshared),
         n - SumOver(got, Players) \in unshared..unshared + rounding
  PROVE  Full(next)
<1>1. /\ next.announced = b.announced + n
      /\ next.rounding = b.rounding + rounding /\ next.unshared = b.unshared + unshared
  BY DEF Paid
<1>2. b.announced \in Nat /\ b.rounding \in Nat /\ b.unshared \in Nat
  BY BankParts
<1>3. \A p \in Players : b.wallet[p] \in Int /\ got[p] \in Int /\ next.wallet[p] = b.wallet[p] + got[p]
  BY BankParts DEF Paid
<1>4. SumOver(next.wallet, Players) = SumOver(b.wallet, Players) + SumOver(got, Players)
  BY <1>3, FinitePlayers, SumPlus
<1>5. SumOver(b.wallet, Players) \in Int /\ SumOver(got, Players) \in Int
  BY <1>3, FinitePlayers, SumInt
<1>6. b.announced - SumOver(b.wallet, Players) \in b.unshared..b.unshared + b.rounding
  BY DEF Full
<1>7. next.announced - SumOver(next.wallet, Players) \in next.unshared..next.unshared + next.rounding
  BY <1>1, <1>2, <1>4, <1>5, <1>6
<1> QED BY <1>7 DEF Full

\* What the members of a clan get of a prize.
Parts(c, amount) == [p \in Players |-> IF p \in Rows(c) THEN Part(c, p, amount) ELSE 0]
Unshared(c, amount) == IF Total(c) = 0 /\ Cardinality(Rows(c)) > 1 THEN amount ELSE 0

LEMMA RowsFinite ==
  ASSUME Weighed, NEW c \in Clans
  PROVE  /\ Rows(c) \subseteq Players /\ IsFiniteSet(Rows(c)) /\ Cardinality(Rows(c)) \in Nat
         /\ \A p \in Rows(c) : row[c][p] \in Nat
         /\ Total(c) \in Nat
<1>1. Rows(c) \subseteq Players /\ IsFiniteSet(Rows(c))
  BY FinitePlayers, FS_Subset DEF Rows
<1>2. \A p \in Rows(c) : row[c][p] \in Nat
  BY DEF Weighed, Rows
<1>3. Total(c) \in Nat
  BY <1>1, <1>2, SumNat DEF Total
<1> QED BY <1>1, <1>2, <1>3, FS_CardinalityType

LEMMA PartsNat ==
  ASSUME Weighed, NEW c \in Clans, NEW amount \in Nat
  PROVE  \A p \in Players : Parts(c, amount)[p] \in Nat
<1> SUFFICES ASSUME NEW p \in Players PROVE Parts(c, amount)[p] \in Nat
  OBVIOUS
<1>1. CASE p \in Rows(c) /\ Total(c) > 0
  <2> DEFINE m == amount * row[c][p]
             t == Total(c)
  <2>1. m \in Nat /\ t \in Nat \ {0}
    BY <1>1, RowsFinite
  <2>2. Parts(c, amount)[p] = m \div t
    BY <1>1 DEF Parts, Part
  <2> HIDE DEF m, t
  <2> QED BY <2>1, <2>2, Quotient
<1>2. CASE ~(p \in Rows(c) /\ Total(c) > 0)
  <2>1. Parts(c, amount)[p] \in {0, amount}
    BY <1>2 DEF Parts, Part
  <2> QED BY <2>1
<1> QED BY <1>1, <1>2

LEMMA PartsSum ==
  ASSUME Weighed, NEW c \in Clans, Founded(c), NEW amount \in Nat
  PROVE  amount - SumOver(Parts(c, amount), Players)
           \in Unshared(c, amount)..Unshared(c, amount) + Cardinality(Rows(c))
<1> DEFINE f == Parts(c, amount)
           R == Rows(c)
           n == Cardinality(R)
           x == SumOver(f, R)
           u == Unshared(c, amount)
           Lost == amount - x \in u..u + n
<1>1. \A p \in Players : f[p] \in Int
  <2>1. \A p \in Players : f[p] \in Nat
    BY PartsNat
  <2> HIDE DEF f
  <2> QED BY <2>1
<1>2. R \in SUBSET Players /\ IsFiniteSet(R) /\ n \in Nat /\ Total(c) \in Nat
  BY RowsFinite
<1>3. SumOver(f, Players) = x
  <2>1. \A p \in Players \ R : f[p] = 0
    BY DEF Parts
  <2>2. IsFiniteSet(Players \ R)
    BY FinitePlayers, FS_Subset
  <2>3. SumOver(f, Players \ R) = 0
    <3> HIDE DEF f, R
    <3> QED BY <2>1, <2>2, SumZero
  <2>4. SumOver(f, Players) = SumOver(f, R) + SumOver(f, Players \ R)
    <3> HIDE DEF f, R
    <3> QED BY <1>1, <1>2, FinitePlayers, SumSplit
  <2>5. x \in Int
    <3> HIDE DEF f, R
    <3> QED BY <1>1, <1>2, SumInt
  <2> HIDE DEF f, R
  <2> QED BY <2>3, <2>4, <2>5
<1>4. x \in Int
  <2> HIDE DEF f, R
  <2> QED BY <1>1, <1>2, SumInt
<1>5. ASSUME Total(c) > 0 PROVE Lost
  <2>1. \A p \in R : row[c][p] \in Nat /\ f[p] = (amount * row[c][p]) \div SumOver(row[c], R)
    BY <1>2, <1>5, RowsFinite DEF Parts, Part, Total
  <2>2. SumOver(row[c], R) > 0 /\ Shares(R, row[c], amount, f)
    BY <1>5, <2>1 DEF Shares, Total
  <2>3. x <= amount /\ amount <= x + n
    <3> HIDE DEF f, R
    <3> QED BY <1>2, <2>2, SumShares
  <2>4. u = 0
    BY <1>5 DEF Unshared
  <2> HIDE DEF f, R, x, n, u
  <2> QED BY <1>2, <1>3, <1>4, <2>3, <2>4
<1>6. ASSUME Total(c) = 0, n > 1 PROVE Lost
  <2>1. \A p \in R : f[p] = 0
    <3> SUFFICES ASSUME NEW p \in R PROVE f[p] = 0
      OBVIOUS
    <3>1. Cardinality({p}) = 1
      BY FS_Singleton
    <3>2. R # {p}
      BY <1>6, <3>1
    <3> QED BY <1>2, <1>6, <3>2 DEF Parts, Part
  <2>2. x = 0
    <3> HIDE DEF f, R
    <3> QED BY <1>2, <2>1, SumZero
  <2>3. u = amount
    BY <1>6 DEF Unshared
  <2> HIDE DEF f, R, x, n, u
  <2> QED BY <1>2, <1>3, <2>2, <2>3
<1>7. ASSUME Total(c) = 0, ~(n > 1) PROVE Lost
  <2>1. R # {}
    BY DEF Founded
  <2>2. n # 0
    <3> HIDE DEF R
    <3> QED BY <1>2, <2>1, FS_EmptySet
  <2>3. n = 1
    <3> HIDE DEF n
    <3> QED BY <1>2, <1>7, <2>2
  <2>4. PICK p : R = {p}
    <3> HIDE DEF R
    <3> QED BY <1>2, <2>3, FS_Singleton
  <2>5. p \in Players /\ f[p] = amount
    BY <1>2, <1>7, <2>4 DEF Parts, Part
  <2>6. x = amount
    <3>1. SumOver(f, {p}) = f[p]
      <4> HIDE DEF f
      <4> QED BY <2>5, SumSingle
    <3> QED BY <2>4, <2>5, <3>1
  <2>7. u = 0
    BY <1>7 DEF Unshared
  <2> HIDE DEF f, R, x, n, u
  <2> QED BY <1>3, <2>3, <2>6, <2>7
<1>8. Total(c) = 0 \/ Total(c) > 0
  BY <1>2
<1>9. Lost
  <2> HIDE DEF Lost, n
  <2> QED BY <1>5, <1>6, <1>7, <1>8
<1> QED BY <1>3, <1>9

\* One prize.
LEMMA PayFully ==
  ASSUME Weighed, NEW b \in Banks, Full(b), NEW who, Payable(who), NEW n \in Nat
  PROVE  /\ Pay(b, who, n) \in Banks /\ Full(Pay(b, who, n))
         /\ Pay(b, who, n).announced = b.announced + n
<1> DEFINE next == Pay(b, who, n)
<1>1. CASE who \in Players
  <2> DEFINE got == [p \in Players |-> IF p = who THEN n ELSE 0]
             z == [p \in Players |-> 0]
  <2>1. next = [b EXCEPT !.wallet[who] = b.wallet[who] + n, !.announced = b.announced + n]
    BY <1>1 DEF Pay
  <2>2. /\ b.wallet \in [Players -> Nat] /\ b.announced \in Nat
        /\ b.rounding \in Nat /\ b.unshared \in Nat
    BY BankParts
  <2>3. /\ next.wallet = [b.wallet EXCEPT ![who] = b.wallet[who] + n]
        /\ next.announced = b.announced + n
        /\ next.rounding = b.rounding /\ next.unshared = b.unshared
    BY <2>1 DEF Banks
  <2>4. b.wallet[who] + n \in Nat /\ b.announced + n \in Nat
    BY <1>1, <2>2
  <2>5. next.wallet \in [Players -> Nat]
    <3> HIDE DEF next
    <3> QED BY <2>2, <2>3, <2>4
  <2>6. next \in Banks
    BY <2>1, <2>3, <2>4, <2>5 DEF Banks
  <2>7. \A p \in Players : got[p] \in Nat /\ next.wallet[p] = b.wallet[p] + got[p]
    <3> HIDE DEF next
    <3> QED BY <2>2, <2>3
  <2>8. Paid(b, next, got, n, 0, 0)
    <3> HIDE DEF next, got
    <3> QED BY <2>2, <2>3, <2>6, <2>7 DEF Paid
  <2>9. SumOver(got, Players) = n
    <3>1. DifferAt(who, Players, z, got)
      BY DEF DifferAt
    <3>2. z[who] = 0 /\ got[who] = n /\ \A p \in Players : z[p] = 0
      BY <1>1
    <3> HIDE DEF got, z
    <3>3. SumOver(got, Players) = SumOver(z, Players) + got[who] - z[who]
      BY <1>1, <3>1, FinitePlayers, SumUpdate
    <3>4. SumOver(z, Players) = 0
      BY <3>2, FinitePlayers, SumZero
    <3> QED BY <3>2, <3>3, <3>4
  <2>10. n - SumOver(got, Players) \in 0..0 + 0
    <3> HIDE DEF got
    <3> QED BY <2>9
  <2>11. Full(next)
    <3> HIDE DEF got, next
    <3> QED BY <2>8, <2>10, PaidFully
  <2> QED BY <2>3, <2>6, <2>11
<1>2. CASE who \notin Players
  <2> DEFINE got == Parts(who, n)
             k == Cardinality(Rows(who))
             u == Unshared(who, n)
  <2>1. who \in Clans /\ Founded(who)
    BY <1>2 DEF Payable, Actors
  <2>2. /\ b.wallet \in [Players -> Nat] /\ b.announced \in Nat
        /\ b.rounding \in Nat /\ b.unshared \in Nat
    BY BankParts
  <2>3. k \in Nat /\ u \in Nat
    BY <2>1, RowsFinite DEF Unshared
  <2>4. \A p \in Players : got[p] \in Nat
    BY <2>1, PartsNat
  <2>5. /\ next = [wallet |-> next.wallet, announced |-> b.announced + n,
                   rounding |-> b.rounding + k, unshared |-> b.unshared + u]
        /\ next.wallet = [p \in Players |-> b.wallet[p] + got[p]]
    BY <1>2 DEF Pay, Parts, Unshared
  <2>6. next.wallet \in [Players -> Nat]
    <3> HIDE DEF next, got
    <3> QED BY <2>2, <2>4, <2>5
  <2>7. next \in Banks
    <3> HIDE DEF next, k, u
    <3> QED BY <2>2, <2>3, <2>5, <2>6 DEF Banks
  <2>8. Paid(b, next, got, n, k, u)
    <3>1. \A p \in Players : next.wallet[p] = b.wallet[p] + got[p]
      <4> HIDE DEF next, got
      <4> QED BY <2>5
    <3> HIDE DEF next, got, k, u
    <3> QED BY <2>4, <2>5, <2>7, <3>1 DEF Paid
  <2>9. n - SumOver(got, Players) \in u..u + k
    BY <2>1, PartsSum
  <2>10. Full(next)
    <3> HIDE DEF next, got, k, u
    <3> QED BY <2>3, <2>8, <2>9, PaidFully
  <2>11. next.announced = b.announced + n
    <3> HIDE DEF next, k, u
    <3> QED BY <2>5
  <2> QED BY <2>7, <2>10, <2>11
<1> QED BY <1>1, <1>2

\* The artifacts S sold at the close, each for value, and the function that is
\* computed by.
Sold(S, base, value) == FoldSet(LAMBDA art, b : Pay(b, art.owner, value), base, S)
IsSale(g, S, base, value) ==
  g = [s \in SUBSET S |-> IF s = {} THEN base ELSE Pay(g[s \ {Chosen(s)}], Chosen(s).owner, value)]

LEMMA SoldUnfolds ==
  ASSUME NEW S, NEW base, NEW value
  PROVE  Sold(S, base, value) = (CHOOSE g : IsSale(g, S, base, value))[S]
BY DEF Sold, FoldSet, MapThenFoldSet, IsSale, Chosen

LEMMA SalesExist ==
  ASSUME Weighed, NEW S, IsFiniteSet(S), \A art \in S : Payable(art.owner),
         NEW base \in Banks, Full(base), NEW value \in Nat
  PROVE  \E g : IsSale(g, S, base, value)
<1> DEFINE Fulls == {b \in Banks : Full(b)}
           op == [art \in S |-> [b \in Fulls |-> Pay(b, art.owner, value)]]
<1>1. \A art \in S, b \in Fulls : op[art][b] = Pay(b, art.owner, value) /\ op[art][b] \in Fulls
  BY PayFully
<1> HIDE DEF op
<1>2. PICK g : IsFold(g, op, base, S)
  BY FoldsExist
<1>3. \A T \in SUBSET S : g[T] \in Fulls
  <2>1. base \in Fulls /\ \A art \in S, b \in Fulls : op[art][b] \in Fulls
    BY <1>1
  <2> HIDE DEF Fulls
  <2> QED BY <1>2, <2>1, FoldsTyped
<1>4. ASSUME NEW s \in SUBSET S
      PROVE  g[s] = IF s = {} THEN base ELSE Pay(g[s \ {Chosen(s)}], Chosen(s).owner, value)
  <2>1. g[s] = IF s = {} THEN base ELSE op[Chosen(s)][g[s \ {Chosen(s)}]]
    BY <1>2 DEF IsFold
  <2>2. CASE s = {}
    BY <2>1, <2>2
  <2>3. CASE s # {}
    <3>1. Chosen(s) \in S /\ g[s \ {Chosen(s)}] \in Fulls
      BY <1>3, <2>3 DEF Chosen
    <3>2. op[Chosen(s)][g[s \ {Chosen(s)}]] = Pay(g[s \ {Chosen(s)}], Chosen(s).owner, value)
      BY <1>1, <3>1
    <3> QED BY <2>1, <2>3, <3>2
  <2> QED BY <2>2, <2>3
<1>5. g = [s \in SUBSET S |-> g[s]]
  BY <1>2, Zenon DEF IsFold
<1>6. IsSale(g, S, base, value)
  BY <1>4, <1>5, Zenon DEF IsSale
<1> QED BY <1>6

LEMMA SoldFully ==
  ASSUME Weighed, NEW S, IsFiniteSet(S), \A art \in S : Payable(art.owner),
         NEW base \in Banks, Full(base), NEW value \in Nat
  PROVE  /\ Sold(S, base, value) \in Banks /\ Full(Sold(S, base, value))
         /\ Sold(S, base, value).announced = base.announced + value * Cardinality(S)
<1>1. \E g : IsSale(g, S, base, value)
  BY SalesExist
<1>2. PICK g : IsSale(g, S, base, value) /\ Sold(S, base, value) = g[S]
  BY <1>1, SoldUnfolds
<1> DEFINE Right(s, b) == b \in Banks /\ Full(b) /\ b.announced = base.announced + value * Cardinality(s)
           E == {s \in SUBSET S : Right(s, g[s])}
<1>3. base.announced \in Nat
  BY BankParts
<1>4. ASSUME NEW T \in SUBSET S, \A U \in SUBSET T : U # T => U \in E PROVE T \in E
  <2>1. CASE T = {}
    <3>1. g[T] = base /\ Cardinality(T) = 0
      BY <1>2, <2>1, FS_EmptySet DEF IsSale
    <3> QED BY <1>3, <3>1
  <2>2. CASE T # {}
    <3> DEFINE x == Chosen(T)
               r == T \ {x}
    <3>1. x \in T /\ x \in S /\ Payable(x.owner)
      BY <2>2 DEF Chosen
    <3>2. g[T] = Pay(g[r], x.owner, value)
      BY <1>2, <2>2 DEF IsSale
    <3>3. Right(r, g[r])
      BY <1>4, <3>1
    <3>4. /\ g[T] \in Banks /\ Full(g[T])
          /\ g[T].announced = g[r].announced + value
      <4> HIDE DEF x, r
      <4> QED BY <3>1, <3>2, <3>3, PayFully
    <3>5. IsFiniteSet(r) /\ Cardinality(r) \in Nat /\ Cardinality(T) = Cardinality(r) + 1
      <4>1. IsFiniteSet(r) /\ x \notin r /\ r \cup {x} = T
        BY <3>1, FS_Subset
      <4> HIDE DEF x, r
      <4> QED BY <4>1, FS_CardinalityType, FS_AddElement
    <3>6. g[T].announced = base.announced + value * Cardinality(T)
      <4>1. \A n \in Nat : base.announced + value * n + value = base.announced + value * (n + 1)
        BY <1>3
      <4>2. g[r].announced = base.announced + value * Cardinality(r)
        BY <3>3
      <4> HIDE DEF x, r, E
      <4> QED BY <3>4, <3>5, <4>1, <4>2
    <3> QED BY <3>4, <3>6
  <2> QED BY <2>1, <2>2
<1>5. SUBSET S \subseteq E
  <2> HIDE DEF E
  <2> QED BY <1>4, SetInduction
<1>6. Right(S, g[S])
  <2>1. S \in SUBSET S
    OBVIOUS
  <2> QED BY <1>5, <2>1
<1> QED BY <1>2, <1>6

\* What a prize may be, and that all of them fit into the pool.
LEMMA ValuesTyped ==
  ASSUME NEW n \in Nat
  PROVE  /\ ArtifactValue(n, Share) \in Nat /\ 100 * ArtifactValue(n, Share) <= n * Share.artifact
         /\ ParticipationValue(n, Share) \in Nat
         /\ 100 * ParticipationValue(n, Share) <= n * Share.participation
         /\ TreasureValue(n, Share) \in Nat
         /\ 100 * (TreasureValue(n, Share) - Share.floor) <= n * Share.treasure
<1>1. /\ Share.artifact \in Nat /\ Share.treasure \in Nat
      /\ Share.participation \in Nat /\ Share.floor \in Nat
  BY PrizesAssumption
<1>2. ArtifactValue(n, Share) \in Nat /\ 100 * ArtifactValue(n, Share) <= n * Share.artifact
  BY <1>1, ShareTyped DEF ArtifactValue
<1>3. /\ ParticipationValue(n, Share) \in Nat
      /\ 100 * ParticipationValue(n, Share) <= n * Share.participation
  BY <1>1, ShareTyped DEF ParticipationValue
<1>4. /\ TreasureValue(n, Share) \in Nat
      /\ 100 * (TreasureValue(n, Share) - Share.floor) <= n * Share.treasure
  <2> DEFINE m == (n * Share.treasure) \div 100
  <2>1. m \in Nat /\ 100 * m <= n * Share.treasure /\ n * Share.treasure \in Nat
    BY <1>1, ShareTyped
  <2>2. TreasureValue(n, Share) = IF m < Share.floor THEN Share.floor ELSE m
    BY DEF TreasureValue, AtLeast
  <2> HIDE DEF m
  <2> QED BY <1>1, <2>1, <2>2
<1> QED BY <1>2, <1>3, <1>4

LEMMA AllWithinPool ==
  ASSUME NEW n \in Nat, NEW k \in 0..TombsTotal
  PROVE  TreasureValue(n, Share) + ParticipationValue(n, Share) + ArtifactValue(n, Share) * k
           <= n + Share.floor
<1>1. /\ Share.artifact \in Nat /\ Share.participation \in Nat /\ Share.treasure \in Nat
      /\ Share.floor \in Nat /\ TombsTotal \in Nat
      /\ Share.treasure + TombsTotal * Share.artifact + Share.participation <= 100
  BY PrizesAssumption
<1> QED BY <1>1, ValuesTyped, SharesWithin

LEMMA PrizesGrow ==
  ASSUME NEW m \in Nat, NEW n \in Nat, m <= n
  PROVE  /\ TreasureValue(m, Share) <= TreasureValue(n, Share)
         /\ ParticipationValue(m, Share) <= ParticipationValue(n, Share)
<1>1. Share.treasure \in Nat /\ Share.participation \in Nat /\ Share.floor \in Nat
  BY PrizesAssumption
<1>2. ParticipationValue(m, Share) <= ParticipationValue(n, Share)
  BY <1>1, ShareGrows DEF ParticipationValue
<1>3. (m * Share.treasure) \div 100 <= (n * Share.treasure) \div 100
      /\ (m * Share.treasure) \div 100 \in Int /\ (n * Share.treasure) \div 100 \in Int
  BY <1>1, ShareGrows, ShareTyped
<1>4. TreasureValue(m, Share) <= TreasureValue(n, Share)
  BY <1>1, <1>3 DEF TreasureValue, AtLeast
<1> QED BY <1>2, <1>4

\* The prizes stay within the pool because the treasure is paid once, an
\* artifact comes from a tomb of its own, and what was announced before the pool
\* grew is not more than the same shares of the grown one.
Bounded ==
  /\ Len(tombs) <= TombsTotal
  /\ treasure = None => bank.announced = 0 /\ ~closed
  /\ treasure # None /\ ~closed =>
       bank.announced <= TreasureValue(pool, Share) + ParticipationValue(pool, Share)
  /\ closed => bank.announced <= pool + Share.floor

Rich ==
  /\ bank \in Banks /\ Full(bank) /\ pool \in Nat /\ closed \in BOOLEAN
  /\ \A art \in artifacts : Payable(art.owner)
  /\ Bounded

LEMMA RichInit == Init => Rich
<1> SUFFICES ASSUME Init PROVE Rich
  OBVIOUS
<1> DEFINE z == [p \in Players |-> 0]
<1>1. bank = [wallet |-> z, announced |-> 0, rounding |-> 0, unshared |-> 0]
  BY DEF Init
<1>2. bank \in Banks
  BY <1>1 DEF Banks
<1>3. SumOver(z, Players) = 0
  <2>1. \A p \in Players : z[p] = 0
    OBVIOUS
  <2> HIDE DEF z
  <2> QED BY <2>1, FinitePlayers, SumZero
<1>4. Full(bank)
  <2> HIDE DEF z
  <2>1. bank.wallet = z /\ bank.announced = 0 /\ bank.rounding = 0 /\ bank.unshared = 0
    BY <1>1
  <2> QED BY <1>3, <2>1 DEF Full
<1>5. Len(tombs) <= TombsTotal
  <2>1. tombs = [i \in 1..Len(FirstTombs) |-> [at |-> FirstTombs[i], captured |-> FALSE]]
    BY PlacesAssumption DEF Init
  <2>2. Len(FirstTombs) \in Nat
    BY PlacesAssumption
  <2>3. Len(tombs) = Len(FirstTombs)
    BY <2>1, <2>2
  <2> QED BY <2>3, PrizesAssumption
<1>6. pool = 0 /\ artifacts = {} /\ treasure = None /\ closed = FALSE
  BY DEF Init
<1>7. Bounded
  BY <1>1, <1>5, <1>6 DEF Bounded
<1> QED BY <1>2, <1>4, <1>6, <1>7 DEF Rich

\* Rows of members are never deleted.
LEMMA FoundedStays ==
  ASSUME TombInv, Kept, Standing, [Next]_vars
  PROVE  \A who : Payable(who) => Payable(who)'
<1>0. row \in [Clans -> [Players -> Nat \cup {None}]] /\ member \in [Players -> Clans \cup {None}]
  BY DEF Kept, TombInv, Typed
<1>1. ASSUME \A d \in Clans, q \in Players : row[d][q] # None => row'[d][q] # None
      PROVE  \A who : Payable(who) => Payable(who)'
  BY <1>1 DEF Payable, Founded, Rows
<1>2. ASSUME UNCHANGED row PROVE \A who : Payable(who) => Payable(who)'
  BY <1>1, <1>2
<1>3. ASSUME NEW p \in Players, NEW c \in Clans, CreateClan(p, c) \/ RespondJoin(p, c)
      PROVE  \A who : Payable(who) => Payable(who)'
  <2>1. PICK brought \in Brought : row' = [row EXCEPT ![c][p] = brought]
    BY <1>3 DEF CreateClan, RespondJoin
  <2>2. brought # None
    BY LevelsAssumption, PrizesAssumption
  <2> QED BY <1>0, <1>1, <2>1, <2>2
<1>4. ASSUME NEW p \in Players, ClanDeposit(p) PROVE \A who : Payable(who) => Payable(who)'
  <2> DEFINE c == member[p]
             n == row[c][p]
  <2>1. c # None /\ row' = [row EXCEPT ![c][p] = n + 1]
    BY <1>4 DEF ClanDeposit
  <2>2. c \in Clans
    BY <1>0, <2>1
  <2>3. n # None
    BY <2>1 DEF Standing, Rows
  <2>4. n + 1 # None
    <3>1. n \in Nat
      BY <1>0, <2>2, <2>3
    <3> HIDE DEF n
    <3> QED BY <3>1, LevelsAssumption
  <2> HIDE DEF n, c
  <2> QED BY <1>0, <1>1, <2>1, <2>2, <2>4
<1>5. CASE \/ \E p \in Players : JoinSeason(p) \/ QuitSeason(p)
           \/ \E c \in Clans : SetClanCamp(c)
           \/ \E p \in Players, art \in artifacts : Trade(art, p)
           \/ \E a \in Actors : \/ StartMove(a) \/ CancelMove(a) \/ AdvanceOwn(a) \/ AdvanceBlocked(a)
                                \/ AdvanceLose(a) \/ AdvanceWin(a)
           \/ BuyCoins \/ CloseSeason \/ UNCHANGED vars
  <2>1. UNCHANGED row
    BY <1>5 DEF JoinSeason, QuitSeason, SetClanCamp, Trade, StartMove, CancelMove, AdvanceOwn,
                AdvanceBlocked, AdvanceLose, AdvanceWin, BuyCoins, CloseSeason, vars, people
  <2> QED BY <1>2, <2>1
<1> QED BY <1>3, <1>4, <1>5 DEF Next

\* Whoever is on the way, or has land, or would inherit from either, can be paid.
LEMMA MoversPayable ==
  ASSUME Typed, Standing, NEW a \in Actors, way[a] # None
  PROVE  Payable(a) /\ Payable(Heir(a))
<1> USE PlacesAssumption DEF Actors
<1>1. \A p \in Players : Payable(p)
  BY DEF Payable
<1>2. \A p \in Players : member[p] # None => member[p] \in Clans /\ Payable(member[p])
  BY DEF Typed, Standing, Payable, Founded
<1>3. CASE a \in Clans
  <2>1. Payable(a)
    BY <1>3 DEF Standing, Payable
  <2>2. Heir(a) = a
    BY <1>3 DEF Heir, GroupClan
  <2> QED BY <2>1, <2>2
<1>4. CASE a \in Players
  <2>1. Heir(a) = IF member[a] = None THEN a ELSE member[a]
    BY <1>4 DEF Heir, GroupClan
  <2> QED BY <1>1, <1>2, <1>4, <2>1
<1> QED BY <1>3, <1>4

LEMMA OwnersPayable ==
  ASSUME Typed, Standing, NEW t \in Tiles, owner[t] # None
  PROVE  Payable(owner[t])
BY DEF Typed, Standing, Payable, Actors

\* As many artifacts as tombs, at most.
LEMMA FewArtifacts ==
  ASSUME TombInv, NEW S \in SUBSET artifacts
  PROVE  IsFiniteSet(S) /\ Cardinality(S) \in 0..Len(tombs)
<1> DEFINE f == [art \in S |-> art.tomb]
           T == 1..Len(tombs)
<1>1. Len(tombs) \in Nat /\ \A art \in S : art.tomb \in T
  BY RowsTyped DEF TombInv
<1>2. IsFiniteSet(T) /\ Cardinality(T) = Len(tombs)
  <2>1. \A n \in Nat : IsFiniteSet(1..n) /\ Cardinality(1..n) = n
    <3>1. ASSUME NEW n \in Nat PROVE IsFiniteSet(1..n) /\ Cardinality(1..n) = IF 1 > n THEN 0 ELSE n - 1 + 1
      BY FS_Interval
    <3> QED BY <3>1
  <2> QED BY <1>1, <2>1
<1>3. \A art, other \in S : art.tomb = other.tomb => art = other
  BY DEF TombInv, OneEach
<1>4. f \in Injection(S, T)
  BY <1>1, <1>3 DEF Injection, IsInjective
<1>5. IsFiniteSet(S) /\ Cardinality(S) <= Cardinality(T)
  <2> HIDE DEF f, T
  <2> QED BY <1>2, <1>4, FS_Injection
<1> QED BY <1>1, <1>2, <1>5, FS_CardinalityType

\* A step that leaves tombs, pool and prizes alone and artifacts with owners
\* that can be paid.
LEMMA RichStays ==
  ASSUME Rich, \A who : Payable(who) => Payable(who)',
         UNCHANGED <<tombs, pool, treasure, closed, bank>>,
         \A art \in artifacts' : Payable(art.owner)
  PROVE  Rich'
<1>1. Bounded'
  BY DEF Rich, Bounded
<1>2. \A art \in artifacts' : Payable(art.owner)'
  OBVIOUS
<1>3. bank' \in Banks /\ Full(bank') /\ pool' \in Nat /\ closed' \in BOOLEAN
  BY DEF Rich
<1> QED BY <1>1, <1>2, <1>3 DEF Rich, Full

LEMMA WinRich ==
  ASSUME TombInv, Kept, Standing, Rich, \A who : Payable(who) => Payable(who)',
         NEW a \in Actors, AdvanceWin(a)
  PROVE  Rich'
<1> DEFINE t == Head(way[a])
           land2 == [owner EXCEPT ![t] = a]
           value == TreasureValue(pool, Share)
           part == ParticipationValue(pool, Share)
<1>1. way[a] # None /\ t \in Tiles
  BY WayTyped DEF AdvanceWin
<1>2. Payable(a) /\ Payable(Heir(a))
  BY <1>1, MoversPayable DEF TombInv
<1>3. /\ UNCHANGED <<row, pool, closed>>
      /\ \/ UNCHANGED <<tombs, artifacts>>
         \/ \E i \in TombsAt(t) : \E next \in NextTombs(i, land2) : CaptureTomb(a, i, next)
      /\ \/ UNCHANGED <<treasure, bank>>
         \/ treasure = None /\ treasure' = a /\ bank' \in Crowned(a, land2)
  BY DEF AdvanceWin, people, Taken
<1>4. \A art \in artifacts' : Payable(art.owner)'
  <2>1. \A art \in artifacts : Payable(art.owner)
    BY DEF Rich
  <2>2. CASE UNCHANGED artifacts
    BY <2>1, <2>2
  <2>3. ASSUME NEW i, NEW next, CaptureTomb(a, i, next) PROVE \A art \in artifacts' : Payable(art.owner)'
    <3>1. artifacts' = artifacts \cup {[tomb |-> i, owner |-> Heir(a), sold |-> FALSE]}
      BY <2>3 DEF CaptureTomb
    <3> QED BY <1>2, <2>1, <3>1
  <2> QED BY <1>3, <2>2, <2>3
<1>5. Len(tombs') <= TombsTotal
  <2>1. Len(tombs) <= TombsTotal /\ Len(tombs) \in Nat /\ TombsTotal \in Nat
    BY RowsTyped, PrizesAssumption DEF Rich, Bounded, TombInv
  <2>2. CASE UNCHANGED tombs
    BY <2>1, <2>2
  <2>3. ASSUME NEW i \in TombsAt(t), NEW next \in NextTombs(i, land2), CaptureTomb(a, i, next)
        PROVE  Len(tombs') <= TombsTotal
    <3> DEFINE taken == [tombs EXCEPT ![i].captured = TRUE]
    <3>1. tombs' = IF next = None THEN taken ELSE Append(taken, [at |-> next, captured |-> FALSE])
      BY <2>3 DEF CaptureTomb
    <3>2. next # None => Len(tombs) < TombsTotal
      <4>1. Len(tombs) >= TombsTotal => next = None
        BY DEF NextTombs
      <4> QED BY <2>1, <4>1
    <3>3. taken \in Seq({taken[j] : j \in 1..Len(tombs)}) /\ Len(taken) = Len(tombs)
      <4>1. DOMAIN taken = 1..Len(tombs)
        BY RowsTyped DEF TombInv
      <4>2. taken = [j \in 1..Len(tombs) |-> taken[j]]
        BY <4>1
      <4> HIDE DEF taken
      <4> QED BY <2>1, <4>2
    <3> DEFINE V == {taken[j] : j \in 1..Len(tombs)} \cup {[at |-> next, captured |-> FALSE]}
    <3>4. taken \in Seq(V) /\ [at |-> next, captured |-> FALSE] \in V
      <4>1. {taken[j] : j \in 1..Len(tombs)} \subseteq V
        OBVIOUS
      <4> HIDE DEF taken
      <4> QED BY <3>3, <4>1
    <3> HIDE DEF taken, V
    <3>5. CASE next = None
      BY <2>1, <3>1, <3>3, <3>5
    <3>6. CASE next # None
      BY <2>1, <3>1, <3>2, <3>3, <3>4, <3>6
    <3> QED BY <3>5, <3>6
  <2> QED BY <1>3, <2>2, <2>3
<1>6. value \in Nat /\ part \in Nat
  BY ValuesTyped DEF Rich
<1>7. CASE UNCHANGED <<treasure, bank>>
  <2>1. Bounded'
    BY <1>3, <1>5, <1>7 DEF Rich, Bounded
  <2>2. bank' \in Banks /\ Full(bank') /\ pool' \in Nat /\ closed' \in BOOLEAN
    BY <1>3, <1>7 DEF Rich
  <2> QED BY <1>4, <2>1, <2>2 DEF Rich, Full
<1>8. CASE treasure = None /\ treasure' = a /\ bank' \in Crowned(a, land2)
  <2> DEFINE b == Pay(bank, a, value)
  <2>1. Weighed /\ bank \in Banks /\ Full(bank) /\ bank.announced = 0 /\ closed = FALSE
    BY <1>8 DEF Kept, Weighed, Rich, Bounded
  <2>2. b \in Banks /\ Full(b) /\ b.announced = value
    <3>1. b \in Banks /\ Full(b) /\ b.announced = 0 + value
      <4> HIDE DEF value
      <4> QED BY <1>2, <1>6, <2>1, PayFully
    <3> HIDE DEF b, value
    <3> QED BY <1>6, <3>1
  <2>3. ASSUME NEW s \in Tiles, land2[s] # None PROVE Payable(land2[s])
    <3>1. land2[s] = IF s = t THEN a ELSE owner[s]
      BY <1>1 DEF TombInv, Typed
    <3> HIDE DEF land2
    <3> QED BY <1>2, <2>3, <3>1, OwnersPayable DEF TombInv
  <2>4. bank' = b \/ \E s \in Tiles : land2[s] # None /\ bank' = Pay(b, land2[s], part)
    BY <1>8 DEF Crowned
  <2>5. bank' \in Banks /\ Full(bank') /\ bank'.announced <= value + part
    <3>1. CASE bank' = b
      <4> HIDE DEF b, value, part
      <4> QED BY <1>6, <2>2, <3>1
    <3>2. ASSUME NEW s \in Tiles, land2[s] # None, bank' = Pay(b, land2[s], part)
          PROVE  bank' \in Banks /\ Full(bank') /\ bank'.announced <= value + part
      <4>1. Payable(land2[s])
        BY <2>3, <3>2
      <4> HIDE DEF b, value, part, land2
      <4>2. bank' \in Banks /\ Full(bank') /\ bank'.announced = b.announced + part
        BY <1>6, <2>1, <2>2, <3>2, <4>1, PayFully
      <4> QED BY <1>6, <2>2, <4>2
    <3> QED BY <2>4, <3>1, <3>2
  <2>6. treasure' # None /\ closed' = FALSE /\ pool' = pool /\ pool \in Nat
    BY <1>3, <1>8, <2>1, PlacesAssumption DEF Actors, Rich
  <2>7. Bounded'
    BY <1>5, <2>5, <2>6 DEF Bounded
  <2> QED BY <1>4, <2>5, <2>6, <2>7 DEF Rich, Full
<1> QED BY <1>3, <1>7, <1>8

LEMMA CloseRich ==
  ASSUME TombInv, Kept, Rich, \A who : Payable(who) => Payable(who)', CloseSeason
  PROVE  Rich'
<1> DEFINE S == {art \in artifacts : ~art.sold}
           value == ArtifactValue(pool, Share)
<1>1. /\ treasure # None /\ closed = FALSE /\ closed' = TRUE
      /\ UNCHANGED <<row, tombs, pool, treasure>>
      /\ artifacts' = {[art EXCEPT !.sold = TRUE] : art \in artifacts}
  BY DEF CloseSeason, people, Rich
<1>2. bank' = Sold(S, bank, value)
  BY DEF CloseSeason, Sold
<1>3. IsFiniteSet(S) /\ Cardinality(S) \in 0..Len(tombs)
  BY FewArtifacts
<1>4. Len(tombs) \in Nat /\ TombsTotal \in Nat /\ Len(tombs) <= TombsTotal
  BY RowsTyped, PrizesAssumption DEF TombInv, Rich, Bounded
<1>5. /\ bank \in Banks /\ Full(bank) /\ Weighed /\ pool \in Nat
      /\ \A art \in S : Payable(art.owner)
  BY DEF Rich, Kept, Weighed
<1>6. /\ value \in Nat /\ TreasureValue(pool, Share) \in Nat
      /\ ParticipationValue(pool, Share) \in Nat /\ Share.floor \in Nat
  BY <1>5, ValuesTyped, PrizesAssumption
<1>7. bank' \in Banks /\ Full(bank') /\ bank'.announced = bank.announced + value * Cardinality(S)
  <2> HIDE DEF S, value
  <2> QED BY <1>2, <1>3, <1>5, <1>6, SoldFully
<1>8. bank.announced <= TreasureValue(pool, Share) + ParticipationValue(pool, Share)
  BY <1>1 DEF Rich, Bounded
<1>9. bank'.announced <= pool + Share.floor
  <2> DEFINE k == Cardinality(S)
  <2>1. k \in 0..TombsTotal
    BY <1>3, <1>4
  <2>2. TreasureValue(pool, Share) + ParticipationValue(pool, Share) + value * k <= pool + Share.floor
    <3> HIDE DEF k
    <3> QED BY <1>5, <2>1, AllWithinPool
  <2>3. value * k \in Int /\ bank.announced \in Int
    <3> HIDE DEF k, value, S
    <3> QED BY <1>5, <1>6, <2>1, BankParts
  <2>4. bank'.announced = bank.announced + value * k
    BY <1>7
  <2> HIDE DEF k, value, S
  <2> QED BY <1>5, <1>6, <1>8, <2>2, <2>3, <2>4
<1>10. \A art \in artifacts' : Payable(art.owner)'
  <2>1. \A art \in artifacts : [art EXCEPT !.sold = TRUE].owner = art.owner
    BY DEF TombInv, Typed, Artifacts
  <2>2. \A art \in artifacts : Payable(art.owner)'
    BY DEF Rich
  <2> HIDE DEF S, value
  <2> QED BY <1>1, <2>1, <2>2
<1>11. Bounded'
  BY <1>1, <1>4, <1>9 DEF Bounded
<1> HIDE DEF S, value
<1> QED BY <1>1, <1>5, <1>7, <1>10, <1>11 DEF Rich, Full

LEMMA RichStep == TombInv /\ Kept /\ Standing /\ Rich /\ [Next]_vars => Rich'
<1> SUFFICES ASSUME TombInv, Kept, Standing, Rich, [Next]_vars PROVE Rich'
  OBVIOUS
<1>0. \A who : Payable(who) => Payable(who)'
  BY FoundedStays
<1>1. \A art \in artifacts : Payable(art.owner)
  BY DEF Rich
<1>2. CASE \/ \E p \in Players : JoinSeason(p) \/ ClanDeposit(p)
           \/ \E p \in Players, c \in Clans : CreateClan(p, c) \/ RespondJoin(p, c)
           \/ \E c \in Clans : SetClanCamp(c)
           \/ \E a \in Actors : StartMove(a) \/ CancelMove(a) \/ AdvanceOwn(a) \/ AdvanceBlocked(a) \/ AdvanceLose(a)
           \/ UNCHANGED vars
  <2>1. UNCHANGED <<tombs, artifacts, pool, treasure, closed, bank>>
    BY <1>2 DEF JoinSeason, ClanDeposit, CreateClan, RespondJoin, SetClanCamp, StartMove, CancelMove,
                AdvanceOwn, AdvanceBlocked, AdvanceLose, vars, season
  <2> QED BY <1>0, <1>1, <2>1, RichStays
<1>3. ASSUME NEW p \in Players, QuitSeason(p) PROVE Rich'
  <2>1. UNCHANGED <<tombs, pool, treasure, closed, bank>> /\ artifacts' \subseteq artifacts
    BY <1>3 DEF QuitSeason, season
  <2> QED BY <1>0, <1>1, <2>1, RichStays
<1>4. ASSUME NEW p \in Players, NEW art \in artifacts, Trade(art, p) PROVE Rich'
  <2>1. /\ UNCHANGED <<tombs, pool, treasure, closed, bank>>
        /\ artifacts' = (artifacts \ {art}) \cup {[art EXCEPT !.owner = p]}
    BY <1>4 DEF Trade, season
  <2>2. [art EXCEPT !.owner = p].owner = p
    BY DEF TombInv, Typed, Artifacts
  <2>3. Payable(p)
    BY PlacesAssumption DEF Payable, Actors
  <2>4. \A other \in artifacts' : Payable(other.owner)
    <3> DEFINE new == [art EXCEPT !.owner = p]
    <3>1. Payable(new.owner)
      BY <2>2, <2>3
    <3> HIDE DEF new
    <3> QED BY <1>1, <2>1, <3>1 DEF new
  <2> QED BY <1>0, <2>1, <2>4, RichStays
<1>5. CASE BuyCoins
  <2>1. PICK n \in Purchases : ~closed /\ pool' = pool + n
    BY <1>5 DEF BuyCoins
  <2>2. UNCHANGED <<row, tombs, artifacts, treasure, closed, bank>>
    BY <1>5 DEF BuyCoins, people
  <2>3. n \in Nat /\ pool \in Nat /\ pool' \in Nat /\ pool <= pool'
    BY <2>1, PrizesAssumption DEF Rich
  <2>4. /\ TreasureValue(pool, Share) <= TreasureValue(pool', Share)
        /\ ParticipationValue(pool, Share) <= ParticipationValue(pool', Share)
        /\ TreasureValue(pool, Share) \in Nat /\ ParticipationValue(pool, Share) \in Nat
        /\ TreasureValue(pool', Share) \in Nat /\ ParticipationValue(pool', Share) \in Nat
    BY <2>3, PrizesGrow, ValuesTyped
  <2>5. bank.announced \in Nat /\ bank \in Banks /\ Full(bank) /\ closed \in BOOLEAN
    BY BankParts DEF Rich
  <2>6. Bounded'
    <3>1. /\ Len(tombs') <= TombsTotal
          /\ treasure' = None => bank'.announced = 0 /\ ~closed'
          /\ ~closed'
      BY <2>1, <2>2 DEF Rich, Bounded
    <3>2. ASSUME treasure' # None
          PROVE  bank'.announced <= TreasureValue(pool', Share) + ParticipationValue(pool', Share)
      <4>1. bank.announced <= TreasureValue(pool, Share) + ParticipationValue(pool, Share)
        BY <2>1, <2>2, <3>2 DEF Rich, Bounded
      <4> QED BY <2>2, <2>4, <2>5, <4>1
    <3> QED BY <3>1, <3>2 DEF Bounded
  <2> QED BY <1>0, <1>1, <2>2, <2>3, <2>5, <2>6 DEF Rich, Full
<1>6. ASSUME NEW a \in Actors, AdvanceWin(a) PROVE Rich'
  BY <1>0, <1>6, WinRich
<1>7. CASE CloseSeason
  BY <1>0, <1>7, CloseRich
<1> QED BY <1>2, <1>3, <1>4, <1>5, <1>6, <1>7 DEF Next

\* What holds of tombs, ways and prizes in every state.
LEMMA RichAlways == Spec => [](TombInv /\ GateInv /\ Rich)
<1>1. Init => TombInv /\ GateInv /\ Rich
  BY InvInit, GateInit, RichInit DEF GateInv
<1>2. TombInv /\ GateInv /\ Rich /\ [Next]_vars => (TombInv /\ GateInv /\ Rich)'
  <2> SUFFICES ASSUME TombInv, GateInv, Rich, [Next]_vars PROVE (TombInv /\ GateInv /\ Rich)'
    OBVIOUS
  <2>1. TombInv'
    BY InvStep
  <2>2. GateInv'
    BY <2>1, GateStep
  <2>3. Rich'
    BY RichStep DEF GateInv
  <2> QED BY <2>1, <2>2, <2>3
<1> QED BY <1>1, <1>2, PTL DEF Spec

\* All prizes of a season stay within its pool, but for the minimum of the
\* treasure (captureTreasure and closeSeason of tick.ts), for any shares that
\* the settings admit, any purchases and any order of captures and trades.
THEOREM PoolCoversPrizes == Spec => []PrizesWithinPool
<1>1. Rich => PrizesWithinPool
  <2> SUFFICES ASSUME Rich PROVE bank.announced <= pool + Share.floor
    BY DEF PrizesWithinPool
  <2>1. bank.announced \in Nat /\ pool \in Nat /\ closed \in BOOLEAN /\ Share.floor \in Nat
    BY BankParts, PrizesAssumption DEF Rich
  <2>2. CASE closed
    BY <2>2 DEF Rich, Bounded
  <2>3. CASE treasure = None
    BY <2>1, <2>3 DEF Rich, Bounded
  <2>4. CASE treasure # None /\ ~closed
    <3>1. 0 \in 0..TombsTotal
      BY PrizesAssumption
    <3>2. TreasureValue(pool, Share) + ParticipationValue(pool, Share) + ArtifactValue(pool, Share) * 0
            <= pool + Share.floor
      BY <2>1, <3>1, AllWithinPool
    <3>3. /\ TreasureValue(pool, Share) \in Nat /\ ParticipationValue(pool, Share) \in Nat
          /\ ArtifactValue(pool, Share) \in Nat
      BY <2>1, ValuesTyped
    <3>4. bank.announced <= TreasureValue(pool, Share) + ParticipationValue(pool, Share)
      BY <2>4 DEF Rich, Bounded
    <3> QED BY <2>1, <3>2, <3>3, <3>4
  <2> QED BY <2>2, <2>3, <2>4
<1> QED BY <1>1, RichAlways, PTL

\* What is announced is in the wallets, but for less than one for each member a
\* clan shares with, and prizes of clans nobody has given anything to (pay of
\* tick.ts, clanShares of actions.ts).
THEOREM PrizesReachWallets == Spec => []PaidInFull
<1>1. Rich => PaidInFull
  BY DEF Rich, Full, PaidInFull
<1> QED BY <1>1, RichAlways, PTL

=============================================================================
