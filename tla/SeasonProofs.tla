---------------------------- MODULE SeasonProofs ----------------------------
(***************************************************************************)
(* Proofs about Season and Panel: types, the terrain of a season, what the *)
(* lock of the panel guarantees for any number of players, settings and    *)
(* restarts, and what a save on the admin's page stores.                   *)
(*                                                                         *)
(* Then about the map a season is played on, Path and Valley: what a       *)
(* search returns is a way, and a cheapest one where the estimate is not   *)
(* too high and the search is not given up; valleys stay in their blocks.  *)
(***************************************************************************)
EXTENDS Panel, Valley, SumProofs, SequenceTheorems

Inv == TypeOK /\ TerrainOfSeason

\* A fresh row is a row, and its snapshot is the one it was made from.
LEMMA FreshRow ==
  ASSUME NEW n \in 1..MaxSeason, NEW o \in Settings, NEW a \in BOOLEAN, NEW t \in BOOLEAN
  PROVE  /\ SeasonRow(n, o, a, t) \in Rows
         /\ SeasonRow(n, o, a, t).snapshot = o
         /\ SeasonRow(n, o, a, t).number = n
BY DEF SeasonRow, Rows

LEMMA InvInit == Init => Inv
<1> SUFFICES ASSUME Init PROVE Inv OBVIOUS
<1>1. 1 \in 1..MaxSeason /\ 0 \in 0..MaxSeason /\ 0 \in 0..MaxCrashes
  BY BoundsAssumption
<1>2. season \in Rows /\ season.snapshot = Default
  <2>1. season = SeasonRow(1, Default, FALSE, TRUE) BY DEF Init
  <2> QED BY <1>1, <2>1, FreshRow, SettingsAssumption
<1>3. member \in [Players -> [season : 0..MaxSeason, active : BOOLEAN, spent : BOOLEAN]]
  BY <1>1 DEF Init, Absent
<1>4. TypeOK
  BY <1>1, <1>2, <1>3, SettingsAssumption DEF Init, TypeOK
<1> QED BY <1>2, <1>4 DEF Init, Inv, TerrainOfSeason

LEMMA InvStep == Inv /\ [Next]_vars => Inv'
<1> SUFFICES ASSUME Inv, [Next]_vars PROVE Inv' OBVIOUS
<1> USE DEF Inv
<1> USE BoundsAssumption
<1>1. CASE UNCHANGED vars BY <1>1 DEF vars, TypeOK, TerrainOfSeason
<1>2. ASSUME NEW o \in Settings, SaveSettings(o) PROVE Inv'
  BY <1>2 DEF SaveSettings, TypeOK, TerrainOfSeason
<1>3. CASE ShowStatus BY <1>3 DEF ShowStatus, TypeOK, TerrainOfSeason
<1>4. CASE StartSeason
  <2>1. season.number + 1 \in 1..MaxSeason BY <1>4 DEF StartSeason, TypeOK, Rows
  <2>2. season' \in Rows /\ season'.snapshot = overrides
    BY <1>4, <2>1, FreshRow, ZenonT(40) DEF StartSeason, TypeOK
  <2> QED BY <1>4, <2>2 DEF StartSeason, TypeOK, TerrainOfSeason
<1>5. CASE TornStartSeason
  <2>1. season.number + 1 \in 1..MaxSeason BY <1>5 DEF TornStartSeason, TypeOK, Rows
  <2>2. season' \in Rows
    BY <1>5, <2>1, FreshRow DEF TornStartSeason, TypeOK
  <2>3. crashes' \in 0..MaxCrashes BY <1>5 DEF TornStartSeason, Dies, TypeOK
  <2>4. up' = FALSE /\ land' = {} /\ UNCHANGED <<overrides, settings, gen, member>>
    BY <1>5 DEF TornStartSeason, Dies
  <2> QED BY <2>2, <2>3, <2>4 DEF TypeOK, TerrainOfSeason
<1>6. ASSUME NEW p \in Players, JoinSeason(p) PROVE Inv'
  <2>1. season.number \in 0..MaxSeason BY DEF TypeOK, Rows
  <2>2. member' \in [Players -> [season : 0..MaxSeason, active : BOOLEAN, spent : BOOLEAN]]
    BY <1>6, <2>1 DEF JoinSeason, TypeOK
  <2> QED BY <1>6, <2>2 DEF JoinSeason, TypeOK, TerrainOfSeason
<1>7. ASSUME NEW p \in Players, QuitSeason(p) PROVE Inv'
  <2>1. member' \in [Players -> [season : 0..MaxSeason, active : BOOLEAN, spent : BOOLEAN]]
    BY <1>7 DEF QuitSeason, TypeOK
  <2> QED BY <1>7, <2>1 DEF QuitSeason, TypeOK, TerrainOfSeason
<1>8. ASSUME NEW p \in Players, BuyCoins(p) PROVE Inv'
  <2>1. season' \in Rows /\ season'.snapshot = season.snapshot
    BY <1>8 DEF BuyCoins, TypeOK, Rows
  <2> QED BY <1>8, <2>1 DEF BuyCoins, TypeOK, TerrainOfSeason
<1>9. ASSUME NEW p \in Players, SpendCoins(p) PROVE Inv'
  BY <1>9 DEF SpendCoins, TypeOK, TerrainOfSeason
<1>10. ASSUME NEW p \in Players, TakeTile(p) PROVE Inv'
  <2>1. PICK owner \in {p, Clan}, treasure \in BOOLEAN :
          land' = land \cup {owner} /\ season' = [season EXCEPT !.ending = @ \/ treasure]
    BY <1>10 DEF TakeTile
  <2>2. season.ending \in BOOLEAN BY DEF TypeOK, Rows
  <2>3. (season.ending \/ treasure) \in BOOLEAN BY <2>2
  <2>4. season' \in Rows /\ season'.snapshot = season.snapshot
    BY <2>1, <2>3 DEF TypeOK, Rows
  <2> QED BY <1>10, <2>1, <2>4 DEF TakeTile, TypeOK, TerrainOfSeason
<1>11. CASE CloseSeason
  <2>1. season' \in Rows /\ season'.snapshot = season.snapshot
    BY <1>11 DEF CloseSeason, TypeOK, Rows
  <2> QED BY <1>11, <2>1 DEF CloseSeason, TypeOK, TerrainOfSeason
<1>12. CASE Crash
  <2>1. crashes' \in 0..MaxCrashes BY <1>12 DEF Crash, Dies, TypeOK
  <2>2. up' = FALSE /\ UNCHANGED <<overrides, settings, gen, season, member, land>>
    BY <1>12 DEF Crash, Dies
  <2> QED BY <2>1, <2>2 DEF TypeOK, TerrainOfSeason
<1>13. CASE Boot
  <2>1. season.snapshot \in Settings BY DEF TypeOK, Rows
  <2> QED BY <1>13, <2>1 DEF Boot, TypeOK, TerrainOfSeason
<1> QED
  BY <1>1, <1>2, <1>3, <1>4, <1>5, <1>6, <1>7, <1>8, <1>9, <1>10, <1>11, <1>12, <1>13 DEF Next

\* Rows, settings and traces of play keep their types (world.ts, admin.ts).
THEOREM TypeCorrect == Spec => []TypeOK
<1>1. Inv => TypeOK BY DEF Inv
<1> QED BY <1>1, InvInit, InvStep, PTL DEF Spec

\* The terrain is the one of the season's snapshot, whatever the admin saves or
\* looks at and however often the server restarts (useSeason of world.ts).
THEOREM TerrainFixed == Spec => []TerrainOfSeason
<1>1. Inv => TerrainOfSeason BY DEF Inv
<1> QED BY <1>1, InvInit, InvStep, PTL DEF Spec

-----------------------------------------------------------------------------
\* What a step does to the marks that lock the panel for good.
LEMMA MarksStay ==
  ASSUME TypeOK, [Next]_vars, season'.number = season.number
  PROVE  /\ season.byAdmin => season'.byAdmin
         /\ season.funded => season'.funded
<1>1. CASE UNCHANGED vars BY <1>1 DEF vars
<1>2. ASSUME NEW p \in Players, BuyCoins(p) \/ TakeTile(p)
      PROVE  season'.byAdmin = season.byAdmin /\ (season.funded => season'.funded)
  BY <1>2 DEF BuyCoins, TakeTile, TypeOK, Rows
<1>3. CASE CloseSeason BY <1>3 DEF CloseSeason, TypeOK, Rows
<1>4. CASE StartSeason \/ TornStartSeason
  <2>1. season'.number = season.number + 1
    BY <1>4 DEF StartSeason, TornStartSeason, SeasonRow
  <2> QED BY <2>1 DEF TypeOK, Rows
<1> QED
  BY <1>1, <1>2, <1>3, <1>4
  DEF Next, SaveSettings, ShowStatus, JoinSeason, QuitSeason, SpendCoins, Crash, Dies, Boot

\* Only an unlocked panel puts a season aside for another.
LEMMA ReplacedUnlocked ==
  ASSUME TypeOK, [Next]_vars, season'.number # season.number
  PROVE  ~Locked
<1>1. StartSeason \/ TornStartSeason => ~Locked BY DEF StartSeason, TornStartSeason
<1>2. ASSUME NEW p \in Players, BuyCoins(p) \/ TakeTile(p) PROVE season'.number = season.number
  BY <1>2 DEF BuyCoins, TakeTile, TypeOK, Rows
<1>3. CloseSeason => season'.number = season.number BY DEF CloseSeason, TypeOK, Rows
<1> QED
  BY <1>1, <1>2, <1>3
  DEF Next, vars, SaveSettings, ShowStatus, JoinSeason, QuitSeason, SpendCoins, Crash, Dies, Boot

\* A season the admin started or that has money in its pool is closed before
\* another takes its place (season/start of admin.ts).
THEOREM SeasonsRunToTheirEnd == Spec => NeverCutShort
<1>1. ASSUME TypeOK, [Next]_vars
      PROVE  [season'.number # season.number /\ (season.byAdmin \/ season.funded) => season.closed]_vars
  BY <1>1, ReplacedUnlocked DEF Locked
<1> QED BY <1>1, TypeCorrect, PTL DEF Spec, NeverCutShort

\* Only the close of such a season opens the panel again (lockState of
\* admin.ts, and lines 264 and 271 of the rule book).
THEOREM LockIsLasting == Spec => LockLasts
<1>1. ASSUME TypeOK, [Next]_vars
      PROVE  [(season.byAdmin \/ season.funded) /\ Locked => Locked' \/ season'.closed]_vars
  <2>1. SUFFICES ASSUME season.byAdmin \/ season.funded, Locked, ~season'.closed PROVE Locked'
    OBVIOUS
  <2>2. season'.number = season.number BY <1>1, <2>1, ReplacedUnlocked
  <2>3. season'.byAdmin \/ season'.funded BY <1>1, <2>1, <2>2, MarksStay
  <2> QED BY <2>1, <2>3 DEF Locked
<1> QED BY <1>1, TypeCorrect, PTL DEF Spec, LockLasts

-----------------------------------------------------------------------------
(* The admin's page.                                                       *)

Answers == [overrides : Settings, locked : BOOLEAN]
Drafts == [map : Maps, numbers : Numbers]

\* What the browser has been told and shows; the numbers typed may be anything.
PageOK ==
  /\ status \in Answers /\ draft \in Drafts
  /\ screen \in [map : Maps, numbers : [Fields -> Values \cup {Bad}], editable : BOOLEAN]
  /\ poll # None => poll \in [answer : Answers, before : BOOLEAN]

PanelInv == Inv /\ PageOK

LEMMA SettingsAreDrafts == Settings \subseteq Drafts
BY PanelAssumption DEF Drafts, Maps, Numbers

LEMMA AnswerTyped == TypeOK => Answer \in Answers /\ Locked \in BOOLEAN
BY DEF TypeOK, Answer, Answers, Locked

LEMMA RenderTyped ==
  ASSUME NEW d \in Drafts, NEW l \in BOOLEAN
  PROVE  Rendered(d, l) \in [map : Maps, numbers : [Fields -> Values \cup {Bad}], editable : BOOLEAN]
<1>1. Numbers \subseteq [Fields -> Values \cup {Bad}] BY DEF Numbers
<1> QED BY <1>1 DEF Rendered, Drafts

\* What is collected from a form is a draft again.
LEMMA CollectTyped ==
  ASSUME NEW d \in Drafts, NEW n \in [Fields -> Values \cup {Bad}]
  PROVE  /\ Collect(d, n) \in Drafts
         /\ Collect(d, n).map = d.map
         /\ n \in Numbers => Collect(d, n).numbers = n
<1> DEFINE m == [f \in Fields |-> IF n[f] = Bad THEN d.numbers[f] ELSE n[f]]
<1>1. d.map \in Maps /\ d.numbers \in Numbers /\ d = [map |-> d.map, numbers |-> d.numbers]
  BY DEF Drafts
<1>2. m \in Numbers BY <1>1 DEF Numbers
<1>3. Collect(d, n) = [d EXCEPT !.numbers = m] BY DEF Collect
<1>4. n \in Numbers => m = n BY PanelAssumption DEF Numbers
<1> HIDE DEF m
<1>5. Collect(d, n) = [map |-> d.map, numbers |-> m] BY <1>1, <1>3
<1> QED BY <1>1, <1>2, <1>4, <1>5 DEF Drafts

LEMMA PanelInvInit == PanelInit => PanelInv
<1> SUFFICES ASSUME PanelInit PROVE PanelInv OBVIOUS
<1>1. Inv BY InvInit DEF PanelInit
<1>2. overrides \in Drafts /\ Answer \in Answers /\ Locked \in BOOLEAN
  BY <1>1, SettingsAreDrafts, AnswerTyped DEF Inv, TypeOK
<1>3. Rendered(overrides, Locked) \in [map : Maps, numbers : [Fields -> Values \cup {Bad}], editable : BOOLEAN]
  BY <1>2, RenderTyped
<1> QED BY <1>1, <1>2, <1>3 DEF PanelInit, PanelInv, PageOK

\* Whatever the page does to the seasons, a step of Season does.
LEMMA PageIsSeason ==
  ASSUME TypeOK, Page \/ World \/ UNCHANGED panelVars PROVE [Next]_vars
BY SettingsAssumption
DEF Page, World, panelVars, OpenTab, ChooseMap, ResetField, TypeNumber, ResetAll, SaveMap,
    SaveNumbers, ClearSaved, ClickStart, Poll, PollAnswer, PollLost, Save, Refused, Next

LEMMA ReloadTyped ==
  ASSUME PageOK, Inv', Reload \/ Refused, UNCHANGED poll PROVE PageOK'
<1>1. CASE Reload
  <2>1. overrides' \in Settings /\ Answer' \in Answers /\ Locked' \in BOOLEAN
    BY DEF Inv, TypeOK, Answer, Answers, Locked
  <2>2. overrides' \in Drafts BY <2>1, SettingsAreDrafts
  <2>3. Rendered(overrides', Locked') \in [map : Maps, numbers : [Fields -> Values \cup {Bad}], editable : BOOLEAN]
    BY <2>1, <2>2, RenderTyped
  <2> QED BY <1>1, <2>1, <2>2, <2>3 DEF Reload, Render, PageOK
<1>2. CASE Refused
  <2>1. status.locked \in BOOLEAN /\ draft \in Drafts BY DEF PageOK, Answers
  <2>2. Rendered(draft, status.locked) \in [map : Maps, numbers : [Fields -> Values \cup {Bad}], editable : BOOLEAN]
    BY <2>1, RenderTyped
  <2> QED BY <1>2, <2>1, <2>2 DEF Refused, Render, PageOK
<1> QED BY <1>1, <1>2

LEMMA EditTyped ==
  ASSUME PageOK, draft' \in Drafts, Render(draft', status.locked), UNCHANGED <<status, poll>>
  PROVE  PageOK'
<1>1. status.locked \in BOOLEAN BY DEF PageOK, Answers
<1>2. Rendered(draft', status.locked) \in [map : Maps, numbers : [Fields -> Values \cup {Bad}], editable : BOOLEAN]
  BY <1>1, RenderTyped
<1> QED BY <1>2 DEF Render, PageOK

LEMMA PanelInvStep == PanelInv /\ [Page \/ World]_panelVars => PanelInv'
<1> SUFFICES ASSUME PanelInv, [Page \/ World]_panelVars PROVE PanelInv' OBVIOUS
<1>1. PageOK /\ Inv /\ TypeOK BY DEF PanelInv, Inv
<1>2. Inv' BY <1>1, PageIsSeason, InvStep
<1> SUFFICES PageOK' BY <1>2 DEF PanelInv
<1>3. /\ draft.map \in Maps /\ draft.numbers \in Numbers /\ draft \in Drafts
      /\ screen.numbers \in [Fields -> Values \cup {Bad}]
  BY <1>1 DEF PageOK, Drafts
<1>4. Default.numbers \in Numbers BY SettingsAssumption, SettingsAreDrafts DEF Drafts
<1>5. CASE UNCHANGED <<page, poll>>
  BY <1>1, <1>5 DEF page, PageOK
<1>6. CASE (Reload \/ Refused) /\ UNCHANGED poll BY <1>1, <1>2, <1>6, ReloadTyped
<1>7. ASSUME NEW m \in Maps, ChooseMap(m) PROVE PageOK'
  <2>1. draft' \in Drafts BY <1>3, <1>7 DEF ChooseMap, Drafts
  <2> QED BY <1>1, <1>7, <2>1, EditTyped DEF ChooseMap
<1>8. ASSUME NEW f \in Fields, ResetField(f) PROVE PageOK'
  <2>1. Default.numbers[f] \in Values BY <1>4 DEF Numbers
  <2>2. draft' \in Drafts BY <1>3, <1>8, <2>1 DEF ResetField, Drafts, Numbers
  <2> QED BY <1>1, <1>8, <2>2, EditTyped DEF ResetField
<1>9. ASSUME NEW f \in Fields, NEW v \in Values \cup {Bad}, TypeNumber(f, v) PROVE PageOK'
  <2>1. screen' = [screen EXCEPT !.numbers[f] = v] /\ draft' = Collect(draft, screen'.numbers)
    BY <1>9 DEF TypeNumber
  <2>2. screen' \in [map : Maps, numbers : [Fields -> Values \cup {Bad}], editable : BOOLEAN]
    BY <1>1, <2>1 DEF PageOK
  <2>3. screen'.numbers \in [Fields -> Values \cup {Bad}] BY <2>2
  <2>4. draft' \in Drafts BY <1>3, <2>1, <2>3, CollectTyped
  <2> QED BY <1>1, <1>9, <2>2, <2>4 DEF TypeNumber, PageOK
<1>10. CASE ResetAll
  <2>1. draft' \in Drafts BY <1>3, <1>4, <1>10 DEF ResetAll, Drafts
  <2> QED BY <1>1, <1>10, <2>1, EditTyped DEF ResetAll
<1>11. CASE SaveNumbers
  <2>1. CASE Reload BY <1>6, <1>11, <2>1 DEF SaveNumbers
  <2>2. CASE ~Reload
    <3>1. /\ draft' = Collect(draft, screen.numbers)
          /\ Render(draft', status.locked) /\ UNCHANGED <<status, poll>>
      BY <1>11, <2>2 DEF SaveNumbers
    <3>2. draft' \in Drafts BY <1>3, <3>1, CollectTyped
    <3> QED BY <1>1, <3>1, <3>2, EditTyped
  <2> QED BY <2>1, <2>2
<1>12. CASE Poll
  <2>1. Answer \in Answers /\ status.locked \in BOOLEAN
    BY <1>1, AnswerTyped DEF PageOK, Answers
  <2>2. poll' \in [answer : Answers, before : BOOLEAN] BY <1>12, <2>1 DEF Poll
  <2> QED BY <1>1, <1>12, <2>2 DEF Poll, PageOK, page
<1>13. CASE PollAnswer
  <2>1. poll.answer \in Answers /\ poll.answer.overrides \in Settings /\ poll.answer.locked \in BOOLEAN
    BY <1>1, <1>13 DEF PollAnswer, PageOK, Answers
  <2>2. draft' \in Drafts /\ status' \in Answers /\ poll' = None
    BY <1>13, <2>1, SettingsAreDrafts DEF PollAnswer
  <2>3. Rendered(draft', poll.answer.locked) \in [map : Maps, numbers : [Fields -> Values \cup {Bad}], editable : BOOLEAN]
    BY <2>1, <2>2, RenderTyped
  <2>4. screen' = Rendered(draft', poll.answer.locked) \/ screen' = screen
    BY <1>13 DEF PollAnswer, Render
  <2> QED BY <1>1, <2>2, <2>3, <2>4 DEF PageOK
<1>14. CASE PollLost BY <1>1, <1>14 DEF PollLost, PageOK, page
<1> QED
  BY <1>2, <1>5, <1>6, <1>7, <1>8, <1>9, <1>10, <1>11, <1>12, <1>13, <1>14
  DEF PanelInv, Page, World, panelVars, page, OpenTab, SaveMap, Save, ClearSaved, ClickStart

\* Saving the numbers stores those of the form, whatever the timer and other
\* browsers did to the draft and the settings since it was rendered, and they
\* are stored if, and only if, the panel is open and they go together
\* (collectDraft and the save of the numbers in admin.ts).
THEOREM SavedAsShown == PanelSpec => NumbersAsShown
<1>1. ASSUME PanelInv, SaveNumbers
      PROVE  overrides'.numbers =
               IF Open /\ \E o \in Settings : o.numbers = screen.numbers THEN screen.numbers
               ELSE overrides.numbers
  <2> DEFINE d == Collect(draft, screen.numbers)
  <2>1. draft \in Drafts /\ draft.map \in Maps /\ screen.numbers \in [Fields -> Values \cup {Bad}]
    BY <1>1 DEF PanelInv, PageOK, Drafts
  <2>2. d \in Drafts /\ d.map = draft.map /\ (screen.numbers \in Numbers => d.numbers = screen.numbers)
    BY <2>1, CollectTyped
  <2>3. \/ screen.numbers \in Numbers /\ d \in Settings /\ SaveSettings(d)
        \/ ~(screen.numbers \in Numbers /\ d \in Settings /\ Open) /\ UNCHANGED vars
    BY <1>1 DEF SaveNumbers
  <2> HIDE DEF d
  <2>4. CASE screen.numbers \in Numbers /\ d \in Settings /\ SaveSettings(d)
    BY <2>2, <2>4 DEF SaveSettings, Open
  <2>5. CASE ~(screen.numbers \in Numbers /\ d \in Settings /\ Open) /\ UNCHANGED vars
    <3>1. ASSUME Open, NEW o \in Settings, o.numbers = screen.numbers PROVE FALSE
      <4>1. o.numbers \in Numbers BY SettingsAreDrafts DEF Drafts
      <4>2. PICK r \in Settings : r.map = draft.map BY <2>1 DEF Maps
      <4>3. [o EXCEPT !.map = r.map] \in Settings BY PanelAssumption
      <4>4. o \in Drafts BY SettingsAreDrafts
      <4>5. d = [o EXCEPT !.map = r.map] BY <2>2, <3>1, <4>1, <4>2, <4>4 DEF Drafts
      <4> QED BY <2>5, <3>1, <4>1, <4>3, <4>5
    <3> QED BY <2>5, <3>1 DEF vars
  <2> QED BY <2>3, <2>4, <2>5
<1>2. PanelInv => [SaveNumbers => overrides'.numbers =
        IF Open /\ \E o \in Settings : o.numbers = screen.numbers THEN screen.numbers ELSE overrides.numbers]_panelVars
  BY <1>1
<1> QED BY <1>2, PanelInvInit, PanelInvStep, PTL DEF PanelSpec, NumbersAsShown

-----------------------------------------------------------------------------
(* Maps and searches.                                                      *)

\* Searches between tiles of the map.  A tile may cost nothing: the admin may
\* set the supplies of a terrain to 0.
Searches ==
  [start : Map, goal : Map, cost : UNION {[S -> Nat] : S \in SUBSET Map}, maxLen : Nat]

Searched == \A blocked \in SUBSET Map : Queries(blocked) \subseteq Searches

-----------------------------------------------------------------------------
(* The search.                                                             *)

\* Going back from tile to tile leaves every set of tiles but for the start's.
Acyclic ==
  \A S \in SUBSET (Map \ {query.start}) :
    S # {} /\ (\A t \in S : g[t] # Null) => \E t \in S : prev[t] \notin S

\* The best ways so far are chains of neighbours along which the cost never
\* falls, though it may have fallen at the tile before since.
Chains ==
  /\ g \in [Map -> Nat \cup {Null}] /\ prev \in [Map -> Map \cup {Null}]
  /\ g[query.start] = 0
  /\ \A t \in Map : g[t] # Null /\ t # query.start =>
       /\ prev[t] \in Map /\ t \in Neighbours[prev[t]] /\ t \in Passable
       /\ g[prev[t]] # Null /\ g[prev[t]] <= g[t]
  /\ Acyclic
  /\ \A e \in heap : e.at \in Map /\ g[e.at] # Null

\* What has been traced back: the end of a chain.
Traced ==
  /\ path \in Seq(Map) /\ path # <<>>
  /\ path[Len(path)] = query.goal
  /\ \A i \in 1..Len(path) : path[i] # query.start /\ g[path[i]] # Null
  /\ \A i \in 1..Len(path) - 1 : path[i + 1] \in Neighbours[path[i]]
  /\ \A i \in 1..Len(path) - 1 : prev[path[i + 1]] = path[i]
  /\ \A i, j \in 1..Len(path) : i < j => path[i] # path[j]

Sound ==
  /\ phase \in {"search", "trace", "found", "failed"} => query \in Searches /\ Chains
  /\ phase = "trace" => Traced
  /\ phase = "found" => \/ query.start = query.goal /\ path = <<>>
                        \/ Traced /\ prev[path[1]] = query.start

LEMMA SearchParts ==
  ASSUME query \in Searches
  PROVE  /\ query.start \in Map /\ query.goal \in Map
         /\ Passable \subseteq Map
         /\ \A t \in Passable : query.cost[t] \in Nat
BY DEF Searches, Passable

LEMMA SoundInit == MapInit => Sound
BY DEF MapInit, Idle, Sound

LEMMA CallSound ==
  ASSUME NEW q \in Searches, Call(q) PROVE Sound'
<1>1. query' = q /\ phase' = "search" /\ query' \in Searches BY DEF Call
<1>2. q.start \in Map /\ q.goal \in Map BY DEF Searches
<1>3. Null \notin Nat BY MapAssumption
<1>4. /\ g' = [t \in Map |-> IF t = q.start THEN 0 ELSE Null]
      /\ prev' = [t \in Map |-> Null]
      /\ heap' = {[k |-> 20 * Far(q.start, q.goal), at |-> q.start]}
  BY DEF Call
<1>5. Acyclic' BY <1>1, <1>3, <1>4 DEF Acyclic
<1>6. Chains' BY <1>1, <1>2, <1>3, <1>4, <1>5 DEF Chains
<1> QED BY <1>1, <1>6 DEF Sound

\* A tile whose way gets cheaper keeps a chain behind it.
LEMMA ExpandSound ==
  ASSUME Sound, Expand PROVE Sound'
<1>1. PICK e \in heap :
        /\ Top(e) /\ e.at \notin closed /\ e.at # query.goal
        /\ g' = [n \in Map |-> IF n \in Better(e.at) THEN g[e.at] + query.cost[n] ELSE g[n]]
        /\ prev' = [n \in Map |-> IF n \in Better(e.at) THEN e.at ELSE prev[n]]
        /\ heap' = (heap \ {e}) \cup {[k |-> Key(g[e.at] + query.cost[n], n), at |-> n] : n \in Better(e.at)}
        /\ UNCHANGED <<query, phase, path>>
  BY DEF Expand
<1>2. phase = "search" /\ query \in Searches /\ Chains BY <1>1 DEF Top, Sound
<1> DEFINE t == e.at
<1>3. t \in Map /\ g[t] \in Nat BY <1>1, <1>2 DEF Chains
<1>4. \A n \in Better(t) : /\ n \in Map /\ n \in Neighbours[t] /\ n \in Passable
                           /\ query.cost[n] \in Nat
                           /\ g[n] = Null \/ g[t] + query.cost[n] < g[n]
  BY <1>2, SearchParts DEF Better
<1>5. Null \notin Nat /\ query.start \in Map BY <1>2, MapAssumption, SearchParts
<1>6. query.start \notin Better(t)
  BY <1>2, <1>3, <1>4, <1>5 DEF Chains
<1>7. t \notin Better(t) BY <1>3, <1>4, <1>5
<1>8. /\ \A n \in Better(t) : g'[n] = g[t] + query.cost[n] /\ prev'[n] = t
      /\ \A n \in Map \ Better(t) : g'[n] = g[n] /\ prev'[n] = prev[n]
  BY <1>1, <1>4
<1> HIDE DEF t
<1>9. g' \in [Map -> Nat \cup {Null}] /\ prev' \in [Map -> Map \cup {Null}]
  BY <1>1, <1>2, <1>3, <1>4 DEF Chains, t
<1>10. g'[query.start] = 0 BY <1>2, <1>5, <1>6, <1>8 DEF Chains
\* No cost of a tile that has one ever grows.
<1>11. \A n \in Map : g[n] # Null => g'[n] \in Nat /\ g'[n] <= g[n]
  BY <1>2, <1>3, <1>4, <1>5, <1>8 DEF Chains
<1>12. ASSUME NEW n \in Map, g'[n] # Null, n # query.start
       PROVE  /\ prev'[n] \in Map /\ n \in Neighbours[prev'[n]] /\ n \in Passable
              /\ g'[prev'[n]] # Null /\ g'[prev'[n]] <= g'[n]
  <2>1. CASE n \in Better(t)
    <3>1. prev'[n] = t /\ g'[n] = g[t] + query.cost[n] /\ g'[t] = g[t] BY <1>3, <1>7, <1>8, <2>1
    <3> QED BY <1>3, <1>4, <1>5, <2>1, <3>1
  <2>2. CASE n \notin Better(t)
    <3>1. g'[n] = g[n] /\ prev'[n] = prev[n] BY <1>8, <2>2
    <3>2. /\ prev[n] \in Map /\ n \in Neighbours[prev[n]] /\ n \in Passable
          /\ g[prev[n]] # Null /\ g[prev[n]] <= g[n] /\ g[prev[n]] \in Nat /\ g[n] \in Nat
      BY <1>2, <1>12, <3>1 DEF Chains
    <3>3. g'[prev[n]] \in Nat /\ g'[prev[n]] <= g[prev[n]] BY <1>11, <3>2
    <3> QED BY <1>5, <3>1, <3>2, <3>3
  <2> QED BY <2>1, <2>2
<1>13. ASSUME NEW f \in heap' PROVE f.at \in Map /\ g'[f.at] # Null
  <2>1. CASE f \in heap BY <1>2, <1>5, <1>11, <2>1 DEF Chains
  <2>2. CASE f \notin heap
    <3>1. PICK n \in Better(t) : f.at = n BY <1>1, <1>13, <2>2 DEF t
    <3> QED BY <1>3, <1>4, <1>5, <1>8, <3>1
  <2> QED BY <2>1, <2>2
\* A set that going back did not leave would hold t, and so would its part
\* that costs no more than t, of which no way has changed.
<1>14. Acyclic'
  <2> SUFFICES ASSUME NEW S \in SUBSET (Map \ {query.start}), S # {}, \A n \in S : g'[n] # Null,
                      \A n \in S : prev'[n] \in S
               PROVE  FALSE
    BY <1>1 DEF Acyclic
  <2>1. CASE S \cap Better(t) = {}
    <3>1. \A n \in S : n \in Map \ Better(t) BY <2>1
    <3>2. \A n \in S : g[n] # Null /\ prev[n] \in S BY <1>8, <3>1
    <3> QED BY <1>2, <3>2 DEF Chains, Acyclic
  <2>2. CASE S \cap Better(t) # {}
    <3>1. t \in S BY <1>8, <2>2
    <3> DEFINE T == {n \in S : g[n] # Null /\ g[n] <= g[t]}
    <3>2. t \in T BY <1>3, <1>5, <3>1
    <3>3. ASSUME NEW n \in T PROVE prev[n] \in T
      <4>1. n \in Map /\ n # query.start /\ g[n] \in Nat /\ g[n] <= g[t] BY <1>2 DEF Chains
      <4>2. n \notin Better(t) BY <1>3, <1>4, <1>5, <4>1
      <4>3. prev[n] \in S BY <1>8, <4>1, <4>2
      <4>4. g[prev[n]] # Null /\ g[prev[n]] <= g[n] /\ g[prev[n]] \in Nat BY <1>2, <4>1 DEF Chains
      <4> QED BY <1>3, <4>1, <4>3, <4>4
    <3>4. T \in SUBSET (Map \ {query.start}) /\ \A n \in T : g[n] # Null OBVIOUS
    <3> HIDE DEF T
    <3> QED BY <1>2, <3>2, <3>3, <3>4 DEF Chains, Acyclic
  <2> QED BY <2>1, <2>2
<1>15. Chains' BY <1>1, <1>9, <1>10, <1>12, <1>13, <1>14 DEF Chains, Passable
<1> QED BY <1>1, <1>2, <1>15 DEF Sound

\* Turns that look at a tile without going on from it, and giving up.
LEMMA LookSound ==
  ASSUME Sound, Skip \/ Reach \/ TooFar \/ Fail PROVE Sound'
<1>1. phase = "search" /\ query \in Searches /\ Chains
  BY DEF Skip, Reach, TooFar, Fail, Top, Sound
<1>2. UNCHANGED <<query, g, prev>> /\ heap' \subseteq heap BY DEF Skip, Reach, TooFar, Fail
<1>3. query' \in Searches /\ Chains' BY <1>1, <1>2 DEF Chains, Acyclic, Passable
<1>4. CASE Skip \/ TooFar \/ Fail
  <2>1. phase' \in {"search", "failed"} BY <1>1, <1>4 DEF Skip, TooFar, Fail
  <2> QED BY <1>3, <2>1 DEF Sound
<1>5. CASE Reach
  <2>1. PICK e \in heap : /\ e.at = query.goal
                          /\ \/ e.at = query.start /\ phase' = "found" /\ path' = <<>>
                             \/ e.at # query.start /\ phase' = "trace" /\ path' = <<e.at>>
    BY <1>5 DEF Reach
  <2>2. e.at \in Map /\ g[e.at] # Null BY <1>1, <2>1 DEF Chains
  <2>3. CASE e.at = query.start BY <1>2, <1>3, <2>1, <2>3 DEF Sound
  <2>4. CASE e.at # query.start
    <3>1. path' = <<e.at>> /\ phase' = "trace" BY <2>1, <2>4
    <3>2. Traced' BY <1>2, <2>1, <2>2, <2>4, <3>1 DEF Traced
    <3> QED BY <1>3, <3>1, <3>2 DEF Sound
  <2> QED BY <2>3, <2>4
<1> QED BY <1>4, <1>5

\* One tile further back: it is none of those traced so far, or going back
\* would not leave the first ones up to it.
LEMMA TraceSound ==
  ASSUME Sound, Trace PROVE Sound'
<1>1. phase = "trace" /\ query \in Searches /\ Chains /\ Traced BY DEF Trace, Sound
<1>2. UNCHANGED <<query, g, prev, heap>> BY DEF Trace
<1>3. query' \in Searches /\ Chains' BY <1>1, <1>2 DEF Chains, Acyclic, Passable
<1> DEFINE before == prev[Head(path)]
<1>4. Len(path) \in Nat \ {0} /\ Head(path) = path[1] /\ path[1] \in Map BY <1>1 DEF Traced
<1>5. /\ before \in Map /\ path[1] \in Neighbours[before]
      /\ g[before] # Null
  BY <1>1, <1>4 DEF Traced, Chains
<1>6. CASE before = query.start
  <2>1. phase' = "found" /\ path' = path BY <1>6 DEF Trace
  <2>2. Traced' BY <1>1, <1>2, <2>1 DEF Traced
  <2> QED BY <1>2, <1>3, <1>4, <1>6, <2>1, <2>2 DEF Sound
<1>7. CASE before # query.start
  <2>1. phase' = "trace" /\ path' = <<before>> \o path BY <1>1, <1>7 DEF Trace
  <2> HIDE DEF before
  <2>2. path \in Seq(Map) BY <1>1 DEF Traced
  <2>3. path' \in Seq(Map) /\ Len(path') = Len(path) + 1 BY <1>5, <2>1, <2>2
  <2>4. path'[1] = before /\ \A i \in 2..Len(path) + 1 : path'[i] = path[i - 1]
    BY <1>4, <1>5, <2>1, <2>2
  <2>5. path'[Len(path')] = query.goal BY <1>1, <1>4, <2>3, <2>4 DEF Traced
  <2>6. \A i \in 1..Len(path') : path'[i] # query.start /\ g[path'[i]] # Null
    BY <1>1, <1>4, <1>5, <1>7, <2>3, <2>4 DEF Traced
  <2>7. \A i \in 1..Len(path') - 1 : path'[i + 1] \in Neighbours[path'[i]]
    <3> SUFFICES ASSUME NEW i \in 1..Len(path') - 1 PROVE path'[i + 1] \in Neighbours[path'[i]]
      OBVIOUS
    <3>1. CASE i = 1 BY <1>4, <1>5, <2>3, <2>4, <3>1
    <3>2. CASE i # 1
      <4>1. i - 1 \in 1..Len(path) - 1 /\ path'[i] = path[i - 1] /\ path'[i + 1] = path[(i - 1) + 1]
        BY <1>4, <2>3, <2>4, <3>2
      <4> QED BY <1>1, <4>1 DEF Traced
    <3> QED BY <3>1, <3>2
  <2>8. \A i \in 1..Len(path') - 1 : prev[path'[i + 1]] = path'[i]
    <3> SUFFICES ASSUME NEW i \in 1..Len(path') - 1 PROVE prev[path'[i + 1]] = path'[i]
      OBVIOUS
    <3>1. CASE i = 1 BY <1>4, <2>3, <2>4, <3>1 DEF before
    <3>2. CASE i # 1
      <4>1. i - 1 \in 1..Len(path) - 1 /\ path'[i] = path[i - 1] /\ path'[i + 1] = path[(i - 1) + 1]
        BY <1>4, <2>3, <2>4, <3>2
      <4> QED BY <1>1, <4>1 DEF Traced
    <3> QED BY <3>1, <3>2
  <2>9. \A k \in 1..Len(path) : before # path[k]
    <3> SUFFICES ASSUME NEW k \in 1..Len(path), before = path[k] PROVE FALSE OBVIOUS
    <3> DEFINE S == {path[i] : i \in 1..k}
    <3>1. S \in SUBSET (Map \ {query.start}) /\ \A t \in S : g[t] # Null
      BY <1>1, <1>4, <2>2 DEF Traced
    <3>2. path[1] \in S /\ path[k] \in S BY <1>4
    <3>3. ASSUME NEW t \in S PROVE prev[t] \in S
      <4>1. PICK i \in 1..k : t = path[i] OBVIOUS
      <4>2. CASE i = 1
        <5>1. prev[t] = path[k] BY <1>4, <4>1, <4>2 DEF before
        <5> HIDE DEF S
        <5> QED BY <3>2, <5>1
      <4>3. CASE i # 1
        <5>1. i - 1 \in 1..Len(path) - 1 /\ i - 1 \in 1..k /\ (i - 1) + 1 = i BY <1>4, <4>3
        <5>2. prev[path[(i - 1) + 1]] = path[i - 1] BY <1>1, <5>1 DEF Traced
        <5> QED BY <4>1, <5>1, <5>2
      <4> QED BY <4>2, <4>3
    <3> HIDE DEF S
    <3> QED BY <1>1, <3>1, <3>2, <3>3 DEF Chains, Acyclic
  <2>10. \A i, j \in 1..Len(path') : i < j => path'[i] # path'[j]
    <3> SUFFICES ASSUME NEW i \in 1..Len(path'), NEW j \in 1..Len(path'), i < j
                 PROVE  path'[i] # path'[j]
      OBVIOUS
    <3>1. j - 1 \in 1..Len(path) /\ path'[j] = path[j - 1] BY <1>4, <2>3, <2>4
    <3>2. CASE i = 1 BY <2>4, <2>9, <3>1, <3>2
    <3>3. CASE i # 1
      <4>1. i - 1 \in 1..Len(path) /\ path'[i] = path[i - 1] /\ i - 1 < j - 1
        BY <1>4, <2>3, <2>4, <3>3
      <4> QED BY <1>1, <3>1, <4>1 DEF Traced
    <3> QED BY <3>2, <3>3
  <2>11. Traced' BY <1>2, <1>4, <2>3, <2>5, <2>6, <2>7, <2>8, <2>10 DEF Traced
  <2> QED BY <1>3, <2>1, <2>11 DEF Sound
<1> QED BY <1>6, <1>7

LEMMA SoundStep == ASSUME Searched PROVE Sound /\ [MapNext]_mapVars => Sound'
<1> SUFFICES ASSUME Sound, [MapNext]_mapVars PROVE Sound' OBVIOUS
<1>1. CASE UNCHANGED pathVars
  BY <1>1 DEF pathVars, Sound, Chains, Acyclic, Traced, Passable
<1>2. CASE Return BY <1>2 DEF Return, Sound
<1>3. CASE FindPath
  <2>1. PICK q \in Queries({t \in Map : IsValley(t)}) : Call(q) BY <1>3 DEF FindPath
  <2>2. q \in Searches BY <2>1 DEF Searched
  <2> QED BY <2>1, <2>2, CallSound
<1>4. CASE Dig \/ EndOfBlock \/ \E b \in Blocks : StartBlock(b)
  <2>1. UNCHANGED pathVars BY <1>4 DEF Dig, EndOfBlock, StartBlock
  <2> QED BY <1>1, <2>1
<1>5. CASE UNCHANGED mapVars
  BY <1>1, <1>5 DEF mapVars, pathVars
<1> QED
  BY <1>2, <1>3, <1>4, <1>5, ExpandSound, LookSound, TraceSound DEF MapNext, Search

\* findPath returns null or a way over passable neighbours from start to goal,
\* and going back from the goal never goes in a circle (path.ts), also where
\* tiles cost nothing.
THEOREM RoutesAreWays == ASSUME Searched PROVE MapSpec => []PathSound
<1>1. Sound => PathSound
  <2> SUFFICES ASSUME Sound PROVE PathSound OBVIOUS
  <2>1. ASSUME Traced, query \in Searches, Chains PROVE IsInjective(path)
    <3>1. \A i, j \in 1..Len(path) : path[i] = path[j] => i = j
      <4> SUFFICES ASSUME NEW i \in 1..Len(path), NEW j \in 1..Len(path), i < j PROVE path[i] # path[j]
        BY <2>1 DEF Traced
      <4> QED BY <2>1 DEF Traced
    <3>2. DOMAIN path = 1..Len(path) BY <2>1 DEF Traced
    <3> QED BY <3>1, <3>2 DEF IsInjective
  <2>2. phase \in {"trace", "found"} => IsInjective(path)
    <3>1. CASE path = <<>> BY <3>1 DEF IsInjective
    <3> QED BY <2>1, <3>1 DEF Sound
  <2>3. ASSUME phase = "found", query.start # query.goal PROVE Way(path)
    <3>1. Traced /\ prev[path[1]] = query.start /\ query \in Searches /\ Chains BY <2>3 DEF Sound
    <3>2. DOMAIN path = 1..Len(path) /\ Len(path) \in Nat \ {0} BY <3>1 DEF Traced
    <3>3. \A i \in 1..Len(path) : path[i] \in Map /\ path[i] \in Passable
      BY <3>1 DEF Traced, Chains
    <3>4. path[1] \in Neighbours[query.start] BY <3>1, <3>2, <3>3 DEF Traced, Chains
    <3> QED BY <3>1, <3>2, <3>3, <3>4 DEF Way, Traced
  <2> QED BY <2>2, <2>3 DEF PathSound
<1>2. Sound /\ [MapNext]_mapVars => Sound' BY SoundStep
<1> QED BY <1>1, <1>2, SoundInit, PTL DEF MapSpec

-----------------------------------------------------------------------------
(* The cheapest way.                                                       *)

Seen == {t \in Map : g[t] # Null}
Expanded(t) == t \in closed /\ t # query.goal /\ steps[t] < query.maxLen

\* Lengths of the ways: no way is longer than there are tiles looked at.
Depths ==
  /\ steps \in [Map -> Nat \cup {Null}] /\ steps[query.start] = 0
  /\ \A t \in Map : steps[t] = Null <=> g[t] = Null
  /\ \A t \in Seen : steps[t] <= Cardinality(closed) /\ steps[t] <= query.maxLen
  /\ Ample => \A t \in closed : steps[t] < query.maxLen

\* Every way goes on from a tile that has been looked at, by exactly what the
\* next tile costs; and nobody who has been looked at leads to a cheaper one.
Tree ==
  /\ closed \subseteq Seen /\ (closed # {} => query.start \in closed)
  /\ \A t \in Seen \ {query.start} : /\ Expanded(prev[t])
                                     /\ steps[t] = steps[prev[t]] + 1
                                     /\ g[t] = g[prev[t]] + query.cost[t]
  /\ \A t \in Map : Expanded(t) =>
       \A n \in Neighbours[t] \cap Passable : n \in Seen /\ g[n] <= g[t] + query.cost[n]

\* Tiles wait in the heap under the keys of their best ways, the first one
\* under a greater key, and none before a tile that has been looked at.
Waits(t) == \E e \in heap : e.at = t /\ e.k = Key(g[t], t)
Frontier ==
  /\ \A t \in Seen \ closed : Waits(t) \/ (closed = {} /\ \E e \in heap : heap = {e} /\ e.at = t)
  /\ \A e \in heap : e.k \in Int /\ e.at \in Seen /\ Key(g[e.at], e.at) <= e.k
  /\ \A t \in closed : \A e \in heap : Key(g[t], t) <= e.k

Explored == Depths /\ Tree /\ Frontier

LEMMA FarTyped ==
  ASSUME NEW t \in Map, NEW u \in Map PROVE Far(t, u) \in Nat /\ Far(u, u) = 0
<1>1. t[1] \in Int /\ t[2] \in Int /\ u[1] \in Int /\ u[2] \in Int BY MapAssumption
<1> QED BY <1>1 DEF Far, Abs

\* The estimate is consistent where no tile costs less than ten.
LEMMA Consistent ==
  ASSUME query \in Searches, ~Cheap, NEW t \in Map, NEW n \in Neighbours[t] \cap Passable, NEW c \in Int
  PROVE  Key(c, t) \in Int /\ Key(c + query.cost[n], n) \in Int /\ Key(c, t) <= Key(c + query.cost[n], n)
<1>1. query.goal \in Map /\ query.cost[n] \in Nat /\ query.cost[n] >= 10 /\ n \in Map
  BY SearchParts DEF Cheap
<1> DEFINE u == query.goal
           p == query.cost[n]
<1>2. Far(n, t) = 1 BY <1>1 DEF Neighbours
<1>3. /\ t[1] \in Int /\ t[2] \in Int /\ n[1] \in Int /\ n[2] \in Int
      /\ u[1] \in Int /\ u[2] \in Int
  BY <1>1, MapAssumption
<1>4. Far(t, u) \in Nat /\ Far(n, u) \in Nat BY <1>1, FarTyped
<1> HIDE DEF u
<1>5. Far(t, u) <= Far(n, u) + 1 BY <1>2, <1>3 DEF Far, Abs
<1>6. Key(c, t) = c + 10 * Far(t, u) /\ Key(c + p, n) = c + p + 10 * Far(n, u) BY DEF Key, u
<1> HIDE DEF p
<1>7. Key(c, t) \in Int /\ Key(c + p, n) \in Int /\ Key(c, t) <= Key(c + p, n)
  <2>1. p \in Nat /\ p >= 10 BY <1>1 DEF p
  <2> QED BY <1>4, <1>5, <1>6, <2>1
<1> QED BY <1>7 DEF p

\* Of two ways to a tile the cheaper one has the smaller key.
LEMMA KeysCompare ==
  ASSUME query \in Searches, NEW t \in Map, NEW c \in Int, NEW d \in Int
  PROVE  Key(c, t) \in Int /\ (Key(c, t) <= Key(d, t) <=> c <= d)
<1>1. Far(t, query.goal) \in Nat BY SearchParts, FarTyped
<1> QED BY <1>1 DEF Key

\* What is known of the tile that comes first: no tile looked at before has a
\* greater key, no tile that waits has a smaller one, and no other tile loses
\* its place.
First(t, rest) ==
  /\ t \in Seen \ closed /\ (closed = {} => t = query.start)
  /\ \A u \in closed : Key(g[u], u) <= Key(g[t], t)
  /\ rest \subseteq heap /\ \A f \in rest : Key(g[t], t) <= f.k
  /\ \A u \in (Seen \ closed) \ {t} : \E f \in rest : f.at = u /\ f.k = Key(g[u], u)

LEMMA PoppedFirst ==
  ASSUME query \in Searches, Chains, Explored, NEW e \in heap, Top(e), e.at \notin closed
  PROVE  First(e.at, heap \ {e})
<1> DEFINE t == e.at
           rest == heap \ {e}
<1>1. t \in Seen \ closed /\ t \in Map BY DEF Explored, Frontier, Seen
<1>2. /\ \A f \in heap : f.k \in Int /\ f.at \in Map /\ g[f.at] \in Nat /\ Key(g[f.at], f.at) <= f.k
      /\ \A f \in heap : e.k <= f.k
  BY DEF Explored, Frontier, Top, Chains, Seen
<1>3. \A f \in heap : Key(g[t], t) <= f.k
  <2>1. Key(g[t], t) \in Int /\ e.k \in Int /\ Key(g[t], t) <= e.k BY <1>1, <1>2, KeysCompare
  <2> QED BY <1>2, <2>1
<1>4. closed = {} => t = query.start BY <1>1 DEF Explored, Tree, Expanded
<1>5. ASSUME NEW u \in closed PROVE Key(g[u], u) <= Key(g[t], t)
  <2>1. PICK f \in heap : f.at = t /\ f.k = Key(g[t], t)
    BY <1>1, <1>5 DEF Explored, Frontier, Waits
  <2> QED BY <1>5, <2>1 DEF Explored, Frontier
<1>6. ASSUME NEW u \in (Seen \ closed) \ {t} PROVE \E f \in rest : f.at = u /\ f.k = Key(g[u], u)
  <2>1. Waits(u) BY <1>6 DEF Explored, Frontier
  <2> QED BY <1>6, <2>1 DEF Waits
<1> QED BY <1>1, <1>3, <1>4, <1>5, <1>6 DEF First

\* Looking at a tile and going no further from it.
LEMMA LookExplores ==
  ASSUME query \in Searches, Chains, Explored, UNCHANGED <<query, g, steps, prev>>,
         NEW t \in Map, First(t, heap'), closed' = closed \cup {t},
         t = query.goal \/ steps[t] >= query.maxLen
  PROVE  Explored'
<1>1. steps[t] \in Nat /\ steps[t] <= Cardinality(closed) /\ steps[t] <= query.maxLen /\ query.maxLen \in Nat
  BY DEF First, Explored, Depths, Seen, Searches
<1>2. closed \subseteq Map \ {t} /\ IsFiniteSet(closed) /\ Cardinality(closed) \in Nat
      /\ IsFiniteSet(Map) /\ Cardinality(Map) \in Nat
  <2>1. closed \subseteq Map \ {t} BY DEF First, Explored, Tree, Seen
  <2> QED BY <2>1, MapAssumption, FS_Subset, FS_CardinalityType
<1>3. IsFiniteSet(closed') /\ Cardinality(closed') = Cardinality(closed) + 1 BY <1>2, FS_AddElement
<1>4. Cardinality(closed') <= Cardinality(Map) BY <1>2, <1>3, MapAssumption, FS_Subset
<1>5. Ample => steps[t] < query.maxLen BY <1>1, <1>2, <1>3, <1>4 DEF Ample
<1>6. Depths'
  <2>1. \A u \in Seen : steps[u] \in Nat /\ steps[u] <= Cardinality(closed')
    BY <1>2, <1>3 DEF Explored, Depths, Seen
  <2> QED BY <1>5, <2>1 DEF Explored, Depths, Ample, Seen
<1>7. Tree'
  <2>1. Seen' = Seen /\ \A u \in Map : Expanded(u)' <=> Expanded(u)
    BY <1>1 DEF Seen, Expanded, First, Searches
  <2>2. \A u \in Seen \ {query.start} : Expanded(prev[u])' BY <2>1 DEF Explored, Tree, Chains, Seen
  <2>3. closed' \subseteq Seen /\ query.start \in closed' BY DEF Explored, Tree, First
  <2>4. \A u \in Map : Expanded(u)' =>
          \A n \in Neighbours[u] \cap Passable : n \in Seen /\ g[n] <= g[u] + query.cost[n]
    BY <2>1 DEF Explored, Tree
  <2> QED BY <2>1, <2>2, <2>3, <2>4 DEF Explored, Tree, Passable
<1>8. Frontier' BY DEF Explored, Frontier, First, Seen, Waits, Key
<1> QED BY <1>6, <1>7, <1>8 DEF Explored

\* Going on from a tile: its neighbours get cheaper ways, tiles looked at do not.
LEMMA ExpandExplores ==
  ASSUME query \in Searches, ~Cheap, Chains, Chains', Explored, Expand PROVE Explored'
<1>1. PICK e \in heap :
        /\ Top(e) /\ e.at \notin closed /\ e.at # query.goal /\ steps[e.at] < query.maxLen
        /\ g' = [n \in Map |-> IF n \in Better(e.at) THEN g[e.at] + query.cost[n] ELSE g[n]]
        /\ steps' = [n \in Map |-> IF n \in Better(e.at) THEN steps[e.at] + 1 ELSE steps[n]]
        /\ prev' = [n \in Map |-> IF n \in Better(e.at) THEN e.at ELSE prev[n]]
        /\ heap' = (heap \ {e}) \cup {[k |-> Key(g[e.at] + query.cost[n], n), at |-> n] : n \in Better(e.at)}
        /\ closed' = closed \cup {e.at}
        /\ UNCHANGED <<query, phase, path>>
  BY DEF Expand
<1> DEFINE t == e.at
           rest == heap \ {e}
           better == Better(t)
           Cost(n) == g[t] + query.cost[n]
<1>2. First(t, rest) BY <1>1, PoppedFirst
<1> HIDE DEF rest
<1>3. t \in Map /\ t \in Seen /\ t \notin closed /\ g[t] \in Nat
  BY <1>2 DEF First, Seen, Chains
<1>4. Null \notin Nat /\ query.start \in Map BY MapAssumption, SearchParts
<1>5. \A n \in better : /\ n \in Map /\ n \in Neighbours[t] \cap Passable
                        /\ query.cost[n] \in Nat /\ Cost(n) \in Nat
                        /\ g[n] = Null \/ Cost(n) < g[n]
  BY <1>3, SearchParts DEF Better
<1>6. \A n \in better : Key(Cost(n), n) \in Int /\ Key(g[t], t) <= Key(Cost(n), n)
  BY <1>3, <1>5, Consistent
<1>7. \A n \in better : n \notin closed /\ n # t
  <2> SUFFICES ASSUME NEW n \in better, n \in closed PROVE FALSE BY <1>3, <1>4, <1>5
  <2>1. g[n] \in Nat /\ Cost(n) \in Nat /\ Cost(n) < g[n] /\ n \in Map
    BY <1>4, <1>5 DEF Explored, Tree, Seen, Chains
  <2>2. Key(g[n], n) <= Key(g[t], t) BY <1>2 DEF First
  <2>3. Key(g[n], n) \in Int /\ ~(Key(g[n], n) <= Key(Cost(n), n)) /\ Key(g[t], t) \in Int
    <3> HIDE DEF Cost
    <3>1. ~(g[n] <= Cost(n)) BY <2>1
    <3> QED BY <1>3, <2>1, <3>1, KeysCompare
  <2>4. Key(Cost(n), n) \in Int /\ Key(g[t], t) <= Key(Cost(n), n) BY <1>6
  <2> HIDE DEF Cost, t, better
  <2> QED BY <2>2, <2>3, <2>4
<1>8. query.start \notin better BY <1>2, <1>7 DEF First, Explored, Tree
<1>9. /\ \A n \in better : g'[n] = Cost(n) /\ steps'[n] = steps[t] + 1 /\ prev'[n] = t
      /\ \A n \in Map \ better : g'[n] = g[n] /\ steps'[n] = steps[n] /\ prev'[n] = prev[n]
  BY <1>1, <1>5
<1>10. /\ heap' = rest \cup {[k |-> Key(Cost(n), n), at |-> n] : n \in better}
       /\ closed' = closed \cup {t} /\ UNCHANGED query
  BY <1>1 DEF rest
<1>11. /\ steps[t] \in Nat /\ steps[t] < query.maxLen /\ query.maxLen \in Nat /\ t # query.goal
       /\ steps[t] <= Cardinality(closed) /\ steps' \in [Map -> Nat \cup {Null}]
  <2>1. steps[t] \in Nat BY <1>3 DEF Explored, Depths, Seen
  <2> QED BY <1>1, <1>3, <2>1 DEF Explored, Depths, Searches
<1> HIDE DEF t, better, Cost
<1>12. Seen' = Seen \cup better
  <2>1. \A n \in better : g'[n] # Null BY <1>4, <1>5, <1>9
  <2> QED BY <1>5, <1>9, <2>1 DEF Seen
<1>13. closed \subseteq Seen /\ closed \subseteq Map BY DEF Explored, Tree, Seen
<1>14. \A n \in closed \cup {t} : g'[n] = g[n] /\ steps'[n] = steps[n] /\ n \in Map \ better
  BY <1>3, <1>7, <1>9, <1>13
<1>15. Depths'
  <2>1. closed \subseteq Map \ {t} /\ IsFiniteSet(closed) /\ Cardinality(closed) \in Nat
    BY <1>3, <1>13, MapAssumption, FS_Subset, FS_CardinalityType
  <2>2. Cardinality(closed') = Cardinality(closed) + 1 BY <1>3, <1>10, <2>1, FS_AddElement
  <2>3. \A n \in Map \ better : n \in Seen =>
          steps[n] \in Nat /\ steps[n] <= Cardinality(closed') /\ steps[n] <= query.maxLen
    BY <2>1, <2>2 DEF Explored, Depths, Seen
  <2>4. \A n \in Seen' : steps'[n] <= Cardinality(closed') /\ steps'[n] <= query'.maxLen
    <3> SUFFICES ASSUME NEW n \in Seen' PROVE steps'[n] <= Cardinality(closed') /\ steps'[n] <= query.maxLen
      BY <1>10
    <3>1. CASE n \in better BY <1>9, <1>11, <2>1, <2>2, <3>1
    <3>2. CASE n \notin better
      <4>1. n \in Seen /\ n \in Map \ better BY <1>12, <3>2 DEF Seen
      <4> QED BY <1>9, <2>3, <4>1
    <3> QED BY <3>1, <3>2
  <2>5. steps'[query.start] = 0 BY <1>4, <1>8, <1>9 DEF Explored, Depths
  <2>6. \A n \in Map : steps'[n] = Null <=> g'[n] = Null
    <3>1. \A n \in better : steps'[n] # Null /\ g'[n] # Null BY <1>4, <1>5, <1>9, <1>11
    <3> QED BY <1>9, <3>1 DEF Explored, Depths
  <2>7. Ample => \A n \in closed' : steps'[n] < query.maxLen
    BY <1>10, <1>11, <1>14 DEF Explored, Depths
  <2> QED BY <1>10, <1>11, <2>4, <2>5, <2>6, <2>7 DEF Depths, Ample
<1>16. Tree'
  <2>1. \A n \in closed : n \in Map /\ (Expanded(n) <=> Expanded(n)')
    BY <1>10, <1>14 DEF Expanded
  <2>2. Expanded(t)' BY <1>10, <1>11, <1>14 DEF Expanded
  <2>3. closed' \subseteq Seen' /\ query.start \in closed'
    BY <1>2, <1>3, <1>10, <1>12, <1>13 DEF First, Explored, Tree
  <2>4. ASSUME NEW n \in Seen' \ {query.start}
        PROVE  Expanded(prev[n])' /\ steps'[n] = steps'[prev'[n]] + 1 /\ g'[n] = g'[prev'[n]] + query.cost[n]
    <3>1. CASE n \in better BY <1>9, <1>14, <2>2, <3>1 DEF Cost, Expanded
    <3>2. CASE n \notin better
      <4>1. n \in Seen \ {query.start} /\ n \in Map BY <1>12, <2>4, <3>2 DEF Seen
      <4>2. Expanded(prev[n]) /\ steps[n] = steps[prev[n]] + 1 /\ g[n] = g[prev[n]] + query.cost[n]
        BY <4>1 DEF Explored, Tree
      <4>3. prev[n] \in closed BY <4>2 DEF Expanded
      <4>4. n \in Map \ better /\ prev'[n] = prev[n] BY <1>9, <3>2, <4>1
      <4>5. Expanded(prev[n])' BY <2>1, <4>2, <4>3, <4>4 DEF Expanded
      <4> QED BY <1>9, <1>14, <4>2, <4>3, <4>4, <4>5
    <3> QED BY <3>1, <3>2
  <2>5. \A n \in Seen : g'[n] \in Nat /\ g[n] \in Nat /\ g'[n] <= g[n]
    <3> SUFFICES ASSUME NEW n \in Seen PROVE g'[n] \in Nat /\ g[n] \in Nat /\ g'[n] <= g[n]
      OBVIOUS
    <3>1. n \in Map /\ g[n] \in Nat BY DEF Seen, Chains
    <3>2. CASE n \in better
      <4>1. g'[n] = Cost(n) /\ Cost(n) \in Nat /\ (g[n] = Null \/ Cost(n) < g[n]) BY <1>5, <1>9, <3>2
      <4> QED BY <1>4, <3>1, <4>1
    <3>3. CASE n \notin better BY <1>9, <3>1, <3>3
    <3> QED BY <3>2, <3>3
  <2>6. ASSUME NEW u \in Map, Expanded(u)', NEW n \in Neighbours[u] \cap Passable
        PROVE  n \in Seen' /\ g'[n] <= g'[u] + query.cost[n]
    <3>0. u \in closed' BY <2>6 DEF Expanded
    <3>1. CASE u = t
      <4>1. g'[u] = g[t] BY <1>14, <3>1
      <4>2. CASE n \in better
        <5>1. g'[n] = Cost(n) /\ n \in Seen' /\ Cost(n) \in Nat BY <1>5, <1>9, <1>12, <4>2
        <5>2. g'[n] = g'[u] + query.cost[n] BY <4>1, <5>1 DEF Cost
        <5> QED BY <5>1, <5>2
      <4>3. CASE n \notin better
        <5>1. n \in Map /\ n \in Seen /\ ~(Cost(n) < g[n])
          BY <2>6, <3>1, <4>3, SearchParts DEF better, Better, Cost, Seen
        <5>2. Cost(n) \in Nat /\ Cost(n) = g[t] + query.cost[n]
          BY <1>3, SearchParts DEF Cost
        <5>3. g'[n] = g[n] /\ g[n] \in Nat BY <1>9, <2>5, <4>3, <5>1
        <5> QED BY <1>12, <4>1, <5>1, <5>2, <5>3
      <4> QED BY <4>2, <4>3
    <3>2. CASE u # t
      <4>1. u \in closed /\ Expanded(u) BY <1>10, <2>1, <2>6, <3>0, <3>2
      <4>2. n \in Seen /\ g[n] <= g[u] + query.cost[n] BY <2>6, <4>1 DEF Explored, Tree
      <4>3. g'[u] = g[u] /\ u \in Seen BY <1>13, <1>14, <4>1
      <4>4. query.cost[n] \in Nat BY SearchParts
      <4>5. g'[n] \in Nat /\ g[n] \in Nat /\ g'[n] <= g[n] /\ g[u] \in Nat BY <2>5, <4>2, <4>3
      <4> QED BY <1>12, <4>2, <4>3, <4>4, <4>5
    <3> QED BY <3>1, <3>2
  <2> QED BY <1>10, <2>3, <2>4, <2>6 DEF Tree, Passable
<1>17. Frontier'
  <2>1. \A n \in Seen : Key(g[n], n)' = Key(g'[n], n) /\ n \in Map BY <1>10 DEF Key, Seen
  <2>2. \A n \in better : /\ [k |-> Key(Cost(n), n), at |-> n] \in heap'
                          /\ g'[n] = Cost(n)
    BY <1>9, <1>10
  <2>3. ASSUME NEW n \in Seen' \ closed' PROVE Waits(n)'
    <3>1. CASE n \in better BY <1>10, <2>2, <3>1 DEF Waits, Key
    <3>2. CASE n \notin better
      <4>1. n \in (Seen \ closed) \ {t} /\ n \in Map BY <1>10, <1>12, <2>3, <3>2 DEF Seen
      <4>2. PICK f \in rest : f.at = n /\ f.k = Key(g[n], n) BY <1>2, <4>1 DEF First
      <4>3. g'[n] = g[n] /\ f \in heap' BY <1>9, <1>10, <3>2, <4>1
      <4> QED BY <1>10, <4>2, <4>3 DEF Waits, Key
    <3> QED BY <3>1, <3>2
  <2>4. ASSUME NEW f \in heap'
        PROVE  f.k \in Int /\ f.at \in Seen' /\ Key(g'[f.at], f.at) <= f.k /\ Key(g[t], t) <= f.k
    <3>1. CASE f \in rest
      <4>1. f.k \in Int /\ f.at \in Seen /\ Key(g[f.at], f.at) <= f.k /\ f.at \in Map /\ g[f.at] \in Nat
        BY <1>2, <3>1 DEF First, Explored, Frontier, Seen, Chains
      <4>2. Key(g[t], t) <= f.k BY <1>2, <3>1 DEF First
      <4>3. CASE f.at \notin better BY <1>9, <1>12, <4>1, <4>2, <4>3
      <4>4. CASE f.at \in better
        <5>1. g'[f.at] = Cost(f.at) /\ Cost(f.at) \in Nat /\ Cost(f.at) <= g[f.at]
          BY <1>4, <1>5, <1>9, <4>1, <4>4
        <5>2. /\ Key(g[f.at], f.at) \in Int /\ Key(Cost(f.at), f.at) \in Int
              /\ Key(Cost(f.at), f.at) <= Key(g[f.at], f.at)
          BY <4>1, <5>1, KeysCompare
        <5>3. Key(g'[f.at], f.at) <= f.k BY <4>1, <5>1, <5>2
        <5> QED BY <1>12, <4>1, <4>2, <5>3
      <4> QED BY <4>3, <4>4
    <3>2. CASE f \notin rest
      <4>1. PICK n \in better : f = [k |-> Key(Cost(n), n), at |-> n] BY <1>10, <2>4, <3>2
      <4>2. f.k = Key(Cost(n), n) /\ f.at = n BY <4>1
      <4> QED BY <1>6, <1>9, <1>12, <4>2
    <3> QED BY <3>1, <3>2
  <2>5. ASSUME NEW u \in closed', NEW f \in heap' PROVE Key(g'[u], u) <= f.k
    <3>1. g'[u] = g[u] /\ Key(g[u], u) <= Key(g[t], t) /\ Key(g[u], u) \in Int /\ Key(g[t], t) \in Int
      <4>1. Key(g[t], t) \in Int BY <1>3, KeysCompare
      <4>2. CASE u = t BY <1>14, <4>1, <4>2
      <4>3. CASE u # t
        <5>1. u \in closed /\ u \in Map /\ g[u] \in Nat BY <1>10, <1>13, <2>5, <4>3 DEF Seen, Chains
        <5>2. Key(g[u], u) \in Int BY <5>1, KeysCompare
        <5>3. Key(g[u], u) <= Key(g[t], t) BY <1>2, <5>1 DEF First
        <5> QED BY <1>14, <4>1, <5>1, <5>2, <5>3
      <4> QED BY <4>2, <4>3
    <3> QED BY <2>4, <3>1
  <2> QED BY <1>10, <2>3, <2>4, <2>5 DEF Frontier, Key
<1> QED BY <1>15, <1>16, <1>17 DEF Explored

\* What a way costs, tile by tile from its end.
LEMMA CostOfOne ==
  ASSUME NEW t, query.cost[t] \in Int PROVE WayCost(<<t>>) = query.cost[t]
<1> DEFINE f == [i \in DOMAIN <<t>> |-> query.cost[<<t>>[i]]]
<1>1. DOMAIN <<t>> = {1} /\ f[1] = query.cost[t] OBVIOUS
<1>2. WayCost(<<t>>) = SumOver(f, {1}) BY <1>1 DEF WayCost
<1> HIDE DEF f
<1> QED BY <1>1, <1>2, SumSingle

LEMMA CostOfLonger ==
  ASSUME NEW s \in Seq(Map), NEW t \in Map, query.cost[t] \in Int,
         \A i \in 1..Len(s) : query.cost[s[i]] \in Int
  PROVE  WayCost(<<t>> \o s) = query.cost[t] + WayCost(s) /\ WayCost(s) \in Int
<1> DEFINE n == Len(s)
           r == <<t>> \o s
           f == [i \in 1..n |-> query.cost[s[i]]]
           h == [i \in 1..n + 1 |-> query.cost[r[i]]]
           b == [i \in 1..n |-> i + 1]
<1>1. n \in Nat /\ DOMAIN s = 1..n /\ DOMAIN r = 1..n + 1 /\ r[1] = t /\ \A i \in 1..n : r[i + 1] = s[i]
  OBVIOUS
<1>2. WayCost(s) = SumOver(f, 1..n) /\ WayCost(r) = SumOver(h, 1..n + 1) BY <1>1 DEF WayCost
<1> HIDE DEF r
<1>3. /\ \A i \in 1..n : f[i] \in Int /\ f[i] = query.cost[s[i]] /\ h[i + 1] = f[i] /\ b[i] = i + 1
      /\ h[1] = query.cost[t]
  BY <1>1
<1>4. Names(b, 1..n) = 2..n + 1
  <2>1. \A j \in 2..n + 1 : j - 1 \in 1..n /\ b[j - 1] = j BY <1>1
  <2>2. \A i \in 1..n : b[i] \in 2..n + 1 BY <1>1
  <2> HIDE DEF b
  <2> QED BY <2>1, <2>2 DEF Names
<1>5. IsFiniteSet(1..n) /\ IsFiniteSet(2..n + 1) BY <1>1, FS_Interval
<1> HIDE DEF f, h, b
<1>6. Renames(b, 1..n, f, h)
  <2>1. \A i \in 1..n : f[i] \in Int /\ h[b[i]] = f[i] BY <1>3
  <2>2. \A i, j \in 1..n : b[i] = b[j] => i = j BY <1>1, <1>3
  <2> QED BY <2>1, <2>2 DEF Renames
<1>7. SumOver(h, 2..n + 1) = SumOver(f, 1..n) BY <1>4, <1>5, <1>6, SumReindex
<1>8. 1..n + 1 = (2..n + 1) \cup {1} /\ 1 \notin 2..n + 1 BY <1>1
<1>9. \A i \in (2..n + 1) \cup {1} : h[i] \in Int
  <2>1. h[1] \in Int BY <1>3
  <2> SUFFICES ASSUME NEW i \in 2..n + 1 PROVE h[i] \in Int BY <2>1
  <2>2. i - 1 \in 1..n /\ (i - 1) + 1 = i BY <1>1
  <2>3. h[(i - 1) + 1] \in Int BY <1>3, <2>2, Zenon
  <2> QED BY <2>2, <2>3
<1>10. SumOver(h, 1..n + 1) = h[1] + SumOver(h, 2..n + 1) BY <1>5, <1>8, <1>9, SumAdd
<1>11. SumOver(f, 1..n) \in Int BY <1>3, <1>5, SumInt
<1> QED BY <1>2, <1>3, <1>7, <1>10, <1>11 DEF r

\* The search, and what it has cost so far to go back.
Best ==
  /\ phase = "idle" => closed = {} /\ path = <<>>
  /\ phase \in {"search", "trace", "found", "failed"} /\ ~Cheap =>
       /\ Explored
       /\ query.goal \in closed <=> phase \in {"trace", "found"}
       /\ phase = "failed" /\ Cardinality(closed) < Budget => heap = {}
       /\ phase = "trace" => WayCost(path) + g[prev[path[1]]] = g[query.goal]
       /\ phase = "found" => WayCost(path) = g[query.goal]

LEMMA CallExplores ==
  ASSUME NEW q \in Searches, Call(q), Best PROVE Best'
<1>1. /\ query' = q /\ phase' = "search" /\ closed' = {}
      /\ g' = [t \in Map |-> IF t = q.start THEN 0 ELSE Null]
      /\ steps' = [t \in Map |-> IF t = q.start THEN 0 ELSE Null]
      /\ heap' = {[k |-> 20 * Far(q.start, q.goal), at |-> q.start]}
  BY DEF Call, Best
<1>2. q.start \in Map /\ q.goal \in Map /\ q.maxLen \in Nat BY DEF Searches
<1>3. Null \notin Nat BY MapAssumption
<1>4. Seen' = {q.start} BY <1>1, <1>2, <1>3 DEF Seen
<1>5. Cardinality(closed') = 0 BY <1>1, FS_EmptySet
<1>6. Depths' BY <1>1, <1>2, <1>3, <1>4, <1>5 DEF Depths
<1>7. Tree' BY <1>1, <1>4 DEF Tree, Expanded
<1>8. Frontier'
  <2> DEFINE e == [k |-> 20 * Far(q.start, q.goal), at |-> q.start]
  <2>1. Far(q.start, q.goal) \in Nat BY <1>2, FarTyped
  <2>2. g'[q.start] = 0 BY <1>1, <1>2
  <2>3. Key(0, q.start)' <= 20 * Far(q.start, q.goal) BY <1>1, <2>1 DEF Key
  <2>4. heap' = {e} /\ e.at = q.start /\ e.k = 20 * Far(q.start, q.goal) /\ e.k \in Int BY <1>1, <2>1
  <2> HIDE DEF e
  <2> QED BY <1>1, <1>4, <2>2, <2>3, <2>4 DEF Frontier, Key
<1> QED BY <1>1, <1>6, <1>7, <1>8 DEF Best, Explored

LEMMA SearchExplores ==
  ASSUME Sound, Sound', Best, ~Cheap, Search PROVE Best'
<1>1. phase \in {"search", "trace"} /\ query \in Searches /\ Chains /\ Explored
  BY DEF Search, Skip, Reach, TooFar, Expand, Fail, Trace, Top, Sound, Best
<1>2. phase' \in {"search", "trace", "found", "failed"} /\ UNCHANGED query
  BY <1>1 DEF Search, Skip, Reach, TooFar, Expand, Fail, Trace
<1>3. Chains' BY <1>2 DEF Sound
<1>4. query.goal \in Map BY <1>1, SearchParts
<1>5. CASE Expand
  <2>1. Explored' BY <1>1, <1>3, <1>5, ExpandExplores
  <2>2. phase' = "search" /\ query.goal \notin closed' BY <1>2, <1>5 DEF Expand, Best, Top
  <2> QED BY <1>2, <2>1, <2>2 DEF Best
<1>6. CASE Skip
  <2>1. PICK e \in heap : e.at \in closed /\ heap' = heap \ {e} BY <1>6 DEF Skip
  <2>2. UNCHANGED <<query, phase, g, steps, prev, closed, path>> /\ phase = "search" BY <1>6 DEF Skip, Top
  <2>3. Depths' /\ Tree' BY <1>1, <2>2 DEF Explored, Depths, Tree, Seen, Expanded, Ample, Passable
  <2>4. \A t \in Seen \ closed : Waits(t)' BY <1>1, <2>1, <2>2 DEF Explored, Frontier, Waits, Key
  <2>5. Frontier' BY <1>1, <2>1, <2>2, <2>4 DEF Explored, Frontier, Key, Seen
  <2> QED BY <1>2, <2>2, <2>3, <2>5 DEF Best, Explored
<1>7. CASE TooFar \/ Reach
  <2>1. PICK e \in heap : /\ Top(e) /\ e.at \notin closed
                          /\ heap' = heap \ {e} /\ closed' = closed \cup {e.at}
                          /\ \/ e.at # query.goal /\ steps[e.at] >= query.maxLen /\ UNCHANGED <<phase, path>>
                             \/ /\ e.at = query.goal
                                /\ \/ e.at = query.start /\ phase' = "found" /\ path' = <<>>
                                   \/ e.at # query.start /\ phase' = "trace" /\ path' = <<e.at>>
    BY <1>7 DEF TooFar, Reach
  <2>2. UNCHANGED <<query, g, steps, prev>> /\ phase = "search" BY <1>7 DEF TooFar, Reach, Top
  <2>3. First(e.at, heap') BY <1>1, <2>1, PoppedFirst
  <2>4. e.at \in Map /\ e.at \in Seen BY <2>3 DEF First, Seen
  <2>5. Explored' BY <1>1, <2>1, <2>2, <2>3, <2>4, LookExplores
  <2>6. CASE e.at # query.goal BY <1>2, <2>1, <2>2, <2>5, <2>6 DEF Best
  <2>7. CASE e.at = query.goal /\ e.at = query.start
    <3>1. WayCost(path') = 0 BY <2>1, <2>7, SumEmpty DEF WayCost
    <3>2. WayCost(path)' = 0 BY <1>2, <3>1 DEF WayCost
    <3>3. g[query.goal] = 0 BY <1>1, <2>7 DEF Chains
    <3> QED BY <1>2, <2>1, <2>2, <2>5, <2>7, <3>2, <3>3 DEF Best
  <2>8. CASE e.at = query.goal /\ e.at # query.start
    <3>1. phase' = "trace" /\ path' = <<query.goal>> BY <2>1, <2>8
    <3>2. g[query.goal] = g[prev[query.goal]] + query.cost[query.goal]
      BY <1>1, <2>4, <2>8 DEF Explored, Tree
    <3>3. query.cost[query.goal] \in Nat BY <1>1, <2>4, <2>8, SearchParts DEF Chains, Seen
    <3>4. WayCost(<<query.goal>>) = query.cost[query.goal] BY <3>3, CostOfOne
    <3>5. WayCost(path)' = query.cost[query.goal] /\ path'[1] = query.goal
      BY <1>2, <3>1, <3>4 DEF WayCost
    <3>6. g[prev[query.goal]] \in Nat BY <1>1, <2>4, <2>8 DEF Chains, Seen
    <3> QED BY <1>2, <2>1, <2>2, <2>5, <2>8, <3>1, <3>2, <3>3, <3>5, <3>6 DEF Best
  <2> QED BY <2>6, <2>7, <2>8
<1>8. CASE Fail
  <2>1. UNCHANGED <<query, g, steps, prev, heap, closed, path>> /\ phase = "search" /\ phase' = "failed"
        /\ (heap = {} \/ Cardinality(closed) >= Budget)
    BY <1>8 DEF Fail
  <2>2. Explored' BY <1>1, <2>1
    DEF Explored, Depths, Tree, Frontier, Seen, Expanded, Ample, Passable, Waits, Key
  <2>3. Cardinality(closed) \in Nat
    <3>1. closed \subseteq Map BY <1>1 DEF Explored, Tree, Seen
    <3> QED BY <3>1, MapAssumption, FS_Subset, FS_CardinalityType
  <2>4. Cardinality(closed) < Budget => heap = {} BY <2>1, <2>3, MapAssumption
  <2> QED BY <2>1, <2>2, <2>4 DEF Best
<1>9. CASE Trace
  <2> DEFINE before == prev[Head(path)]
  <2>1. /\ phase = "trace" /\ UNCHANGED <<query, g, steps, prev, heap, closed>> /\ Traced
        /\ WayCost(path) + g[prev[path[1]]] = g[query.goal] /\ query.goal \in closed
    BY <1>9 DEF Trace, Sound, Best
  <2>2. Len(path) \in Nat \ {0} /\ Head(path) = path[1] /\ path[1] \in Map /\ path \in Seq(Map)
        /\ g[path[1]] # Null /\ path[1] # query.start
    BY <2>1 DEF Traced
  <2>3. before \in Map /\ g[before] # Null /\ before \in Seen BY <1>1, <2>2 DEF Chains, Seen
  <2>4. Explored' BY <1>1, <2>1
    DEF Explored, Depths, Tree, Frontier, Seen, Expanded, Ample, Passable, Waits, Key
  <2>5. CASE before = query.start
    <3>1. phase' = "found" /\ path' = path BY <2>5, <1>9 DEF Trace
    <3>2. g[before] = 0 BY <1>1, <2>5 DEF Chains
    <3>3. \A i \in 1..Len(path) : query.cost[path[i]] \in Int
      BY <1>1, <2>1, SearchParts DEF Traced, Chains
    <3>4. WayCost(path) \in Int /\ WayCost(path)' = WayCost(path)
      <4>1. query.cost[path[1]] \in Int BY <2>2, <3>3
      <4>2. WayCost(path) \in Int BY <2>2, <3>3, <4>1, CostOfLonger
      <4> QED BY <1>2, <3>1, <4>2 DEF WayCost
    <3>5. WayCost(path)' = g[query.goal] BY <2>1, <2>2, <3>2, <3>4
    <3> QED BY <1>2, <2>1, <2>4, <3>1, <3>5 DEF Best
  <2>6. CASE before # query.start
    <3>1. phase' = "trace" /\ path' = <<before>> \o path BY <1>9, <2>1, <2>6 DEF Trace
    <3>2. g[before] = g[prev[before]] + query.cost[before] BY <1>1, <2>3, <2>6 DEF Explored, Tree
    <3>3. before \in Passable /\ g[prev[before]] \in Nat /\ prev[before] \in Map
      BY <1>1, <2>3, <2>6 DEF Chains
    <3>4. query.cost[before] \in Nat BY <1>1, <3>3, SearchParts
    <3>5. \A i \in 1..Len(path) : query.cost[path[i]] \in Int
      BY <1>1, <2>1, SearchParts DEF Traced, Chains
    <3> HIDE DEF before
    <3>6. WayCost(<<before>> \o path) = query.cost[before] + WayCost(path) /\ WayCost(path) \in Int
      BY <2>2, <2>3, <3>4, <3>5, CostOfLonger
    <3>7. WayCost(path)' = query.cost[before] + WayCost(path) BY <1>2, <3>1, <3>6 DEF WayCost
    <3>8. path'[1] = before BY <2>2, <2>3, <3>1
    <3>9. WayCost(path) + g[before] = g[query.goal] BY <2>1, <2>2 DEF before
    <3>10. WayCost(path)' + g[prev[path'[1]]] = g[query.goal]
      BY <3>2, <3>3, <3>4, <3>6, <3>7, <3>8, <3>9
    <3> QED BY <1>2, <2>1, <2>4, <3>1, <3>10 DEF Best
  <2> QED BY <2>5, <2>6
<1> QED BY <1>5, <1>6, <1>7, <1>8, <1>9 DEF Search

LEMMA BestStep == ASSUME Searched PROVE Sound /\ Best /\ [MapNext]_mapVars => Best'
<1> SUFFICES ASSUME Sound, Best, [MapNext]_mapVars PROVE Best' OBVIOUS
<1>1. Sound' BY SoundStep
<1>2. CASE UNCHANGED pathVars
  BY <1>2 DEF pathVars, Best, Explored, Depths, Tree, Frontier, Seen, Expanded, Ample, Passable, Waits,
              Key, Cheap, WayCost
<1>3. CASE Return BY <1>3 DEF Return, Best
<1>4. CASE FindPath
  <2>1. PICK q \in Queries({t \in Map : IsValley(t)}) : Call(q) BY <1>4 DEF FindPath
  <2>2. q \in Searches BY <2>1 DEF Searched
  <2> QED BY <2>1, <2>2, CallExplores
<1>5. CASE Search
  <2>1. CASE ~Cheap BY <1>1, <1>5, <2>1, SearchExplores
  <2>2. CASE Cheap
    <3>1. UNCHANGED query /\ phase' # "idle"
      BY <1>5 DEF Search, Skip, Reach, TooFar, Expand, Fail, Trace, Top
    <3> QED BY <2>2, <3>1 DEF Best, Cheap, Passable
  <2> QED BY <2>1, <2>2
<1>6. CASE Dig \/ EndOfBlock \/ \E b \in Blocks : StartBlock(b)
  <2>1. UNCHANGED pathVars BY <1>6 DEF Dig, EndOfBlock, StartBlock
  <2> QED BY <1>2, <2>1
<1>7. CASE UNCHANGED mapVars BY <1>2, <1>7 DEF mapVars, pathVars
<1> QED BY <1>3, <1>4, <1>5, <1>6, <1>7 DEF MapNext

\* The levels of the reference: pairs of a tile and a cost, from one number of
\* tiles to the next.
Pairs == Map \X Nat
Onward(e) == {<<t, e[2] + query.cost[t]>> : t \in Neighbours[e[1]] \cap Passable}
Spread(r) == r \cup UNION {Onward(e) : e \in r}
Cheaper(all) == {e \in all : \A f \in all : f[1] = e[1] => e[2] <= f[2]}
IsLevels(d, n) ==
  d = [k \in 0..n |-> IF k = 0 THEN {<<query.start, 0>>} ELSE Cheaper(Spread(d[k - 1]))]

LEMMA SpreadTyped ==
  ASSUME query \in Searches, NEW r \in SUBSET Pairs
  PROVE  Spread(r) \subseteq Pairs /\ Cheaper(Spread(r)) \subseteq Pairs
<1>1. ASSUME NEW e \in r, NEW t \in Neighbours[e[1]] \cap Passable
      PROVE  <<t, e[2] + query.cost[t]>> \in Pairs
  <2>1. t \in Map /\ query.cost[t] \in Nat /\ e[2] \in Nat BY SearchParts DEF Pairs
  <2> QED BY <2>1 DEF Pairs
<1>2. \A e \in r : Onward(e) \subseteq Pairs BY <1>1 DEF Onward
<1> QED BY <1>2 DEF Spread, Cheaper

LEMMA CheapestLevels ==
  ASSUME query \in Searches, NEW n \in Nat
  PROVE  \E d : /\ IsLevels(d, n) /\ Cheapest(n) = d[n]
               /\ \A k \in 0..n : d[k] \subseteq Pairs
<1> DEFINE first == {<<query.start, 0>>}
           V == SUBSET Pairs
           Step == [l \in 1..n + 1 |-> [r \in V |-> Cheaper(Spread(r))]]
           d == CHOOSE d : IsLevels(d, n)
<1>1. first \in V BY SearchParts DEF Pairs
<1>2. \A l \in 2..n + 1 : \A r \in V : Step[l][r] \in V /\ Step[l][r] = Cheaper(Spread(r))
  BY SpreadTyped
<1>3. \E f : IsLevels(f, n)
  <2> HIDE DEF Step, first, V
  <2>1. PICK f : Recurs(f, n + 1, first, Step) BY RecursionDefined
  <2>2. \A l \in 1..n + 1 : f[l] \in V
    <3>1. \A l \in 2..n + 1 : \A r \in V : Step[l][r] \in V BY <1>2
    <3>2. n + 1 \in Nat OBVIOUS
    <3> QED BY <1>1, <2>1, <3>1, <3>2, RecursionTyped
  <2> DEFINE h == [k \in 0..n |-> f[k + 1]]
  <2>3. \A k \in 0..n : h[k] = f[k + 1] /\ (k # 0 => h[k - 1] = f[(k + 1) - 1])
    <3>1. \A k \in 0..n : k # 0 => k - 1 \in 0..n /\ (k - 1) + 1 = (k + 1) - 1 OBVIOUS
    <3> QED BY <3>1
  <2>4. \A k \in 0..n : f[k + 1] = IF k = 0 THEN first ELSE Cheaper(Spread(h[k - 1]))
    <3> SUFFICES ASSUME NEW k \in 0..n
                 PROVE  f[k + 1] = IF k = 0 THEN first ELSE Cheaper(Spread(h[k - 1]))
      OBVIOUS
    <3>1. k + 1 \in 1..n + 1 /\ (k + 1 = 1 <=> k = 0) OBVIOUS
    <3>2. f[k + 1] = IF k + 1 = 1 THEN first ELSE Step[k + 1][f[(k + 1) - 1]]
      <4> HIDE DEF h
      <4> QED BY <2>1, <3>1, Zenon DEF Recurs
    <3>3. k # 0 => k + 1 \in 2..n + 1 /\ (k + 1) - 1 \in 1..n + 1 OBVIOUS
    <3> HIDE DEF h
    <3> QED BY <1>2, <2>2, <2>3, <3>1, <3>2, <3>3
  <2>5. h = [k \in 0..n |-> IF k = 0 THEN first ELSE Cheaper(Spread(h[k - 1]))]
    BY <2>3, <2>4
  <2> HIDE DEF h
  <2> QED BY <2>5 DEF IsLevels, first
<1>4. IsLevels(d, n) BY <1>3, Zenon
<1>5. Cheapest(n) = d[n] BY Zenon DEF Cheapest, IsLevels, Cheaper, Spread, Onward
<1> HIDE DEF d, Step
<1>6. \A k \in 0..n : d[k] \subseteq Pairs
  <2> DEFINE Out == {k \in 0..n : ~(d[k] \subseteq Pairs)}
  <2> SUFFICES ASSUME Out # {} PROVE FALSE OBVIOUS
  <2>1. Out \subseteq Nat OBVIOUS
  <2>2. PICK k \in Out : \A m \in Out : k <= m
    <3> HIDE DEF Out
    <3> QED BY <2>1, LeastNumber
  <2>3. k \in 0..n /\ ~(d[k] \subseteq Pairs) OBVIOUS
  <2>4. d[k] = IF k = 0 THEN first ELSE Cheaper(Spread(d[k - 1])) BY <1>4, <2>3 DEF IsLevels
  <2>5. k # 0 BY <1>1, <2>3, <2>4
  <2>6. k - 1 \in 0..n /\ ~(k <= k - 1) BY <2>3, <2>5
  <2>7. d[k - 1] \subseteq Pairs BY <2>2, <2>6
  <2> QED BY <2>3, <2>4, <2>5, <2>7, SpreadTyped
<1> QED BY <1>4, <1>5, <1>6

LEMMA CheaperKeeps ==
  ASSUME NEW all \in SUBSET Pairs, NEW e \in all
  PROVE  \E f \in Cheaper(all) : f[1] = e[1] /\ f[2] <= e[2]
<1> DEFINE C == {f[2] : f \in {f \in all : f[1] = e[1]}}
<1>1. C \subseteq Nat /\ C # {} BY DEF Pairs
<1>2. PICK c \in C : \A m \in C : c <= m
  <2> HIDE DEF C
  <2> QED BY <1>1, LeastNumber
<1>3. PICK f \in all : f[1] = e[1] /\ f[2] = c OBVIOUS
<1>4. \A h \in all : h[1] = e[1] => f[2] <= h[2] BY <1>2, <1>3
<1>5. f \in Cheaper(all) BY <1>3, <1>4 DEF Cheaper
<1> QED BY <1>3, <1>4, <1>5

\* Where all tiles cost the same, a way costs what its length says.
Uniform(c) == \A t \in Passable : query.cost[t] = c

LEMMA EvenIsUniform ==
  ASSUME query \in Searches, Even, ~Cheap PROVE \E c \in Nat \ {0} : Uniform(c)
<1> DEFINE I == {query.cost[t] : t \in Passable}
           f == [t \in Passable |-> query.cost[t]]
<1>1. Passable \subseteq Map /\ \A t \in Passable : query.cost[t] \in Nat \ {0} BY SearchParts DEF Cheap
<1>2. IsFiniteSet(Passable) BY <1>1, MapAssumption, FS_Subset
<1>3. f \in Surjection(Passable, I) BY DEF Surjection
<1>4. IsFiniteSet(I) BY <1>2, <1>3, FS_Surjection
<1>5. Cardinality(I) <= 1 BY DEF Even
<1>6. ASSUME NEW a \in I, NEW b \in I, a # b PROVE FALSE
  <2>1. IsFiniteSet({a}) /\ Cardinality({a}) = 1 BY FS_Singleton
  <2>2. IsFiniteSet({a} \cup {b}) /\ Cardinality({a} \cup {b}) = 2
    <3>1. b \notin {a} BY <1>6
    <3>2. IsFiniteSet({a} \cup {b}) /\ Cardinality({a} \cup {b}) = Cardinality({a}) + 1
      BY <2>1, <3>1, FS_AddElement
    <3> QED BY <2>1, <3>2
  <2>3. {a} \cup {b} \in SUBSET I BY <1>6
  <2> HIDE DEF I
  <2>4. Cardinality({a} \cup {b}) <= Cardinality(I) BY <1>4, <2>3, FS_Subset
  <2>5. Cardinality(I) \in Nat BY <1>4, FS_CardinalityType
  <2> QED BY <1>5, <2>2, <2>4, <2>5
<1>7. CASE Passable = {} BY <1>7 DEF Uniform
<1>8. CASE Passable # {}
  <2>1. PICK t \in Passable : TRUE BY <1>8
  <2>2. \A u \in Passable : query.cost[u] \in I OBVIOUS
  <2> HIDE DEF I
  <2>3. Uniform(query.cost[t]) BY <1>6, <2>1, <2>2 DEF Uniform
  <2> QED BY <1>1, <2>1, <2>3
<1> QED BY <1>7, <1>8

LEMMA UniformCost ==
  ASSUME query \in Searches, Chains, Explored, NEW c \in Nat \ {0}, Uniform(c)
  PROVE  \A t \in Seen : steps[t] \in Nat /\ g[t] = c * steps[t]
<1>1. \A t \in Seen : t \in Map /\ steps[t] \in Nat /\ g[t] \in Nat BY DEF Seen, Explored, Depths, Chains
<1> DEFINE Out == {t \in Seen : g[t] # c * steps[t]}
           Late == {steps[t] : t \in Out}
<1> SUFFICES ASSUME Out # {} PROVE FALSE BY <1>1
<1>2. Late \subseteq Nat /\ Late # {} BY <1>1
<1>3. PICK n \in Late : \A m \in Late : n <= m
  <2> HIDE DEF Late
  <2> QED BY <1>2, LeastNumber
<1>4. PICK t \in Out : steps[t] = n OBVIOUS
<1>5. t \in Seen /\ g[t] # c * steps[t] BY <1>4
<1>6. CASE t = query.start BY <1>5, <1>6 DEF Chains, Explored, Depths
<1>7. CASE t # query.start
  <2>1. /\ Expanded(prev[t]) /\ steps[t] = steps[prev[t]] + 1 /\ g[t] = g[prev[t]] + query.cost[t]
        /\ t \in Passable
    BY <1>5, <1>7 DEF Explored, Tree, Chains, Seen
  <2>2. prev[t] \in Seen BY <2>1 DEF Expanded, Explored, Tree
  <2>3. query.cost[t] = c BY <2>1 DEF Uniform
  <2>4. steps[prev[t]] \in Nat /\ ~(steps[t] <= steps[prev[t]]) BY <1>1, <2>1, <2>2
  <2>5. prev[t] \notin Out BY <1>3, <1>4, <2>4
  <2>6. g[prev[t]] = c * steps[prev[t]] BY <2>2, <2>5
  <2>7. \A m \in Nat : c * m + c = c * (m + 1) OBVIOUS
  <2> QED BY <1>5, <2>1, <2>3, <2>4, <2>6, <2>7
<1> QED BY <1>6, <1>7

\* Nothing on a level is cheaper than what was found: its tile has been looked
\* at and had no dearer way then, or the goal came before it.
Beaten(e) ==
  \/ e[1] \in closed \ {query.goal} /\ g[e[1]] <= e[2]
  \/ query.goal \in closed /\ g[query.goal] <= Key(e[2], e[1])

LEMMA BeatenOnward ==
  ASSUME query \in Searches, ~Cheap, Chains, Explored, heap = {} \/ query.goal \in closed,
         NEW e \in Pairs, Beaten(e),
         e[1] \in closed \ {query.goal} /\ g[e[1]] <= e[2] => steps[e[1]] < query.maxLen,
         NEW n \in Neighbours[e[1]] \cap Passable
  PROVE  Beaten(<<n, e[2] + query.cost[n]>>)
<1> DEFINE t == e[1]
           c == e[2]
           p == query.cost[n]
<1>1. t \in Map /\ c \in Nat /\ p \in Nat /\ n \in Map BY SearchParts DEF Pairs
<1>2. Key(c, t) \in Int /\ Key(c + p, n) \in Int /\ Key(c, t) <= Key(c + p, n) BY <1>1, Consistent
<1>3. \A u \in Seen : u \in Map /\ g[u] \in Nat BY DEF Seen, Chains
<1>4. query.goal \in closed => g[query.goal] \in Nat BY <1>3 DEF Explored, Tree
<1>5. CASE query.goal \in closed /\ g[query.goal] <= Key(c, t)
  <2> HIDE DEF t, c, p
  <2>1. g[query.goal] <= Key(c + p, n) BY <1>2, <1>4, <1>5
  <2> QED BY <1>5, <2>1 DEF Beaten, c, p
<1>6. CASE t \in closed \ {query.goal} /\ g[t] <= c
  <2>1. Expanded(t) BY <1>6 DEF Expanded
  <2>2. n \in Seen /\ g[n] <= g[t] + p BY <1>1, <2>1 DEF Explored, Tree
  <2>3. g[n] \in Nat /\ g[t] \in Nat BY <1>3, <1>6, <2>2 DEF Explored, Tree
  <2> HIDE DEF t, c, p
  <2>4. g[n] <= c + p BY <1>1, <1>6, <2>2, <2>3
  <2>5. CASE n \in closed \ {query.goal} BY <2>4, <2>5 DEF Beaten, c, p
  <2>6. CASE n \notin closed \ {query.goal}
    <3>1. Key(g[n], n) \in Int /\ Key(g[n], n) <= Key(c + p, n) BY <1>1, <2>3, <2>4, KeysCompare
    <3>2. CASE n = query.goal /\ n \in closed
      <4>1. Far(n, query.goal) = 0 BY <1>1, <3>2, FarTyped
      <4>2. Key(g[n], n) = g[n] BY <2>3, <4>1 DEF Key
      <4> QED BY <3>1, <3>2, <4>2 DEF Beaten, c, p
    <3>3. CASE n \notin closed
      <4>1. closed # {} BY <1>6
      <4>2. PICK f \in heap : f.at = n /\ f.k = Key(g[n], n)
        BY <2>2, <3>3, <4>1 DEF Explored, Frontier, Waits
      <4>3. query.goal \in closed /\ query.goal \in Map BY <4>2, SearchParts
      <4>4. Key(g[query.goal], query.goal) <= Key(g[n], n) BY <4>2, <4>3 DEF Explored, Frontier
      <4>5. Far(query.goal, query.goal) = 0 BY <4>3, FarTyped
      <4>6. Key(g[query.goal], query.goal) = g[query.goal] BY <1>4, <4>3, <4>5 DEF Key
      <4>7. g[query.goal] <= Key(c + p, n) BY <1>2, <1>4, <3>1, <4>3, <4>4, <4>6
      <4> QED BY <4>3, <4>7 DEF Beaten, c, p
    <3> QED BY <2>6, <3>2, <3>3
  <2> QED BY <2>5, <2>6
<1> QED BY <1>5, <1>6 DEF Beaten

LEMMA LevelsBeaten ==
  ASSUME query \in Searches, ~Cheap, Chains, Explored, heap = {} \/ query.goal \in closed,
         query.start \in closed, Even \/ Ample,
         NEW n \in Nat, n <= query.maxLen, NEW d, IsLevels(d, n), \A k \in 0..n : d[k] \subseteq Pairs
  PROVE  \A k \in 0..n : \A e \in d[k] : Beaten(e)
<1> DEFINE Good(k) == \A e \in d[k] : Beaten(e) /\ \A c \in Nat \ {0} : Uniform(c) => e[2] <= c * k
           Out == {k \in 0..n : ~Good(k)}
<1> SUFFICES ASSUME Out # {} PROVE FALSE OBVIOUS
<1>1. Out \subseteq Nat OBVIOUS
<1>2. PICK k \in Out : \A m \in Out : k <= m
  <2> HIDE DEF Out
  <2> QED BY <1>1, LeastNumber
<1>3. k \in 0..n /\ ~Good(k) OBVIOUS
<1>4. d[k] = IF k = 0 THEN {<<query.start, 0>>} ELSE Cheaper(Spread(d[k - 1])) BY <1>3 DEF IsLevels
<1>5. k # 0
  <2> SUFFICES ASSUME k = 0 PROVE Good(k) BY <1>3
  <2>1. d[k] = {<<query.start, 0>>} BY <1>4
  <2>2. query.start \in Map /\ g[query.start] = 0 BY SearchParts DEF Chains
  <2>3. query.start = query.goal => Key(0, query.start) = 0 BY <2>2, FarTyped DEF Key
  <2>4. Beaten(<<query.start, 0>>) BY <2>2, <2>3 DEF Beaten
  <2> QED BY <2>1, <2>4
<1>6. k - 1 \in 0..n /\ ~(k <= k - 1) /\ d[k] = Cheaper(Spread(d[k - 1])) BY <1>3, <1>4, <1>5
<1>7. Good(k - 1) /\ d[k - 1] \subseteq Pairs BY <1>2, <1>6
<1>8. ASSUME NEW e \in d[k - 1] PROVE Beaten(e) /\ \A c \in Nat \ {0} : Uniform(c) => e[2] <= c * k
  <2>1. Beaten(e) /\ \A c \in Nat \ {0} : Uniform(c) => e[2] <= c * (k - 1) BY <1>7
  <2>2. \A c \in Nat : c * (k - 1) \in Nat /\ c * k \in Nat /\ c * (k - 1) <= c * k BY <1>6
  <2>3. e[2] \in Nat BY <1>7 DEF Pairs
  <2> QED BY <2>1, <2>2, <2>3
<1>9. ASSUME NEW f \in d[k - 1], NEW t \in Neighbours[f[1]] \cap Passable
      PROVE  LET e == <<t, f[2] + query.cost[t]>>
             IN  Beaten(e) /\ \A c \in Nat \ {0} : Uniform(c) => e[2] <= c * k
  <2>1. f \in Pairs /\ f[2] \in Nat /\ Beaten(f) BY <1>7 DEF Pairs
  <2>2. \A c \in Nat \ {0} : Uniform(c) => f[2] <= c * (k - 1) BY <1>7
  <2>3. ASSUME f[1] \in closed \ {query.goal}, g[f[1]] <= f[2] PROVE steps[f[1]] < query.maxLen
    <3>1. CASE Ample BY <2>3, <3>1 DEF Explored, Depths
    <3>2. CASE Even
      <4>1. PICK c \in Nat \ {0} : Uniform(c) BY <3>2, EvenIsUniform
      <4>2. f[1] \in Seen BY <2>3 DEF Explored, Tree
      <4>3. steps[f[1]] \in Nat /\ g[f[1]] = c * steps[f[1]] BY <4>1, <4>2, UniformCost
      <4>4. f[2] <= c * (k - 1) BY <2>2, <4>1
      <4>5. c * steps[f[1]] \in Nat /\ c * (k - 1) \in Nat /\ k - 1 \in Int BY <1>6, <4>3
      <4>6. c * steps[f[1]] <= c * (k - 1) BY <2>1, <2>3, <4>3, <4>4, <4>5
      <4>7. steps[f[1]] <= k - 1 BY <4>3, <4>5, <4>6, Cancel
      <4>8. query.maxLen \in Nat BY DEF Searches
      <4> QED BY <1>3, <4>3, <4>7, <4>8
    <3> QED BY <3>1, <3>2
  <2>4. Beaten(<<t, f[2] + query.cost[t]>>) BY <2>1, <2>3, BeatenOnward
  <2>5. ASSUME NEW c \in Nat \ {0}, Uniform(c) PROVE f[2] + query.cost[t] <= c * k
    <3>1. query.cost[t] = c /\ f[2] <= c * (k - 1) BY <2>2, <2>5 DEF Uniform
    <3>2. c * (k - 1) + c = c * k /\ c * (k - 1) \in Nat BY <1>6
    <3> QED BY <2>1, <3>1, <3>2
  <2> QED BY <2>4, <2>5
<1>10. \A e \in d[k] : e \in d[k - 1] \/ \E f \in d[k - 1] : \E t \in Neighbours[f[1]] \cap Passable :
                                              e = <<t, f[2] + query.cost[t]>>
  BY <1>6 DEF Cheaper, Spread, Onward
<1> QED BY <1>3, <1>8, <1>9, <1>10

\* Every way that was found is met on the level of its length.
LEMMA LevelsReach ==
  ASSUME query \in Searches, Chains, Explored,
         NEW n \in Nat, NEW d, IsLevels(d, n), \A k \in 0..n : d[k] \subseteq Pairs
  PROVE  \A k \in 0..n : \A t \in Seen : steps[t] <= k => \E e \in d[k] : e[1] = t /\ e[2] <= g[t]
<1> DEFINE Good(k) == \A t \in Seen : steps[t] <= k => \E e \in d[k] : e[1] = t /\ e[2] <= g[t]
           Out == {k \in 0..n : ~Good(k)}
<1> SUFFICES ASSUME Out # {} PROVE FALSE OBVIOUS
<1>1. Out \subseteq Nat OBVIOUS
<1>2. PICK k \in Out : \A m \in Out : k <= m
  <2> HIDE DEF Out
  <2> QED BY <1>1, LeastNumber
<1>3. k \in 0..n /\ ~Good(k) OBVIOUS
<1>4. d[k] = IF k = 0 THEN {<<query.start, 0>>} ELSE Cheaper(Spread(d[k - 1])) BY <1>3 DEF IsLevels
<1>5. PICK t \in Seen : steps[t] <= k /\ ~\E e \in d[k] : e[1] = t /\ e[2] <= g[t] BY <1>3
<1> HIDE DEF Good, Out
<1>6. \A u \in Seen : u \in Map /\ g[u] \in Nat /\ steps[u] \in Nat BY DEF Seen, Chains, Explored, Depths
<1>7. t # query.start =>
        /\ prev[t] \in Seen /\ steps[t] = steps[prev[t]] + 1 /\ g[t] = g[prev[t]] + query.cost[t]
        /\ t \in Neighbours[prev[t]] \cap Passable /\ query.cost[t] \in Nat
  BY <1>5, SearchParts DEF Explored, Tree, Chains, Seen, Expanded
<1>8. g[query.start] = 0 /\ query.start \in Seen /\ steps[query.start] = 0
  BY SearchParts, MapAssumption DEF Chains, Seen, Explored, Depths
<1>9. CASE k = 0
  <2>1. t = query.start BY <1>5, <1>6, <1>7, <1>9
  <2>2. <<query.start, 0>> \in d[k] BY <1>4, <1>9
  <2> QED BY <1>5, <1>8, <2>1, <2>2
<1>10. CASE k # 0
  <2>1. k - 1 \in 0..n /\ ~(k <= k - 1) /\ d[k] = Cheaper(Spread(d[k - 1])) BY <1>3, <1>4, <1>10
  <2>2. k - 1 \notin Out /\ d[k - 1] \subseteq Pairs BY <1>2, <2>1
  <2>3. Good(k - 1) BY <2>1, <2>2 DEF Out
  <2>4. \E e \in Spread(d[k - 1]) : e[1] = t /\ e[2] \in Nat /\ e[2] <= g[t]
    <3>1. CASE t = query.start
      <4>1. \E e \in d[k - 1] : e[1] = t /\ e[2] <= g[t] BY <1>8, <2>1, <2>3, <3>1 DEF Good
      <4> QED BY <2>2, <4>1 DEF Spread, Pairs
    <3>2. CASE t # query.start
      <4>1. steps[prev[t]] <= k - 1 /\ prev[t] \in Seen BY <1>3, <1>5, <1>6, <1>7, <3>2
      <4>2. PICK f \in d[k - 1] : f[1] = prev[t] /\ f[2] <= g[prev[t]] BY <2>3, <4>1 DEF Good
      <4>3. f[2] \in Nat BY <2>2 DEF Pairs
      <4>4. <<t, f[2] + query.cost[t]>> \in Onward(f) BY <1>7, <3>2, <4>2 DEF Onward
      <4>5. f[2] + query.cost[t] \in Nat /\ f[2] + query.cost[t] <= g[t]
        BY <1>6, <1>7, <3>2, <4>1, <4>2, <4>3
      <4> QED BY <4>4, <4>5 DEF Spread
    <3> QED BY <3>1, <3>2
  <2>5. PICK e \in Spread(d[k - 1]) : e[1] = t /\ e[2] \in Nat /\ e[2] <= g[t] BY <2>4
  <2>6. Spread(d[k - 1]) \in SUBSET Pairs /\ Cheaper(Spread(d[k - 1])) \subseteq Pairs BY <2>2, SpreadTyped
  <2>7. PICK f \in Cheaper(Spread(d[k - 1])) : f[1] = e[1] /\ f[2] <= e[2] BY <2>6, CheaperKeeps
  <2>8. f[2] \in Nat BY <2>6 DEF Pairs
  <2>9. f \in d[k] /\ f[1] = t /\ f[2] <= g[t] BY <1>6, <2>1, <2>5, <2>7, <2>8
  <2> QED BY <1>5, <2>9
<1> QED BY <1>9, <1>10

\* A level has one cost for a tile.
LEMMA LevelsUnique ==
  ASSUME NEW n \in Nat, NEW d, IsLevels(d, n), NEW k \in 0..n, d[k] \subseteq Pairs,
         NEW e \in d[k], NEW f \in d[k], e[1] = f[1]
  PROVE  e[2] = f[2]
<1>1. d[k] = IF k = 0 THEN {<<query.start, 0>>} ELSE Cheaper(Spread(d[k - 1])) BY DEF IsLevels
<1>2. CASE k = 0 BY <1>1, <1>2
<1>3. CASE k # 0
  <2>1. e[2] <= f[2] /\ f[2] <= e[2] BY <1>1, <1>3 DEF Cheaper
  <2>2. e[2] \in Nat /\ f[2] \in Nat BY DEF Pairs
  <2> QED BY <2>1, <2>2
<1> QED BY <1>2, <1>3

LEMMA SearchOptimal ==
  ASSUME Sound, Best PROVE RouteCheapest
<1> DEFINE n == AtMost(query.maxLen, Cardinality(Map))
<1> SUFFICES ASSUME ~Cheap, Even \/ Ample, phase = "found" \/ (phase = "failed" /\ Cardinality(closed) < Budget)
             PROVE  {e[2] : e \in {e \in Cheapest(n) : e[1] = query.goal}} =
                      IF phase = "failed" THEN {} ELSE {WayCost(path)}
  BY DEF RouteCheapest
<1>1. query \in Searches /\ Chains /\ Explored BY DEF Sound, Best
<1>2. query.start \in Map /\ query.goal \in Map /\ query.maxLen \in Nat
  BY <1>1, SearchParts DEF Searches
<1>3. Cardinality(Map) \in Nat BY MapAssumption, FS_CardinalityType
<1>4. n \in Nat /\ n <= query.maxLen /\ n <= Cardinality(Map) /\ (n = query.maxLen \/ n = Cardinality(Map))
  BY <1>2, <1>3 DEF AtMost
<1> HIDE DEF n
<1>5. PICK d : IsLevels(d, n) /\ Cheapest(n) = d[n] /\ \A k \in 0..n : d[k] \subseteq Pairs
  BY <1>1, <1>4, CheapestLevels
<1>6. n \in 0..n /\ d[n] \subseteq Pairs BY <1>4, <1>5
<1>7. heap = {} \/ query.goal \in closed BY DEF Best
<1>8. query.start \in closed
  <2>1. query.start \in Seen BY <1>1, <1>2, MapAssumption DEF Chains, Seen
  <2>2. closed # {} => query.start \in closed BY <1>1 DEF Explored, Tree
  <2>3. heap = {} => query.start \in closed BY <1>1, <2>1 DEF Explored, Frontier, Waits
  <2> QED BY <1>7, <2>2, <2>3
<1>9. \A e \in d[n] : Beaten(e)
  <2>1. \A k \in 0..n : \A e \in d[k] : Beaten(e) BY <1>1, <1>4, <1>5, <1>7, <1>8, LevelsBeaten
  <2> QED BY <1>6, <2>1
<1>10. CASE phase = "failed"
  <2>1. query.goal \notin closed BY <1>10 DEF Best
  <2>2. \A e \in d[n] : e[1] # query.goal BY <1>9, <2>1 DEF Beaten
  <2> QED BY <1>5, <1>10, <2>2
<1>11. CASE phase = "found"
  <2>1. query.goal \in closed /\ WayCost(path) = g[query.goal] BY <1>11 DEF Best
  <2>2. query.goal \in Seen /\ g[query.goal] \in Nat BY <1>1, <2>1 DEF Explored, Tree, Seen, Chains
  <2>3. steps[query.goal] <= n
    <3>1. closed \subseteq Map BY <1>1 DEF Explored, Tree, Seen
    <3>2. Cardinality(closed) \in Nat /\ Cardinality(closed) <= Cardinality(Map)
      BY <3>1, MapAssumption, FS_Subset, FS_CardinalityType
    <3>3. steps[query.goal] \in Nat /\ steps[query.goal] <= Cardinality(closed) /\ steps[query.goal] <= query.maxLen
      BY <1>1, <2>2 DEF Explored, Depths, Seen
    <3> QED BY <1>2, <1>3, <1>4, <3>2, <3>3
  <2>4. PICK e \in d[n] : e[1] = query.goal /\ e[2] <= g[query.goal]
    <3>1. \A k \in 0..n : \A t \in Seen : steps[t] <= k => \E e \in d[k] : e[1] = t /\ e[2] <= g[t]
      BY <1>1, <1>4, <1>5, LevelsReach
    <3> QED BY <1>6, <2>2, <2>3, <3>1
  <2>5. e[2] \in Nat BY <1>6 DEF Pairs
  <2>6. g[query.goal] <= e[2]
    <3>1. g[query.goal] <= Key(e[2], e[1]) BY <1>9, <2>4 DEF Beaten
    <3>2. Far(query.goal, query.goal) = 0 BY <1>2, FarTyped
    <3>3. Key(e[2], e[1]) = e[2] BY <2>4, <2>5, <3>2 DEF Key
    <3> QED BY <3>1, <3>3
  <2>7. e[2] = g[query.goal] BY <2>2, <2>4, <2>5, <2>6
  <2>8. \A f \in d[n] : f[1] = query.goal => f[2] = g[query.goal]
    BY <1>4, <1>5, <1>6, <2>4, <2>7, LevelsUnique
  <2> QED BY <1>5, <1>11, <2>1, <2>4, <2>7, <2>8
<1> QED BY <1>10, <1>11

\* Where no tile costs less than the estimate per tile and either all cost the
\* same or the limit of the length is none, what findPath returns is a cheapest
\* way, and null means that there is none, unless the search was given up.
THEOREM RoutesAreCheapest == ASSUME Searched PROVE MapSpec => []RouteCheapest
<1>1. MapInit => Best BY DEF MapInit, Idle, Best
<1>2. Sound /\ [MapNext]_mapVars => Sound' BY SoundStep
<1>3. Sound /\ Best /\ [MapNext]_mapVars => Best' BY BestStep
<1>4. Sound /\ Best => RouteCheapest BY SearchOptimal
<1> QED BY <1>1, <1>2, <1>3, <1>4, SoundInit, PTL DEF MapSpec

-----------------------------------------------------------------------------
(* Valleys.                                                                *)

Fitting(b) ==
  /\ IsFiniteSet(valley[b]) /\ Cardinality(valley[b]) <= Longest
  /\ \A t \in valley[b] : InBlock(b, t)

\* A valley has no more tiles than it has still to go at least.
Dug ==
  /\ DOMAIN valley = Blocks
  /\ \A b \in Blocks : valley[b] # Null => Fitting(b)
  /\ digger # Null =>
       /\ digger.block \in Blocks /\ Fitting(digger.block)
       /\ digger.left \in Nat /\ Cardinality(valley[digger.block]) + digger.left <= Longest

LEMMA StartBlockKeeps ==
  ASSUME Dug, NEW b \in Blocks, StartBlock(b) PROVE Dug'
<1>1. valley' = [valley EXCEPT ![b] = {}] BY DEF StartBlock
<1>2. valley'[b] = {} /\ \A c \in Blocks \ {b} : valley'[c] = valley[c] BY <1>1 DEF Dug
<1>3. IsFiniteSet({}) /\ Cardinality({}) = 0 BY FS_EmptySet
<1>4. Fitting(b)' BY <1>2, <1>3, LengthsAssumption DEF Fitting
<1>5. \A c \in Blocks : valley'[c] # Null => Fitting(c)' BY <1>2, <1>4 DEF Dug, Fitting
<1>6. digger' # Null => digger'.block = b /\ digger'.left \in Lengths BY DEF StartBlock
<1>7. digger' # Null => digger'.left \in Nat /\ 0 + digger'.left <= Longest
  <2>1. \A n \in Lengths : n \in Nat /\ 0 + n <= Longest BY LengthsAssumption
  <2> QED BY <1>6, <2>1
<1>8. DOMAIN valley' = Blocks BY <1>1 DEF Dug
<1> QED BY <1>2, <1>3, <1>4, <1>5, <1>6, <1>7, <1>8 DEF Dug

LEMMA DigKeeps ==
  ASSUME Dug, Dig PROVE Dug'
<1> DEFINE b == digger.block
           more == {digger.at} \ Free
<1>1. /\ digger # Null /\ digger.left > 0 /\ InBlock(b, digger.at)
      /\ valley' = [valley EXCEPT ![b] = @ \cup more]
  BY DEF Dig, Fits
<1>2. /\ b \in Blocks /\ Fitting(b) /\ digger.left \in Nat
      /\ Cardinality(valley[b]) + digger.left <= Longest
  BY <1>1 DEF Dug
<1>3. digger'.block = b /\ digger'.left = digger.left - 1
  <2>1. CASE digger' = [digger EXCEPT !.at = Ahead(digger.at, digger.dir), !.left = @ - 1]
    BY <2>1
  <2>2. ASSUME NEW turn \in {-1, 1},
               digger' = [digger EXCEPT !.dir = Turned(digger, turn), !.bends = @ + 1,
                                        !.at = Ahead(digger.at, Turned(digger, turn)), !.left = @ - 1]
        PROVE  digger'.block = b /\ digger'.left = digger.left - 1
    BY <2>2
  <2> QED BY <2>1, <2>2 DEF Dig
<1>4. valley'[b] = valley[b] \cup more /\ \A c \in Blocks \ {b} : valley'[c] = valley[c]
  BY <1>1, <1>2 DEF Dug
<1> HIDE DEF b
<1>5. IsFiniteSet(valley'[b]) /\ Cardinality(valley'[b]) <= Cardinality(valley[b]) + 1
  <2>1. IsFiniteSet(valley[b]) /\ Cardinality(valley[b]) \in Nat
    BY <1>2, FS_CardinalityType DEF Fitting
  <2>2. more = {} \/ more = {digger.at} OBVIOUS
  <2>3. CASE more = {} \/ digger.at \in valley[b]
    <3>1. valley'[b] = valley[b] BY <1>4, <2>2, <2>3
    <3> QED BY <2>1, <3>1
  <2>4. CASE more = {digger.at} /\ digger.at \notin valley[b]
    <3>1. valley'[b] = valley[b] \cup {digger.at} BY <1>4, <2>4
    <3>2. IsFiniteSet(valley'[b]) /\ Cardinality(valley'[b]) = Cardinality(valley[b]) + 1
      BY <2>1, <2>4, <3>1, FS_AddElement
    <3> QED BY <2>1, <3>2
  <2> QED BY <2>2, <2>3, <2>4
<1>6. Cardinality(valley'[b]) \in Nat BY <1>5, FS_CardinalityType
<1>7. Cardinality(valley[b]) \in Nat BY <1>2, FS_CardinalityType DEF Fitting
<1>8. Cardinality(valley'[b]) + digger'.left <= Longest /\ digger'.left \in Nat
  BY <1>1, <1>2, <1>3, <1>5, <1>6, <1>7, LengthsAssumption
<1>9. Fitting(b)'
  <2>1. Cardinality(valley'[b]) <= Longest BY <1>6, <1>8, LengthsAssumption
  <2>2. \A t \in valley'[b] : InBlock(b, t) BY <1>1, <1>2, <1>4 DEF Fitting
  <2>3. b' = b BY <1>3 DEF b
  <2> QED BY <1>5, <2>1, <2>2, <2>3 DEF Fitting
<1>10. \A c \in Blocks : valley'[c] # Null => Fitting(c)'
  <2> SUFFICES ASSUME NEW c \in Blocks, valley'[c] # Null PROVE Fitting(c)' OBVIOUS
  <2>1. CASE c = b BY <1>3, <1>9, <2>1 DEF Fitting, b
  <2>2. CASE c # b BY <1>4, <2>2 DEF Dug, Fitting
  <2> QED BY <2>1, <2>2
<1>11. DOMAIN valley' = Blocks BY <1>1 DEF Dug
<1> QED BY <1>2, <1>3, <1>8, <1>9, <1>10, <1>11 DEF Dug, b

LEMMA DugStep == Dug /\ [MapNext]_mapVars => Dug'
<1> SUFFICES ASSUME Dug, [MapNext]_mapVars PROVE Dug' OBVIOUS
<1>1. CASE UNCHANGED landVars BY <1>1 DEF landVars, Dug, Fitting
<1>2. CASE EndOfBlock BY <1>2 DEF EndOfBlock, Dug, Fitting
<1>3. CASE FindPath BY <1>1, <1>3 DEF FindPath
<1>4. CASE UNCHANGED mapVars BY <1>1, <1>4 DEF mapVars, landVars
<1> QED BY <1>1, <1>2, <1>3, <1>4, StartBlockKeeps, DigKeeps DEF MapNext

\* A valley keeps to its block, where isValley looks for its tiles, and to
\* VALLEY_MAX_LEN (valleyOfBlock of terrain.ts).
THEOREM ValleysKeepToBlocks == MapSpec => []ValleysInTheirBlocks
<1>1. MapInit => Dug BY DEF MapInit, Dug, Fitting
<1>2. Dug => ValleysInTheirBlocks BY DEF Dug, Fitting, ValleysInTheirBlocks
<1> QED BY <1>1, <1>2, DugStep, PTL DEF MapSpec

=============================================================================
