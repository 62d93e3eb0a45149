-------------------------------- MODULE Panel --------------------------------
(***************************************************************************)
(* The admin's page in one browser (src/src/admin.ts) together with the    *)
(* seasons it governs (module Season): what its status said last, the      *)
(* draft, the form on the screen, and the status it asks for again every   *)
(* fifteen seconds, whose answer may be late.  The overrides other browsers *)
(* save are Season's SaveSettings and come at any time.                    *)
(*                                                                         *)
(* Settings here are records of the map and of the numbers; a setting that *)
(* is absent from the overrides has the default's value, so both are the   *)
(* same.  Pages about players, money and support change none of this.      *)
(***************************************************************************)
EXTENDS Season

CONSTANTS
  Fields,   \* FIELDS: the numbers that can be set
  Values,   \* values validateField lets pass
  Bad,      \* whatever it refuses
  None,
  MaxTyped  \* bound of the model: edits between two renderings

ASSUME PanelAssumption ==
  /\ Settings \subseteq [map : {s.map : s \in Settings}, numbers : [Fields -> Values]]
  /\ Bad \notin Values
  /\ \A s, r \in Settings : [s EXCEPT !.map = r.map] \in Settings   \* validateSettings: no rule for both

VARIABLES
  view,    \* the tab: season, numbers, or one that shows neither
  status,  \* what the last answer said: overrides, and whether the panel is locked
  draft,   \* the numbers and the map as edited
  screen,  \* what was rendered and typed since: map, numbers, whether it may be edited
  poll,    \* the answer to the timer that is under way; None if there is none
  typed    \* edits since the last rendering, for the bound only

page == <<view, status, draft, screen>>
panelVars == <<vars, view, status, draft, screen, poll, typed>>

Views == {"season", "numbers", "status"}
Maps == {s.map : s \in Settings}
Numbers == [Fields -> Values]

-----------------------------------------------------------------------------
\* GET /admin/status.
Answer == [overrides |-> overrides, locked |-> Locked]

Rendered(d, l) == [map |-> d.map, numbers |-> d.numbers, editable |-> ~l]
Render(d, l) == screen' = Rendered(d, l) /\ typed' = 0

PanelInit ==
  /\ Init
  /\ view = "status"
  /\ status = Answer /\ draft = overrides
  /\ screen = Rendered(overrides, Locked)
  /\ poll = None /\ typed = 0

\* loadStatus and render, at the end of a handler.
Reload == status' = Answer' /\ draft' = overrides' /\ Render(overrides', Locked')

\* Requests that change something are served.
Open == up /\ ~Locked

\* A request that is refused, or does not arrive: render alone.
Refused == UNCHANGED <<vars, status, draft>> /\ Render(draft, status.locked)

-----------------------------------------------------------------------------
(* The page.                                                               *)

OpenTab(v) ==
  /\ view' = v
  /\ (ShowStatus /\ Reload) \/ (~up /\ Refused)
  /\ UNCHANGED poll

ChooseMap(m) ==
  /\ view = "season" /\ ~status.locked
  /\ draft' = [draft EXCEPT !.map = m]
  /\ Render(draft', status.locked)
  /\ UNCHANGED <<vars, view, status, poll>>

\* Mutant of Collect: what the timer has put into the draft is taken.
CollectNothing(d, numbers) == d

\* collectDraft: the valid numbers of the form.
Collect(d, numbers) ==
  [d EXCEPT !.numbers = [f \in Fields |-> IF numbers[f] = Bad THEN @[f] ELSE numbers[f]]]

TypeNumber(f, v) ==
  /\ view = "numbers" /\ screen.editable
  /\ typed < MaxTyped
  /\ screen' = [screen EXCEPT !.numbers[f] = v]
  /\ draft' = Collect(draft, screen'.numbers)
  /\ typed' = typed + 1
  /\ UNCHANGED <<vars, view, status, poll>>

ResetField(f) ==
  /\ view = "numbers" /\ screen.editable
  /\ draft' = [draft EXCEPT !.numbers[f] = Default.numbers[f]]
  /\ Render(draft', status.locked)
  /\ UNCHANGED <<vars, view, status, poll>>

ResetAll ==
  /\ view = "numbers" /\ screen.editable
  /\ draft' = [draft EXCEPT !.numbers = Default.numbers]
  /\ Render(draft', status.locked)
  /\ UNCHANGED <<vars, view, status, poll>>

\* saveOverrides: POST /admin/settings, which validateSettings may refuse too.
Save(o) ==
  \/ o \in Settings /\ SaveSettings(o) /\ Reload
  \/ ~(Open /\ o \in Settings) /\ Refused

SaveMap ==
  /\ view = "season" /\ screen.editable
  /\ Save([status.overrides EXCEPT !.map = draft.map])
  /\ UNCHANGED <<view, poll>>

\* validateField on every number, validateSettings on all of them: what does
\* not pass is not sent, and the form is rendered from the draft again.
SaveNumbers ==
  LET d == Collect(draft, screen.numbers)
      sent == screen.numbers \in Numbers /\ d \in Settings
  IN
  /\ view = "numbers" /\ screen.editable
  /\ \/ sent /\ SaveSettings(d) /\ Reload
     \/ ~(sent /\ Open) /\ draft' = d /\ Render(d, status.locked) /\ UNCHANGED <<vars, status>>
  /\ UNCHANGED <<view, poll>>

ClearSaved ==
  /\ view = "status" /\ screen.editable
  /\ (SaveSettings(Default) /\ Reload) \/ (~Open /\ Refused)
  /\ UNCHANGED <<view, poll>>

ClickStart ==
  /\ view = "season" /\ screen.editable
  /\ (StartSeason /\ Reload) \/ (~Open /\ Refused)
  /\ UNCHANGED <<view, poll>>

-----------------------------------------------------------------------------
(* The timer: it renders only if the lock is another than it was before.   *)

Poll ==
  /\ poll = None
  /\ ShowStatus
  /\ poll' = [answer |-> Answer, before |-> status.locked]
  /\ UNCHANGED <<page, typed>>

PollAnswer ==
  /\ poll # None
  /\ status' = poll.answer /\ draft' = poll.answer.overrides
  /\ IF poll.answer.locked # poll.before THEN Render(draft', poll.answer.locked)
     ELSE UNCHANGED <<screen, typed>>
  /\ poll' = None
  /\ UNCHANGED <<vars, view>>

PollLost == poll # None /\ poll' = None /\ UNCHANGED <<vars, page, typed>>

-----------------------------------------------------------------------------
Page ==
  \/ \E v \in Views : OpenTab(v)
  \/ \E m \in Maps : ChooseMap(m)
  \/ \E f \in Fields : ResetField(f) \/ \E v \in Values \cup {Bad} : TypeNumber(f, v)
  \/ ResetAll \/ SaveMap \/ SaveNumbers \/ ClearSaved \/ ClickStart
  \/ Poll \/ PollAnswer \/ PollLost

\* The game, other browsers and the server go on; a browser that starts a
\* season or saves settings is Page's.
World == Next /\ UNCHANGED <<page, poll, typed>>

PanelSpec == PanelInit /\ [][Page \/ World]_panelVars

-----------------------------------------------------------------------------
(* Properties.                                                             *)

\* A save of numbers stores those of the form if the panel is open and they go
\* together, and none otherwise, although the draft they are collected into
\* may have been put back by the timer and its status be older than what
\* another browser has saved.
NumbersAsShown ==
  [][SaveNumbers => overrides'.numbers =
       IF Open /\ \E o \in Settings : o.numbers = screen.numbers THEN screen.numbers ELSE overrides.numbers]_panelVars

=============================================================================
