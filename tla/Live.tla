-------------------------------- MODULE Live --------------------------------
(***************************************************************************)
(* What one page in a browser shows of the game, and how it keeps up: the  *)
(* hub of the server (server/src/api/ws.ts), the reconnecting socket       *)
(* (src/net/client.ts) and the fetches of src/ui/app.ts.  Messages are     *)
(* delivered in order but lost with the connection; answers to fetches are *)
(* taken at the server at one moment and used by the page at another, in   *)
(* any order.                                                              *)
(*                                                                         *)
(* Of the game the model keeps version numbers: how often the player's     *)
(* caravan set out or ended (odd: on the way), how often the land of an    *)
(* area changed, and the number of the season, which stands for its map.   *)
(* The page is one that has been booted; drawing, sounds, sheets, the      *)
(* settings it shows prices by and the texts of events are left out.       *)
(***************************************************************************)
EXTENDS Naturals, SequencesExt

CONSTANTS
  Views,       \* areas of the map the camera can be in, too far apart to share tiles
  Home,        \* the area the player's caravan walks in
  None,        \* null
  MaxCalls,    \* bound of the model: fetches in flight, per kind
  MaxTrips,    \* bound of the model: actions of the player that are not refused, and ends of trips
  MaxScrolls,  \* bound of the model: moves of the camera from one area to another
  MaxEvents    \* bound of the model: what other players, the admin and the network do

Kinds == {"me", "region", "session", "act"}

ASSUME LiveAssumption == Home \in Views /\ DOMAIN MaxCalls = Kinds

VARIABLES
  srv,     \* the database, as far as the page shows it
  hub,     \* the server's end of the socket: a Client, or None
  sock,    \* the browser's end: closed, connecting, open
  live,    \* Live.region: the area to be subscribed to
  up, down,\* messages under way to the server, to the page
  cookie,  \* the session cookie of the browser
  page,    \* fields of App
  calls,   \* fetches in flight, per kind, with their answers once the server gave them
  events,  \* how many of those were done
  outrun   \* history: since it was loaded the page used an answer of a season before its own

server == <<srv, hub>>
pageVars == <<srv, hub, sock, live, up, down, cookie, page, calls, events, outrun>>

-----------------------------------------------------------------------------
(* Helpers.                                                                *)

OnTheWay(trip) == trip # None /\ trip % 2 = 1

Happens == events < MaxEvents /\ events' = events + 1

Room(kinds) == \A k \in kinds : Len(calls[k]) < MaxCalls[k]
Call(at) == [at |-> at, ans |-> None]
Fetch(cs, kinds, at) == [k \in Kinds |-> IF k \in kinds THEN Append(cs[k], Call(at)) ELSE cs[k]]

\* Sent to whoever follows the area, and to the sockets of the player.
ToArea(msg, v) == IF hub # None /\ hub.region = v THEN <<msg>> ELSE <<>>
ToPlayer(msg) == IF hub # None /\ hub.player THEN <<msg>> ELSE <<>>
ToAll(msg) == IF hub # None THEN <<msg>> ELSE <<>>

\* applySeason.  The terrain is generated again whenever the season changes,
\* from the map the message or answer names, so it is that of p.season.
ApplySeason(p, season) == [p EXCEPT !.season = season]

SetMe(p, me) == ApplySeason([p EXCEPT !.me = me.trip], me.season)

NewPage(season, view) ==
  [me |-> None, season |-> season, map |-> [at |-> None, tile |-> 0], view |-> view,
   busy |-> FALSE, reload |-> FALSE, scrolls |-> 0]

NoCalls == [k \in Kinds |-> <<>>]
\* What boot leaves in flight: /me of somebody with a session.
BootCalls(loggedIn) == Fetch(NoCalls, IF loggedIn THEN {"me"} ELSE {}, None)

-----------------------------------------------------------------------------
PageInit ==
  /\ srv = [trip |-> 0, tile |-> [v \in Views |-> 0], season |-> 1]
  /\ hub = None /\ sock = "closed" /\ live = None
  /\ up = <<>> /\ down = <<>>
  /\ cookie \in BOOLEAN
  /\ page = NewPage(1, Home)
  /\ calls = BootCalls(cookie)
  /\ events = 0 /\ outrun = FALSE

-----------------------------------------------------------------------------
(* The socket.                                                             *)

\* The server attaches the socket: whose it is depends on the cookie of the
\* request, and stays so.
Connect ==
  /\ sock = "closed"
  /\ sock' = "connecting"
  /\ hub' = [player |-> cookie, region |-> None]
  /\ down' = <<[type |-> "hello", season |-> srv.season]>>
  /\ UNCHANGED <<srv, live, up, cookie, page, calls, events, outrun>>

\* Mutant of Open: what was subscribed to before is not sent again.
OpenSilently ==
  /\ sock = "connecting"
  /\ sock' = "open"
  /\ UNCHANGED <<srv, hub, live, up, down, cookie, page, calls, events, outrun>>

Open ==
  /\ sock = "connecting"
  /\ sock' = "open"
  /\ up' = IF live = None THEN up ELSE Append(up, live)
  /\ UNCHANGED <<srv, hub, live, down, cookie, page, calls, events, outrun>>

\* The connection breaks, and what was under way is lost.
Drop ==
  /\ sock # "closed"
  /\ Happens
  /\ sock' = "closed" /\ hub' = None
  /\ up' = <<>> /\ down' = <<>>
  /\ UNCHANGED <<srv, live, cookie, page, calls, outrun>>

ServerReceives ==
  /\ up # <<>>
  /\ hub' = [hub EXCEPT !.region = Head(up)]
  /\ up' = Tail(up)
  /\ UNCHANGED <<srv, sock, live, down, cookie, page, calls, events, outrun>>

-----------------------------------------------------------------------------
(* The game goes on.                                                       *)

\* startMove and cancelMove, and the steps of the tick, tell the area about
\* the caravan; the tick also tells its player what happened.
CaravanNews == ToArea([type |-> "caravan"], Home)

StepDue ==
  /\ OnTheWay(srv.trip)
  /\ srv' = [srv EXCEPT !.trip = @ + 1]
  /\ down' = down \o ToPlayer([type |-> "event"]) \o CaravanNews
  /\ UNCHANGED <<hub, sock, live, up, cookie, page, calls, events, outrun>>

TileTaken(v) ==
  /\ Happens
  /\ srv' = [srv EXCEPT !.tile[v] = @ + 1]
  /\ down' = down \o ToArea([type |-> "tile", at |-> v, tile |-> srv.tile[v] + 1], v)
  /\ UNCHANGED <<hub, sock, live, up, cookie, page, calls, outrun>>

TombTaken ==
  /\ Happens
  /\ down' = down \o ToAll([type |-> "tomb"]) \o ToAll([type |-> "season", season |-> srv.season])
  /\ UNCHANGED <<srv, hub, sock, live, up, cookie, page, calls, outrun>>

\* The admin starts a season: no caravans, other land, another map.
NewSeason ==
  /\ Happens
  /\ srv' = [srv EXCEPT !.season = @ + 1, !.trip = @ + (@ % 2), !.tile = [v \in Views |-> @[v] + 1]]
  /\ down' = down \o ToAll([type |-> "reset", season |-> srv.season + 1])
  /\ UNCHANGED <<hub, sock, live, up, cookie, page, calls, outrun>>

-----------------------------------------------------------------------------
(* Fetches: asked, answered by the server, used by the page.               *)

\* What views.ts answers from the database as it is then.
RegionView(s, at) == [tile |-> s.tile[at]]
SeasonView(s) == [season |-> s.season]
MeView(s) == [trip |-> s.trip, season |-> s.season]

Snapshot(s, k, at) ==
  CASE k = "region" -> RegionView(s, at)
    [] k = "session" -> SeasonView(s)
    [] OTHER -> MeView(s)

Waiting(k, i) == i \in DOMAIN calls[k] /\ calls[k][i].ans = None
AnsweredFrom(s, k, i) == calls' = [calls EXCEPT ![k][i].ans = Snapshot(s, k, calls[k][i].at)]

Serve(k, i) ==
  /\ Waiting(k, i) /\ k # "act"
  /\ AnsweredFrom(srv, k, i)
  /\ UNCHANGED <<srv, hub, sock, live, up, down, cookie, page, events, outrun>>

\* startMove or cancelMove, and then what /me would answer.
ServeAct(i) ==
  /\ Waiting("act", i)
  /\ srv.trip < MaxTrips
  /\ srv' = [srv EXCEPT !.trip = @ + 1]
  /\ down' = down \o CaravanNews
  /\ AnsweredFrom(srv', "act", i)
  /\ UNCHANGED <<hub, sock, live, up, cookie, page, events, outrun>>

\* The map is replaced and its area subscribed to.
RegionAnswer(at, ans) ==
  /\ page' = [page EXCEPT !.map = [at |-> at, tile |-> ans.tile]]
  /\ live' = at
  /\ up' = IF live # at /\ sock = "open" THEN Append(up, at) ELSE up

Done(k, i) == calls' = [calls EXCEPT ![k] = RemoveAt(@, i)]

\* The server refuses an action, and says why.
Refuse(i) ==
  /\ Waiting("act", i)
  /\ Done("act", i)
  /\ page' = [page EXCEPT !.busy = FALSE]
  /\ UNCHANGED <<srv, hub, sock, live, up, down, cookie, events, outrun>>

AnswerRegion(i) ==
  LET c == calls["region"][i] IN
  /\ i \in DOMAIN calls["region"] /\ c.ans # None
  /\ Done("region", i)
  /\ RegionAnswer(c.at, c.ans)
  /\ UNCHANGED <<srv, hub, sock, down, cookie, events, outrun>>

Answer(k, i) ==
  LET ans == calls[k][i].ans IN
  /\ k # "region" /\ i \in DOMAIN calls[k] /\ ans # None
  /\ Done(k, i)
  /\ page' = CASE k = "me" -> SetMe(page, ans)
               [] k = "act" -> SetMe([page EXCEPT !.busy = FALSE], ans)
               [] k = "session" -> ApplySeason(page, ans.season)
  /\ outrun' = (outrun \/ ans.season < page.season)
  /\ UNCHANGED <<srv, hub, sock, live, up, down, cookie, events>>

\* No answer, though the server may have acted.
Fail(k, i) ==
  /\ i \in DOMAIN calls[k]
  /\ Happens
  /\ Done(k, i)
  /\ page' = IF k = "act" THEN [page EXCEPT !.busy = FALSE] ELSE page
  /\ UNCHANGED <<srv, hub, sock, live, up, down, cookie, outrun>>

-----------------------------------------------------------------------------
(* The page: onLive, the loop of 250 ms, and the player.                   *)


\* A reset loads the page again a moment later.
Receive ==
  /\ down # <<>> /\ sock = "open"
  /\ down' = Tail(down)
  /\ LET m == Head(down)
         asks == CASE m.type = "event" -> {"me", "region"}
                   [] m.type = "caravan" /\ page.me # None -> {"me"}
                   [] m.type = "tomb" -> {"session"}
                   [] OTHER -> {}
     IN /\ Room(asks)
        /\ calls' = Fetch(calls, asks, page.view)
        /\ page' = CASE m.type \in {"hello", "season"} -> ApplySeason(page, m.season)
                     [] m.type = "reset" -> [page EXCEPT !.reload = TRUE]
                     [] m.type = "tile" /\ m.at = page.map.at -> [page EXCEPT !.map.tile = m.tile]
                     [] OTHER -> page
  /\ UNCHANGED <<srv, hub, sock, live, up, cookie, events, outrun>>

\* Loaded again: everything the page knew is gone, and its socket and fetches.
Reload ==
  /\ page.reload
  /\ page' = [NewPage(srv.season, Home) EXCEPT !.scrolls = page.scrolls]
  /\ calls' = BootCalls(cookie)
  /\ sock' = "closed" /\ hub' = None /\ live' = None
  /\ up' = <<>> /\ down' = <<>>
  /\ outrun' = FALSE
  /\ UNCHANGED <<srv, cookie, events>>

\* Mutant of LoopMe: the fallback is for a page without a connection.
LoopMeOffline ==
  /\ OnTheWay(page.me) /\ srv.trip # page.me /\ sock # "open"
  /\ Room({"me"})
  /\ calls' = Fetch(calls, {"me"}, None)
  /\ UNCHANGED <<srv, hub, sock, live, up, down, cookie, page, events, outrun>>

\* The fallback, three seconds after the end of the step that is shown, when
\* the server has ended it too.
LoopMe ==
  /\ OnTheWay(page.me) /\ srv.trip # page.me
  /\ Room({"me"})
  /\ calls' = Fetch(calls, {"me"}, None)
  /\ UNCHANGED <<srv, hub, sock, live, up, down, cookie, page, events, outrun>>

\* Mutant of LoopRegion: the map is fetched again only when the camera left it.
LoopRegionFar ==
  /\ page.map.at # page.view
  /\ Room({"region"})
  /\ calls' = Fetch(calls, {"region"}, page.view)
  /\ UNCHANGED <<srv, hub, sock, live, up, down, cookie, page, events, outrun>>

\* Every ten seconds, or sooner when the camera is far from what is shown.
LoopRegion ==
  /\ Room({"region"})
  /\ calls' = Fetch(calls, {"region"}, page.view)
  /\ UNCHANGED <<srv, hub, sock, live, up, down, cookie, page, events, outrun>>

\* The tab becomes visible.
Visible ==
  /\ cookie /\ Room({"me", "region"})
  /\ Happens
  /\ calls' = Fetch(calls, {"me", "region"}, page.view)
  /\ UNCHANGED <<srv, hub, sock, live, up, down, cookie, page, outrun>>

Scroll ==
  /\ page.scrolls < MaxScrolls
  /\ \E v \in Views \ {page.view} : page' = [page EXCEPT !.view = v, !.scrolls = @ + 1]
  /\ UNCHANGED <<srv, hub, sock, live, up, down, cookie, calls, events, outrun>>

\* startMove, cancelMove: one action of the player at a time.
Act ==
  /\ page.me # None /\ ~page.busy
  /\ Room({"act"})
  /\ page' = [page EXCEPT !.busy = TRUE]
  /\ calls' = Fetch(calls, {"act"}, None)
  /\ UNCHANGED <<srv, hub, sock, live, up, down, cookie, events, outrun>>

\* login and register: the answer is what /me answers; the socket stays as it
\* was opened.
Login ==
  /\ ~cookie /\ ~page.busy
  /\ Room({"region"})
  /\ cookie' = TRUE
  /\ page' = SetMe(page, MeView(srv))
  /\ calls' = Fetch(calls, {"region"}, page.view)
  /\ UNCHANGED <<srv, hub, sock, live, up, down, events, outrun>>

-----------------------------------------------------------------------------
PageNext ==
  \/ Connect \/ Open \/ Drop \/ ServerReceives
  \/ StepDue \/ TombTaken \/ NewSeason
  \/ \E v \in Views : TileTaken(v)
  \/ \E k \in Kinds : \E i \in 1..MaxCalls[k] : Serve(k, i) \/ Answer(k, i) \/ Fail(k, i)
  \/ \E i \in 1..MaxCalls["act"] : ServeAct(i) \/ Refuse(i)
  \/ \E i \in 1..MaxCalls["region"] : AnswerRegion(i)
  \/ Receive \/ Reload \/ LoopMe \/ LoopRegion
  \/ Visible \/ Scroll \/ Act \/ Login

\* The socket reconnects by itself, messages and answers that are not lost
\* arrive, the loop runs, and the server's timer ends a trip that is due.
\* Receiving is strongly fair since only the bound on fetches ever disables it.
Fairness ==
  /\ WF_pageVars(Connect) /\ WF_pageVars(Open) /\ WF_pageVars(ServerReceives)
  /\ SF_pageVars(Receive) /\ WF_pageVars(Reload)
  /\ \A k \in Kinds : \A i \in 1..MaxCalls[k] : WF_pageVars(Serve(k, i)) /\ WF_pageVars(Answer(k, i))
  /\ \A i \in 1..MaxCalls["region"] : WF_pageVars(AnswerRegion(i))
  /\ \A i \in 1..MaxCalls["act"] : WF_pageVars(ServeAct(i) \/ Refuse(i))
  /\ WF_pageVars(LoopMe) /\ WF_pageVars(LoopRegion)
  /\ WF_pageVars(StepDue)

FairSpec == PageInit /\ [][PageNext]_pageVars /\ Fairness

-----------------------------------------------------------------------------
(* Properties.                                                             *)

\* Through reconnects and fetches that answer out of order, the hub sends the
\* area the page has its map of, as soon as what the page sent has arrived.
SubscriptionKept == sock = "open" => Last(<<hub.region>> \o up) = live

\* A trip or step that is over at the server does not stay on the page: also
\* where the events were lost, or never sent since the player logged in after
\* the socket was opened.
CaravanShownToTheEnd ==
  \A n \in 1..MaxTrips :
    (page.me = n /\ OnTheWay(n) /\ srv.trip > n) ~> (page.me # n)

\* The map the page shows becomes and stays the land in front of the camera.
MapConverges == <>[](page.map = [at |-> page.view, tile |-> srv.tile[page.view]])


=============================================================================
