-------------------------------- MODULE Path --------------------------------
(***************************************************************************)
(* findPath of src/rules/path.ts, which every move of a caravan is planned *)
(* with: A* over the eight neighbours of a tile, one action per turn of    *)
(* its loops.  The heap is a set of keys and tiles of which any smallest   *)
(* one may come first, since the order among equals is not defined.        *)
(*                                                                         *)
(* Costs are whole numbers of twentieths of a coin: a tile of one's own    *)
(* costs 0.05 in a long move, and the estimate is 0.5 per tile of distance *)
(* (1 for the first tile pushed).                                          *)
(***************************************************************************)
EXTENDS Rules, FiniteSets, Functions

CONSTANTS
  Map,         \* tiles of the map, <<x, y>>
  Budget,      \* how many tiles are looked at before the search is given up
  Null         \* null, undefined

ASSUME MapAssumption == Map \subseteq Int \X Int /\ IsFiniteSet(Map) /\ Budget \in Nat /\ Null \notin Int

VARIABLES
  query,       \* the parameters: start, goal, cost of each passable tile, maxLen
  phase,       \* idle, search, trace (back from the goal), found, failed
  g, steps,    \* per tile: cost and length of the best way to it so far; Null if there is none
  prev,        \* per tile: the tile before it on that way
  heap,        \* tiles to look at, with their keys
  closed,      \* tiles looked at
  path         \* the path, from its end

pathVars == <<query, phase, g, steps, prev, heap, closed, path>>

-----------------------------------------------------------------------------
Abs(n) == IF n < 0 THEN -n ELSE n
Far(s, t) == IF Abs(s[1] - t[1]) < Abs(s[2] - t[2]) THEN Abs(s[2] - t[2]) ELSE Abs(s[1] - t[1])
Neighbours == [t \in Map |-> {n \in Map : Far(n, t) = 1}]
Passable == DOMAIN query.cost

\* What the tiles to look at are ordered by.
Key(n, t) == n + 10 * Far(t, query.goal)

Query(start, goal, cost, maxLen) == [start |-> start, goal |-> goal, cost |-> cost, maxLen |-> maxLen]

\* Between two calls.
Idle ==
  /\ query = Null /\ phase = "idle"
  /\ g = <<>> /\ steps = <<>> /\ prev = <<>>
  /\ heap = {} /\ closed = {} /\ path = <<>>

Call(q) ==
  /\ phase = "idle"
  /\ query' = q
  /\ phase' = "search"
  /\ g' = [t \in Map |-> IF t = q.start THEN 0 ELSE Null]
  /\ steps' = [t \in Map |-> IF t = q.start THEN 0 ELSE Null]
  /\ prev' = [t \in Map |-> Null]
  /\ heap' = {[k |-> 20 * Far(q.start, q.goal), at |-> q.start]}
  /\ UNCHANGED <<closed, path>>

\* The next turn of the loop looks at e.
Top(e) ==
  /\ phase = "search"
  /\ Cardinality(closed) < Budget
  /\ e \in heap /\ \A f \in heap : e.k <= f.k

\* Looked at before, by a better way.
Skip == \E e \in heap :
  /\ Top(e)
  /\ e.at \in closed
  /\ heap' = heap \ {e}
  /\ UNCHANGED <<query, phase, g, steps, prev, closed, path>>

Reach == \E e \in heap :
  /\ Top(e)
  /\ e.at \notin closed /\ e.at = query.goal
  /\ \/ e.at = query.start /\ phase' = "found" /\ path' = <<>>
     \/ e.at # query.start /\ phase' = "trace" /\ path' = <<e.at>>
  /\ heap' = heap \ {e} /\ closed' = closed \cup {e.at}
  /\ UNCHANGED <<query, g, steps, prev>>

TooFar == \E e \in heap :
  /\ Top(e)
  /\ e.at \notin closed /\ e.at # query.goal
  /\ steps[e.at] >= query.maxLen
  /\ heap' = heap \ {e} /\ closed' = closed \cup {e.at}
  /\ UNCHANGED <<query, phase, g, steps, prev, path>>

\* Mutant of Better: what is known of a neighbour is not compared.
BetterAny(t) == Neighbours[t] \cap Passable

\* Mutant of Better: the first way to a tile is kept.
BetterFirst(t) == {n \in Neighbours[t] \cap Passable : g[n] = Null}

\* Neighbours a cheaper way leads to through t.
Better(t) == {n \in Neighbours[t] \cap Passable : g[n] = Null \/ g[t] + query.cost[n] < g[n]}

Expand == \E e \in heap :
  LET t == e.at
      better == Better(t)
      cost(n) == g[t] + query.cost[n]
  IN
  /\ Top(e)
  /\ t \notin closed /\ t # query.goal
  /\ steps[t] < query.maxLen
  /\ g' = [n \in Map |-> IF n \in better THEN cost(n) ELSE g[n]]
  /\ steps' = [n \in Map |-> IF n \in better THEN steps[t] + 1 ELSE steps[n]]
  /\ prev' = [n \in Map |-> IF n \in better THEN t ELSE prev[n]]
  /\ heap' = (heap \ {e}) \cup {[k |-> Key(cost(n), n), at |-> n] : n \in better}
  /\ closed' = closed \cup {t}
  /\ UNCHANGED <<query, phase, path>>

Fail ==
  /\ phase = "search"
  /\ heap = {} \/ Cardinality(closed) >= Budget
  /\ phase' = "failed"
  /\ UNCHANGED <<query, g, steps, prev, heap, closed, path>>

\* Back from the goal; the start itself is not part of the path.
Trace ==
  /\ phase = "trace"
  /\ LET before == prev[Head(path)] IN
     \/ before = query.start /\ phase' = "found" /\ UNCHANGED path
     \/ before # query.start /\ path' = <<before>> \o path /\ UNCHANGED phase
  /\ UNCHANGED <<query, g, steps, prev, heap, closed>>

Return ==
  /\ phase \in {"found", "failed"}
  /\ query' = Null /\ phase' = "idle"
  /\ g' = <<>> /\ steps' = <<>> /\ prev' = <<>>
  /\ heap' = {} /\ closed' = {} /\ path' = <<>>

Search == Skip \/ Reach \/ TooFar \/ Expand \/ Fail \/ Trace

-----------------------------------------------------------------------------
(* Reference definitions.                                                  *)

Way(s) == /\ s # <<>>
          /\ \A i \in DOMAIN s : s[i] \in Passable
          /\ s[1] \in Neighbours[query.start]
          /\ \A i \in 1..Len(s) - 1 : s[i + 1] \in Neighbours[s[i]]
          /\ s[Len(s)] = query.goal

WayCost(s) == SumOver([i \in DOMAIN s |-> query.cost[s[i]]], DOMAIN s)

\* Tiles with the cost of the cheapest way to them of up to n tiles.
Cheapest(n) ==
  LET Longer(e) == {<<t, e[2] + query.cost[t]>> : t \in Neighbours[e[1]] \cap Passable}
      d[k \in 0..n] ==
        IF k = 0 THEN {<<query.start, 0>>}
        ELSE LET r == d[k - 1]
                 all == r \cup UNION {Longer(e) : e \in r}
             IN  {e \in all : \A f \in all : f[1] = e[1] => e[2] <= f[2]}
  IN  d[n]

-----------------------------------------------------------------------------
(* Properties.                                                             *)

Cheap == \E t \in Passable : query.cost[t] < 10
Even == Cardinality({query.cost[t] : t \in Passable}) <= 1
Ample == query.maxLen >= Cardinality(Map)

\* What is returned is a way from the caravan to its goal, neighbour by
\* neighbour over passable tiles, and going back from the goal meets no tile
\* twice (so it ends), though the tiles before a tile may be exchanged after
\* it has been looked at.
PathSound ==
  /\ phase \in {"trace", "found"} => IsInjective(path)
  /\ phase = "found" /\ query.start # query.goal => Way(path)

\* Where no tile costs less than the estimate per tile, as on the own roads and
\* in long moves over foreign land, and the search was not given up for want of
\* Budget: the way found is a cheapest one and one is found whenever there is
\* one, of maxLen tiles if all tiles cost the same, and of any length if maxLen
\* is no limit.
RouteCheapest ==
  /\ phase = "found" \/ (phase = "failed" /\ Cardinality(closed) < Budget)
  /\ ~Cheap /\ (Even \/ Ample)
  => LET best == {e[2] : e \in {e \in Cheapest(AtMost(query.maxLen, Cardinality(Map))) :
                                 e[1] = query.goal}}
     IN  best = IF phase = "failed" THEN {} ELSE {WayCost(path)}

=============================================================================
