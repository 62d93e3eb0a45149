------------------------------- MODULE Valley -------------------------------
(***************************************************************************)
(* The valleys of createTerrain (src/rules/terrain.ts), the only tiles     *)
(* nobody can walk on: every block of the map may hold one, laid tile by   *)
(* tile.  Hashes of the seed are left open: every value they may have is   *)
(* a behaviour.  Routes over the map are looked for (module Path) when all *)
(* blocks are laid, which the code does on demand, block by block.         *)
(***************************************************************************)
EXTENDS Path

CONSTANTS
  Block,       \* valleyBlock: width of a block
  Blocks,      \* blocks of the map, <<bx, by>>
  Lengths,     \* lengths a valley may have, VALLEY_MIN_LEN..VALLEY_MAX_LEN
  Longest,     \* VALLEY_MAX_LEN
  Free,        \* tiles within VALLEY_FREE_RADIUS of the centre
  MaxBends,    \* four
  Queries(_)   \* the searches made on a map without the given tiles

ASSUME LengthsAssumption == Longest \in Nat /\ Lengths \subseteq 1..Longest

VARIABLES
  valley,      \* per block: the tiles of its valley; Null if it is not laid yet
  digger       \* the valley being laid: block, position, directions, tiles to go; or Null

landVars == <<valley, digger>>
mapVars == <<valley, digger, query, phase, g, steps, prev, heap, closed, path>>

-----------------------------------------------------------------------------
Dirs8 == << <<1, 0>>, <<1, 1>>, <<0, 1>>, <<-1, 1>>, <<-1, 0>>, <<-1, -1>>, <<0, -1>>, <<1, -1>> >>
Dirs == 0..7
Ahead(t, dir) == <<t[1] + Dirs8[dir + 1][1], t[2] + Dirs8[dir + 1][2]>>
InBlock(b, t) == t[1] \div Block = b[1] /\ t[2] \div Block = b[2]

\* Mutant of Starts: the first tile may be on the edge of the block.
StartsAnywhere(b) == {t \in Map : InBlock(b, t)}

\* The first tile of a valley: not on the edge of its block.
Starts(b) == {t \in Map : \A i \in 1..2 : t[i] - Block * b[i] \in 1..Block - 2}

Laid == \A b \in Blocks : valley[b] # Null
ValleyTiles == UNION {valley[b] : b \in {b \in Blocks : valley[b] # Null}}
\* isValley: a tile is looked up in its own block only.
IsValley(t) == \E b \in Blocks : InBlock(b, t) /\ t \in valley[b]

MapInit ==
  /\ valley = [b \in Blocks |-> Null] /\ digger = Null
  /\ Idle

\* A block begins: without a valley, or with one that has a place, a
\* direction and a length.
StartBlock(b) ==
  /\ digger = Null /\ valley[b] = Null
  /\ valley' = [valley EXCEPT ![b] = {}]
  /\ \/ digger' = Null
     \/ \E t \in Starts(b), dir \in Dirs, len \in Lengths :
          digger' = [block |-> b, at |-> t, base |-> dir, dir |-> dir, left |-> len, bends |-> 0]
  /\ UNCHANGED pathVars

\* The deviation a bend would lead to, in eighths of a turn, as the code has
\* it: its offset is 12, which is not a multiple of 8.
Deviation(d, turn) ==
  LET dev == (d.dir + turn - d.base + 12) % 8 IN IF dev > 4 THEN dev - 8 ELSE dev

\* A bend is made if it stays within two eighths of the first direction.
Turned(d, turn) == IF Abs(Deviation(d, turn)) <= 2 THEN (d.dir + turn + 8) % 8 ELSE d.dir

\* Mutant of Fits: the border of the block is not looked at.
FitsMap(d) == d.at \in Map

Fits(d) == InBlock(d.block, d.at) /\ d.at \in Map

\* One tile, and perhaps a bend after it.
Dig ==
  LET d == digger IN
  /\ d # Null /\ d.left > 0
  /\ Fits(d)
  /\ valley' = [valley EXCEPT ![d.block] = @ \cup ({d.at} \ Free)]
  /\ \/ digger' = [d EXCEPT !.at = Ahead(d.at, d.dir), !.left = @ - 1]
     \/ /\ d.bends < MaxBends
        /\ \E turn \in {-1, 1} :
             digger' = [d EXCEPT !.dir = Turned(d, turn), !.bends = @ + 1,
                                 !.at = Ahead(d.at, Turned(d, turn)), !.left = @ - 1]
  /\ UNCHANGED pathVars

\* Nothing left to lay, or the border of the block or of the map.
EndOfBlock ==
  LET d == digger IN
  /\ d # Null
  /\ d.left = 0 \/ ~Fits(d)
  /\ digger' = Null
  /\ UNCHANGED <<valley, pathVars>>

\* A caravan's move is planned on the map.
FindPath ==
  /\ Laid /\ digger = Null
  /\ \E q \in Queries({t \in Map : IsValley(t)}) : Call(q)
  /\ UNCHANGED landVars

MapNext ==
  \/ \E b \in Blocks : StartBlock(b)
  \/ Dig \/ EndOfBlock \/ FindPath
  \/ (Search \/ Return) /\ UNCHANGED landVars

MapSpec == MapInit /\ [][MapNext]_mapVars

-----------------------------------------------------------------------------
(* Properties.                                                             *)

\* A valley is found again where it was laid: a tile is looked up in the block
\* it lies in, so no valley may grow out of its block, and it has no more
\* tiles than a valley may have.
ValleysInTheirBlocks ==
  \A b \in Blocks : valley[b] # Null =>
    /\ \A t \in valley[b] : InBlock(b, t)
    /\ Cardinality(valley[b]) <= Longest

\* Tiles of S that can be reached from t over tiles of S.
Reached(S, t) ==
  LET More(R) == R \cup UNION {Neighbours[u] \cap S : u \in R}
      r[R \in SUBSET S] == LET more == More(R) IN IF more = R THEN R ELSE r[more]
  IN  r[{t}]

\* Valleys never wall anybody off, however those of neighbouring blocks meet:
\* every tile that is not a valley can be reached from every other.
NobodyWalledOff ==
  Laid /\ digger = Null /\ phase = "idle" =>
    LET open == {t \in Map : ~IsValley(t)}
        t == CHOOSE t \in open : TRUE
    IN  Reached(open, t) = open

=============================================================================
