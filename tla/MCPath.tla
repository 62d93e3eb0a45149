------------------------------- MODULE MCPath -------------------------------
(* Routes over two blocks of four by four tiles and the valleys in them.    *)
EXTENDS Valley

MCMap == (0..7) \X (0..3)
MCBlocks == {<<0, 0>>, <<1, 0>>}

\* Searches on the maps where three or more tiles of one column are closed:
\* from one end of the map to the other, over open land with hills and
\* creatures in the way, partly over land of one's own, or only there; and over
\* open land the admin has set no supplies for.
Hill == (2..3) \X (0..2)
Lair == {<<x, y>> \in MCMap : x \in {1, 4, 6} /\ y \in {0, 2}}
OwnSets == {(0..2) \X {0} \cup {2} \X (0..3), MCMap \ (Hill \cup {<<5, 1>>})}
Cost(map, f(_)) == [t \in map |-> f(t)]
MCQueries(blocked) ==
  LET map == MCMap \ blocked
      wall == \E x \in 1..6 : Cardinality({y \in 0..3 : <<x, y>> \in blocked}) >= 3
      Long(own) == Cost(map, LAMBDA t : IF t \in own THEN 1 ELSE IF t \in Hill THEN 80
                                      ELSE IF t \in Lair THEN 49 ELSE 40)
      Gratis(own) == Cost(map, LAMBDA t : IF t \in own THEN 1 ELSE IF t \in Hill THEN 80
                                        ELSE IF t \in Lair THEN 9 ELSE 0)
      OwnRoad(own) == Cost(map \cap own, LAMBDA t : 20)
  IN  IF ~wall \/ Cardinality(blocked) > 4 THEN {}
      ELSE {Query(<<0, 0>>, <<7, 0>>, Long(own), 32) : own \in {{}} \cup OwnSets}
           \cup {Query(<<0, 0>>, <<7, 0>>, Gratis(own), 32) : own \in {{}} \cup OwnSets}
           \cup {Query(<<0, 0>>, goal, OwnRoad(own), n) : goal \in {<<7, 0>>, <<2, 2>>}, own \in OwnSets, n \in {7, 32}}

=============================================================================
