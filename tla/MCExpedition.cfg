CONSTANTS
  p1 = p1
  p2 = p2
  p3 = p3
  c1 = c1
  c0 = c0
  None = None
  Players <- MCPlayers
  Clans <- MCClans
  OldClans = {}
  Capacity = 2
  Brought = {2}
  Tiles <- MCTiles
  CampTiles <- MCCampTiles
  Wild = {}
  MaxUnits = 2
  Batches = {2}
  MaxPath = 2
  LongMoveMax = 1
  MaxCrashes = 1
SPECIFICATION Spec
SYMMETRY Symmetry
INVARIANTS
  StandsOnOwnLand
  UnitsAccounted
PROPERTIES
  ImplementsTerritory
CHECK_DEADLOCK FALSE
