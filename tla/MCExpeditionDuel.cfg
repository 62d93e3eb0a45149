CONSTANTS
  p1 = p1
  p2 = p2
  p3 = p3
  c1 = c1
  c0 = c0
  None = None
  Players <- DuelPlayers
  Clans <- DuelClans
  OldClans <- DuelClans
  Capacity = 2
  Brought = {}
  Tiles <- DuelTiles
  CampTiles <- DuelCampTiles
  Wild <- DuelWild
  MaxUnits = 3
  Batches = {3}
  MaxPath = 3
  LongMoveMax = 2
  MaxCrashes = 1
SPECIFICATION FairSpec
INVARIANTS
  NoOrphanLock
  OneCaravanPerTile
  NextTileAdjacent
PROPERTIES
  CaravanEnds
CHECK_DEADLOCK FALSE
