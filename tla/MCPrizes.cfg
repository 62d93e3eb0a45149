SPECIFICATION Spec
CONSTANTS
  None = None
  Players = {p1, p2}
  Clans = {c1}
  Tiles <- MCTiles
  Terrain <- MCTerrain
  CampSites <- MCCampSites
  TombSites <- MCTombSites
  FirstTombs <- MCFirstTombs
  TombsTotal = 2
  Spaced = TRUE
  Monsters <- MCMonsters
  Gate <- MCGate
  TreasureArtifacts = 1
  Xp <- MCXp
  TopLevel = 2
  Share <- MCShare
  MaxPath = 2
  Purchases = {10}
  MaxPool = 10
  Brought = {0}
  MaxWeight = 1
SYMMETRY MCSymmetry
INVARIANTS
  PrizesWithinPool
  PaidInFull
  TombsOpen
  TreasureNeedsLevel
CHECK_DEADLOCK FALSE
