CONSTANTS
  None = None
  Tiles <- MCTiles
  Terrain <- MCTerrain
  Camp <- MCCamp
  TombSites <- MCTombSites
  FirstTombs <- MCFirstTombs
  TombsTotal = 2
  UnitOrder <- MCUnitOrder
  AllUnits <- MCAllUnits
  Price <- MCPrice
  Power <- MCPower
  Supply <- MCSupply
  Monsters <- MCMonsters
  Gate <- MCGate
  Xp <- MCXp
  Share <- MCShare
  Difficulty = 1
  TopLevel = 3
  TreasureArtifacts = 0
  StartCoins = 4
  CoinToman = 10
  ClanCreateCost = 1
  WithdrawMin = 1
  EnergyMax = 1
  EnergyPerMove = 1
  EnergyRegen = 1
  FreeTravelMax = 1
  RestCost = 1
  LongMoveMax = 2
  LongMoveStep = 0
  MaxPath = 3
  MaxUnits = 2
  Batches = {1, 2}
  Amounts = {10}
  MaxDeposits = 10
  MaxKept = 0
  MaxArmy = 4
SPECIFICATION Spec
INVARIANTS
  SanitizeIdle
  MoneyAccounted
  ArtifactsOfTombs
  LossesProportional
CHECK_DEADLOCK FALSE
