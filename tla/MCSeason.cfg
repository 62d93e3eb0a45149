CONSTANTS
  p1 = p1
  p2 = p2
  base = base
  easy = easy
  hard = hard
  Clan = Clan
  Default = base
  Players <- TwoPlayers
  Settings <- ThreeSettings
  MaxSeason = 3
  MaxCrashes = 2
SPECIFICATION FairSpec
INVARIANTS
  TerrainOfSeason
PROPERTIES
  NeverCutShort
  LockLasts
  SeasonEnds
CHECK_DEADLOCK FALSE
