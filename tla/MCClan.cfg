CONSTANTS
  p1 = p1
  p2 = p2
  c1 = c1
  None = None
  Players <- TwoPlayers
  Clans <- OneClan
  SeasonMaxPlayers = 1
  ClanMaxMembers = 2
  MaxSeasons = 3
  MaxPeriod = 1
  MaxWeight = 1
  MaxXp = 1
SPECIFICATION Spec
INVARIANTS
  OneCommander
  ControlNeedsOffice
  ClanXpDominates
  RequestsAnswerable
PROPERTIES
  NoOneLeaves
CHECK_DEADLOCK FALSE
