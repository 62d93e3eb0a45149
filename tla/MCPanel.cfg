CONSTANTS
  Players = {p1}
  Clan = Clan
  Settings <- MCSettings
  Default <- MCDefault
  MaxSeason = 2
  MaxCrashes = 0
  Fields <- MCFields
  Values = {0, 1, 2}
  Bad = Bad
  None = None
  MaxTyped = 1
SPECIFICATION PanelSpec
PROPERTIES
  NumbersAsShown
CHECK_DEADLOCK FALSE
