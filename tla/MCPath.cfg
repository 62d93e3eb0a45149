SPECIFICATION MapSpec
CONSTANTS
  Null = Null
  Map <- MCMap
  Budget = 32
  Block = 4
  Blocks <- MCBlocks
  Lengths = {2, 4}
  Longest = 4
  Free = {}
  MaxBends = 1
  Queries <- MCQueries
INVARIANTS
  PathSound
  RouteCheapest
  ValleysInTheirBlocks
  NobodyWalledOff
CHECK_DEADLOCK FALSE
