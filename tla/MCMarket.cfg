CONSTANTS
  p1 = p1
  p2 = p2
  p3 = p3
  t1 = t1
  t2 = t2
  None = None
  Players <- ThreePlayers
  Tombs <- TwoTombs
  ArtifactValue = 1
  Amounts = {1, 2}
  Credits = {2}
  MaxIssued = 2
  MaxWithdrawals = 1
  MaxCrashes = 1
SPECIFICATION Spec
SYMMETRY Symmetry
INVARIANTS
  BlockedMatchesOffers
  MoneyConserved
  OffersBacked
  SettledAtClose
CHECK_DEADLOCK FALSE
