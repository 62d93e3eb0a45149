CONSTANTS
  m = m
  z1 = z1
  z2 = z2
  c1 = c1
  c2 = c2
  Manual <- OneManual
  Online <- TwoOnline
  AdminTakes <- Everything
  Callbacks <- TwoCallbacks
  MaxCrashes = 2
SPECIFICATION Spec
INVARIANTS
  CreditBacked
  CreditedOnceUnlessRaced
  CreditShowsUnlessRaced
CHECK_DEADLOCK FALSE
