CONSTANTS
  m = m
  z1 = z1
  z2 = z2
  c1 = c1
  c2 = c2
  Manual <- OneManual
  Online <- OneOnline
  AdminTakes <- OneManual
  Callbacks <- TwoCallbacks
  MaxCrashes = 0
SPECIFICATION Spec
INVARIANTS
  CreditedOnce
CHECK_DEADLOCK FALSE
