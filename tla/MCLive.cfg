SPECIFICATION FairSpec
CONSTANTS
  None = None
  Views <- MCViews
  Home = "camp"
  MaxCalls <- MCMaxCalls
  MaxTrips = 2
  MaxScrolls = 1
  MaxEvents = 1
INVARIANTS
  SubscriptionKept
PROPERTIES
  CaravanShownToTheEnd
  MapConverges
  
