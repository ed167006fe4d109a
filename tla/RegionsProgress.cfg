SPECIFICATION FairSpec
CONSTANTS
  ra = ra
  rb = rb
  Root = Root
  NoRegion = NoRegion
  Region = {ra, rb}
  Tidy = {rb}
  Mortal = {ra}
  HasTimeout = FALSE
  CancelOnFailure = FALSE
  Input <- OneVisit
  MaxVisits = 1
  MaxCrashes = 1
INVARIANT TakenByOneSide
PROPERTY EveryLiveRegionIsTold
PROPERTY JoinHappens
 
CHECK_DEADLOCK FALSE
