SPECIFICATION Spec
CONSTANTS
  ra = ra
  rb = rb
  Root = Root
  NoRegion = NoRegion
  Region = {ra, rb}
  Tidy = {rb}
  Mortal = {}
  HasTimeout = TRUE
  CancelOnFailure = TRUE
  Input <- TwoVisits
  MaxVisits = 2
  MaxCrashes = 0
PROPERTY ImplementsForkJoin
CHECK_DEADLOCK FALSE
