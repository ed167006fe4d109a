SPECIFICATION Spec
CONSTANTS
  top = top
  c1 = c1
  c2 = c2
  u = u
  v = v
  NoExec = NoExec
  Exec = {top, c1}
  Root = {top}
  RegionOf <- OneRegion
  MaxEntries = 1
  Caller = {u, v}
  Retries = 2
  MaxWrites = 3
  MaxCommands = 2
  MaxCrashes = 1
SYMMETRY Symmetry
PROPERTY FinishedForGood
PROPERTY RedriveOrphansNobody
PROPERTY PurgedAsArchived
CHECK_DEADLOCK FALSE
