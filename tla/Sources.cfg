CONSTANTS
  Worker = {w1, w2}
  Top <- Directory
  Images <- Trees
SPECIFICATION Spec
SYMMETRY Symmetry
CHECK_DEADLOCK FALSE
 
INVARIANT RecordsRebuild
 
PROPERTY OnlyItsModules
