SPECIFICATION FairSpec
CONSTANTS
  A = A
  C = C
  C1 = C1
  D = D
  D1 = D1
  D2 = D2
  F = F
  G = G
  T = T
  NoNode = NoNode
  Node <- Nodes
  Top = T
  Parent <- ParentOf
  Line <- LineOf
  Initial <- InitialOf
  Keeps = {C}
  Timed = {C, D1}
  Event = {"go", "back", "late"}
  Defer <- Deferred
  Label <- Labels
  NoLabel = "none"
  Trans <- Machine
  MaxDeferred = 2
INVARIANT HooksPair
INVARIANT TimersFollow
INVARIANT DeferredWakes
PROPERTY TeardownEnds
CHECK_DEADLOCK FALSE
