SPECIFICATION Spec
CONSTANTS
  p = p
  q = q
  c = c
  d = d
  startP = startP
  go = go
  leave = leave
  cancelC = cancelC
  doneC = doneC
  cancelP = cancelP
  a = a
  b = b
  reset = reset
  w1 = w1
  w2 = w2
  u = u
  NoEvent = NoEvent
  NoExec = NoExec
  Exec = {p, c, d}
  Root = {p}
  Worker = {w1, w2}
  Client = {u}
  Event = {startP, go, a, doneC}
  KindOf <- Kind
  SentTo <- Sent
  Emits <- FamilyEmits
  Forks <- PairForks
  MaxSends = 1
  MaxCrashes = 1
  MaxFaults = 1
  MaxExpiries = 1
  MaxWrites = 0
SYMMETRY Symmetry
INVARIANT NothingLost
INVARIANT PublishedInCommitOrder
INVARIANT AtMostOnce
INVARIANT InOrder
CHECK_DEADLOCK FALSE
