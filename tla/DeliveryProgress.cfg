SPECIFICATION FairSpec
CONSTANTS
  p = p
  q = q
  c = c
  d = d
  startP = startP
  go = go
  leave = leave
  cancelC = cancelC
  doneC = doneC
  cancelP = cancelP
  a = a
  b = b
  reset = reset
  w1 = w1
  w2 = w2
  u = u
  NoEvent = NoEvent
  NoExec = NoExec
  Exec = {p, c}
  Root = {p}
  Worker = {w1, w2}
  Client = {u}
  Event = {startP, go, doneC, cancelP}
  KindOf <- Kind
  SentTo <- Sent
  Emits <- ChildEmits
  Forks <- FamilyForks
  MaxSends = 1
  MaxCrashes = 0
  MaxFaults = 0
  MaxExpiries = 0
  MaxWrites = 1
PROPERTY MessagesAreHandled
PROPERTY StatusesAdmit
CHECK_DEADLOCK FALSE
