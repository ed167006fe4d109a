SPECIFICATION FairSpec
CONSTANTS
  g1 = g1
  g2 = g2
  m1 = m1
  m2 = m2
  n1 = n1
  s1 = s1
  s2 = s2
  w1 = w1
  w2 = w2
  NoMsg = NoMsg
  NoGroup = NoGroup
  NoWorker = NoWorker
  Group = {g1, g2}
  Msg = {m1, m2, n1}
  Sender = {s1, s2}
  Worker = {w1, w2}
  Face <- Faces
  GroupOf <- GroupTable
  Script <- Scripts
  Serves <- Some
  Backends = {"sqlite", "libsql", "rqlite", "inmemory", "aioinmemory", "postgres", "redis", "mongo"}
  MaxCrashes = 1
  MaxLapses = 1
  MaxNacks = 1
INVARIANT OneInFlight
PROPERTY KeepsPromise
PROPERTY Delivered
CHECK_DEADLOCK FALSE
