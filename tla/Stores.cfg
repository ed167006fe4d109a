\* Two processes, a sync and an async one, on one id of every backend; a purge_finished on a list of four;
\* the timeline of one execution; the heartbeats of one worker; two processes that publish one version.
CONSTANTS
  s = s  a = a  e1 = e1  e2 = e2
  Start = Start
  Process = {s, a}
  Event = {e1, e2}
  Face <- MCFace
  Works <- MCWorks
  Backends = {"sqlite", "libsql", "rqlite", "postgres", "redis", "mongo", "dynamodb"}
  MaxVersion = 3
  MaxLives = 1
  MaxSeqs = 1
  MaxForeign = 1
  MaxCrashes = 1
  Id = {1, 2, 3, 4}
  Root = {1, 3, 4}
  Stored = {"sqlite", "libsql", "rqlite", "postgres", "dict", "mongo", "dynamodb", "redis"}
  Limit = 1
  MaxChanges = 1
  Ring = 2
  MaxIndex = 4
  Worker = {w1}
  Interval = 4
  Beats = 3
  Lag = 1
  MaxFaults = 2
  MaxForgets = 1
  Publisher = {p1, p2}
  Edition = {t1, t2}
  NoEdition = NoEdition
  MaxAttempts = 2
SPECIFICATION MCSpec
INVARIANT NothingLeftBehind
INVARIANT NoneMissed
INVARIANT TimelineTrue
INVARIANT WorkingIsLive
INVARIANT OneText
PROPERTY KeepsLedger
CHECK_DEADLOCK FALSE \* the history of the id is bounded
