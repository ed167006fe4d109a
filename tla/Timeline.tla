------------------------------- MODULE Timeline -------------------------------
(***************************************************************************)
(* The opt-in timeline of one execution, as each store keeps it: a commit  *)
(* appends its step with an index, keeps the last Ring steps, and a        *)
(* monitor reads them back while processes compete for the next commit.    *)
(*   sqlite, libsql, rqlite, postgres   MAX(idx) + 1, in the transaction   *)
(*   dict                               a counter, in the commit           *)
(*   redis, mongo                       a counter, before the commit       *)
(*   dynamodb                           a query of the last, before it     *)
(* A table of rows is a function from the index, its primary key; a list   *)
(* is a sequence.                                                          *)
(***************************************************************************)
EXTENDS Naturals, FiniteSetsExt, SequencesExt

CONSTANTS
  Process,     \* workers and clients that load and commit the execution
  Stored,      \* the stores to choose from
  Ring,        \* trace_max; 0 keeps every step
  MaxVersion,  \* bound: commits of the execution
  MaxIndex     \* bound: indexes taken before a commit, those of commits that lost included

TimelineAssumption == Ring \in Nat /\ {MaxVersion, MaxIndex} \subseteq Nat /\ IsFiniteSet(Process)

VARIABLES
  store,     \* the backend, and the class of it: [name, face]
  version,   \* of the execution; 0 before it is created
  trace,     \* the rows kept, [idx, step], by their index in a table and by their place in a list
  counter,   \* the next index, of the stores that count
  proc,      \* process -> [at, copy, idx]
  shown,     \* what a monitor that just read is shown: {rows}, or {}
  log        \* history: the steps committed, each named by the version it made

vars == <<store, version, trace, counter, proc, shown, log>>

Idle == [at |-> "idle", copy |-> 0, idx |-> 0]

Init == /\ store \in [name : Stored, face : {"sync", "aio"}]
        /\ version = 0 /\ trace = <<>> /\ counter = 0 /\ proc = [p \in Process |-> Idle]
        /\ shown = {} /\ log = <<>>

Is(name, face) == store = [name |-> name, face |-> face]
Become(p, local) == proc' = [proc EXCEPT ![p] = local]
-----------------------------------------------------------------------------
(* Writing *)

Loads(p) == /\ proc[p].at = "idle" /\ version < MaxVersion
            /\ Become(p, [Idle EXCEPT !.at = "loaded", !.copy = version])
            /\ UNCHANGED <<version, trace, counter>>

\* One past the highest index there; the first index is 0.
Next0(rows) == IF DOMAIN rows = {} THEN 0 ELSE Max(DOMAIN rows) + 1

\* The row of an index that is there already is replaced.
Put(rows, row) == [i \in DOMAIN rows \cup {row.idx} |-> IF i = row.idx THEN row ELSE rows[i]]

\* The ring: what is Ring or more behind the index just written goes.
PruneOneLess(rows, idx) == Restrict(rows, {i \in DOMAIN rows : Ring > 0 => i + Ring >= idx})    \* A mistake.
Prune(rows, idx) == Restrict(rows, {i \in DOMAIN rows : Ring > 0 => i + Ring > idx})

\* A list, cut from its front to the last Ring (del, LTRIM, $slice), whatever the indexes.
Cut(rows) == IF Ring > 0 /\ Len(rows) > Ring THEN SubSeq(rows, Len(rows) - Ring + 1, Len(rows)) ELSE rows

\* The compare-and-set of a commit; what it writes is rows, and one that lost writes nothing.
Commit(p, rows) ==
  /\ Become(p, Idle)
  /\ IF version = proc[p].copy
     THEN version' = version + 1 /\ trace' = rows /\ log' = Append(log, version + 1)
     ELSE UNCHANGED <<version, trace, log>>

Step(idx) == [idx |-> idx, step |-> version + 1]

\* The index is computed by the transaction that inserts the row.
Inline(p) == LET idx == Next0(trace) IN
             /\ proc[p].at = "loaded"
             /\ Commit(p, Prune(Put(trace, Step(idx)), idx))
             /\ UNCHANGED counter

\* The dict commits in one go, and takes no index for a commit that lost.
Counted(p) == /\ proc[p].at = "loaded"
              /\ Commit(p, Cut(Append(trace, Step(counter))))
              /\ counter' = IF version = proc[p].copy THEN counter + 1 ELSE counter

\* An index is taken first, also for a commit that will lose.
TakeIndex(p) == /\ proc[p].at = "loaded" /\ counter < MaxIndex
                /\ Become(p, [proc[p] EXCEPT !.at = "indexed", !.idx = counter])
                /\ counter' = counter + 1
                /\ UNCHANGED <<version, trace, log>>

Push(p) == /\ proc[p].at = "indexed"
           /\ Commit(p, Cut(Append(trace, Step(proc[p].idx))))
           /\ UNCHANGED counter

\* The query is not a consistent read: it may answer with the last of any earlier moment.
QueryLast(p) == /\ proc[p].at = "loaded"
                /\ \E idx \in 0 .. Next0(trace) : Become(p, [proc[p] EXCEPT !.at = "indexed", !.idx = idx])
                /\ UNCHANGED <<version, trace, counter, log>>

\* A Put replaces the item of its index, and one Delete drops the one that leaves the window.
PutItem(p) == LET idx == proc[p].idx
                  stays == {i \in DOMAIN trace : ~(Ring > 0 /\ i + Ring = idx)}
              IN /\ proc[p].at = "indexed"
                 /\ Commit(p, Put(Restrict(trace, stays), Step(idx)))
                 /\ UNCHANGED counter

SqliteTrace(p) == Is("sqlite", "sync") /\ Inline(p)
AioSqliteTrace(p) == Is("sqlite", "aio") /\ Inline(p)
LibsqlTrace(p) == Is("libsql", "sync") /\ Inline(p)
AioLibsqlTrace(p) == Is("libsql", "aio") /\ Inline(p)
RqliteTrace(p) == Is("rqlite", "sync") /\ Inline(p)
AioRqliteTrace(p) == Is("rqlite", "aio") /\ Inline(p)
PostgresTrace(p) == Is("postgres", "sync") /\ Inline(p)
AioPostgresTrace(p) == Is("postgres", "aio") /\ Inline(p)
DictTrace(p) == Is("dict", "sync") /\ Counted(p)
AioDictTrace(p) == Is("dict", "aio") /\ Counted(p)
RedisTrace(p) == Is("redis", "sync") /\ (TakeIndex(p) \/ Push(p))
AioRedisTrace(p) == Is("redis", "aio") /\ (TakeIndex(p) \/ Push(p))
MongoTrace(p) == Is("mongo", "sync") /\ (TakeIndex(p) \/ Push(p))
AioMongoTrace(p) == Is("mongo", "aio") /\ (TakeIndex(p) \/ Push(p))
DynamoTrace(p) == Is("dynamodb", "sync") /\ (QueryLast(p) \/ PutItem(p))
AioDynamoTrace(p) == Is("dynamodb", "aio") /\ (QueryLast(p) \/ PutItem(p))

\* A control command saves the record without a step.
Saves(p) == /\ proc[p].at = "loaded" /\ Become(p, Idle)
            /\ version' = IF version = proc[p].copy THEN version + 1 ELSE version
            /\ UNCHANGED <<trace, counter, log>>

\* A process ends, or its commit raises before it reached the store.
Stops(p) == /\ proc[p].at # "idle" /\ Become(p, Idle)
            /\ UNCHANGED <<version, trace, counter, log>>
-----------------------------------------------------------------------------
(* Reading *)

\* A query is ordered by the index and a list is read from its front: both show the rows there are.
Shows == shown' = {trace} /\ UNCHANGED <<version, trace, counter, proc, log>>

SqliteRead == Is("sqlite", "sync") /\ Shows
AioSqliteRead == Is("sqlite", "aio") /\ Shows
LibsqlRead == Is("libsql", "sync") /\ Shows
AioLibsqlRead == Is("libsql", "aio") /\ Shows
RqliteRead == Is("rqlite", "sync") /\ Shows
AioRqliteRead == Is("rqlite", "aio") /\ Shows
PostgresRead == Is("postgres", "sync") /\ Shows
AioPostgresRead == Is("postgres", "aio") /\ Shows
DynamoRead == Is("dynamodb", "sync") /\ Shows
AioDynamoRead == Is("dynamodb", "aio") /\ Shows
DictRead == Is("dict", "sync") /\ Shows
AioDictRead == Is("dict", "aio") /\ Shows
RedisRead == Is("redis", "sync") /\ Shows
AioRedisRead == Is("redis", "aio") /\ Shows
MongoRead == Is("mongo", "sync") /\ Shows
AioMongoRead == Is("mongo", "aio") /\ Shows
-----------------------------------------------------------------------------
Writes(p) ==
  \/ SqliteTrace(p) \/ AioSqliteTrace(p) \/ LibsqlTrace(p) \/ AioLibsqlTrace(p)
  \/ RqliteTrace(p) \/ AioRqliteTrace(p) \/ PostgresTrace(p) \/ AioPostgresTrace(p)
  \/ DictTrace(p) \/ AioDictTrace(p) \/ RedisTrace(p) \/ AioRedisTrace(p)
  \/ MongoTrace(p) \/ AioMongoTrace(p) \/ DynamoTrace(p) \/ AioDynamoTrace(p)

ReadTrace ==
  \/ SqliteRead \/ AioSqliteRead \/ LibsqlRead \/ AioLibsqlRead \/ RqliteRead \/ AioRqliteRead
  \/ PostgresRead \/ AioPostgresRead \/ DynamoRead \/ AioDynamoRead \/ DictRead \/ AioDictRead
  \/ RedisRead \/ AioRedisRead \/ MongoRead \/ AioMongoRead

Next == /\ \/ ReadTrace
           \/ /\ \E p \in Process : \/ Writes(p) \/ Saves(p) \/ Stops(p)
                                    \/ Loads(p) /\ UNCHANGED log
              /\ shown' = {}
        /\ UNCHANGED store

Spec == Init /\ [][Next]_vars
-----------------------------------------------------------------------------
Newest(s, n) == IF n > 0 /\ Len(s) > n THEN SubSeq(s, Len(s) - n + 1, Len(s)) ELSE s

StepsOf(rows) == {rows[i].step : i \in DOMAIN rows}

\* A monitor is shown the last Ring steps that were committed, in the order of the commits and under
\* rising indexes, however many commits lost on the way.  The dynamodb store, whose query of the last
\* index is not a consistent read, promises only that no step of a commit that lost is shown.
TimelineTrue == \A rows \in shown :
  IF store.name = "dynamodb"
  THEN StepsOf(rows) \subseteq Range(log)
  ELSE /\ StepsOf(rows) = Range(Newest(log, Ring))
       /\ \A i, j \in DOMAIN rows : i < j => rows[i].step < rows[j].step /\ rows[i].idx < rows[j].idx

\* The index of the dynamodb store stays contiguous (dynamodb.py, _max_trace_idx).
\* Refuted: a stale answer repeats an index, and the step that had it is gone.
Contiguous == \A rows \in shown : StepsOf(rows) = Range(Newest(log, Ring))
=============================================================================
