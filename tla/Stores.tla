-------------------------------- MODULE Stores --------------------------------
(***************************************************************************)
(* The execution stores: load, commit, sweep and purge as each backend     *)
(* does them, one action per call on its database, for one execution id    *)
(* that several processes work on.  The backend is chosen in the initial   *)
(* state; a process uses the sync or the async class of it (Face).         *)
(*   sqlite, libsql  one write transaction                                 *)
(*   rqlite          one request, its side writes guarded by the row       *)
(*   postgres        a new row is looked for, then inserted                *)
(*   redis           a script when nothing goes with the row, else WATCH   *)
(*   mongo           update, else look, else insert; purge in two calls    *)
(*   dynamodb        one write; reads that lag; purge table by table       *)
(***************************************************************************)
EXTENDS Naturals, FiniteSets, SequencesExt

CONSTANTS
  Process,
  Face,        \* process -> "sync" or "aio"
  Backends,    \* the backends to choose from
  Event,
  Start,       \* stands for the creation of the execution
  Works,       \* event -> what its commit may carry: [emits, spawn, timer]
  MaxVersion,  \* bound: commits of one life of the id
  MaxLives,    \* bound: lives of the id after which none is begun
  MaxSeqs,     \* bound: outbox seqs given out after which no event is handled
  MaxForeign,  \* bound: events sent to it by other executions
  MaxCrashes   \* bound: processes that stop between two calls

Work == [emits : {<<>>, <<"self">>, <<"other">>, <<"self", "other">>},
         spawn : BOOLEAN,
         timer : {"none", "schedule", "cancel"}]

Sequential == {"sqlite", "libsql", "rqlite"}   \* a commit or a purge is one step of the database
PurgesInSteps == {"mongo", "dynamodb"}

ASSUME StoresAssumption ==
  /\ Face \in [Process -> {"sync", "aio"}]
  /\ Backends \subseteq Sequential \cup {"postgres", "redis", "mongo", "dynamodb"}
  /\ Start \notin Event
  /\ Works \in [Event \cup {Start} -> SUBSET Work]
  /\ {MaxVersion, MaxLives, MaxSeqs, MaxForeign, MaxCrashes} \subseteq Nat

VARIABLES
  backend,
  row,      \* the stored execution: [life, ver]; version 0 is no row
  outbox,   \* entries [seq, life, ver, event, to]; life 0 was sent by another execution
  spawns,   \* children to create, by the commit that asked for them
  timer,    \* the armed timer, by the commit that armed it
  handled,  \* the dedupe records: [life, event]
  counter,  \* the last outbox seq given out
  proc,     \* process -> what it does: [pc, copy, event, work, seqs, seen, listed]
  wedged,   \* processes whose connection is left in a failed transaction
  lives,    \* history: how often the id was created
  log,      \* history: the commits that won, [life, ver, event]
  delivered, \* history: the outbox entries a relay delivered
  torn,     \* history: a purge stopped half-way and none has been finished since
  count     \* history: what is bounded

vars == <<backend, row, outbox, spawns, timer, handled, counter, proc, wedged, lives, log, delivered, torn, count>>
stored == <<row, outbox, spawns, timer, handled, counter, lives, log>>

Gone == [life |-> 0, ver |-> 0]
Idle == [pc |-> "idle", copy |-> Gone, event |-> Start, work |-> [emits |-> <<>>, spawn |-> FALSE, timer |-> "none"],
         seqs |-> <<>>, seen |-> Gone, listed |-> {}]
Half == {"pull", "processed", "timers", "outbox", "spawns"} \* the row is deleted, the rest is not yet

Init == /\ backend \in Backends
        /\ row = Gone /\ timer = Gone
        /\ outbox = {} /\ spawns = {} /\ handled = {} /\ log = {} /\ delivered = {}
        /\ counter = 0 /\ lives = 0
        /\ proc = [p \in Process |-> Idle]
        /\ wedged = {} /\ torn = FALSE
        /\ count = [foreign |-> 0, crashes |-> 0]
-----------------------------------------------------------------------------
(* Common steps *)

On(b, face, p) == backend = b /\ Face[p] = face

Free(p) == proc[p].pc = "idle" /\ p \notin wedged
Goto(p, pc) == proc' = [proc EXCEPT ![p].pc = pc]
Finish(p) == proc' = [proc EXCEPT ![p] = Idle]

Current(p) == row.ver = proc[p].copy.ver
New(p) == row.ver = 0 /\ proc[p].copy.ver = 0
Plain(p) == proc[p].work = Idle.work  \* nothing goes with the row: the fast path of redis and postgres

\* What the commit of p leaves in the row.
Written(p) == LET c == proc[p].copy IN
  [life |-> IF c.ver = 0 THEN lives + 1 ELSE c.life, ver |-> c.ver + 1]

WriteRow(p) ==
  /\ row' = Written(p)
  /\ lives' = IF proc[p].copy.ver = 0 THEN lives + 1 ELSE lives
  /\ log' = log \cup {[life |-> Written(p).life, ver |-> Written(p).ver, event |-> proc[p].event]}

\* The emits with the seqs given to them, the child, the timer and the dedupe record.
WriteRest(p, seqs) == LET new == Written(p)  w == proc[p].work  e == proc[p].event IN
  /\ outbox' = outbox \cup {[seq |-> seqs[i], life |-> new.life, ver |-> new.ver, event |-> e, to |-> w.emits[i]] :
                            i \in DOMAIN w.emits}
  /\ spawns' = IF w.spawn THEN spawns \cup {new} ELSE spawns
  /\ timer' = CASE w.timer = "schedule" -> new [] w.timer = "cancel" -> Gone [] OTHER -> timer
  /\ handled' = IF e = Start THEN handled ELSE handled \cup {[life |-> new.life, event |-> e]}

\* The database numbers the entries as it inserts them (AUTOINCREMENT, BIGSERIAL).
NextSeqs(p) == [i \in DOMAIN proc[p].work.emits |-> counter + i]

Write(p) == WriteRow(p) /\ WriteRest(p, proc[p].seqs) /\ UNCHANGED counter
WriteNumbered(p) == /\ WriteRow(p) /\ WriteRest(p, NextSeqs(p))
                    /\ counter' = counter + Len(proc[p].work.emits)

\* StoreConflict, or False from a purge: the caller gives up or starts over.
Refuse(p) == Finish(p) /\ UNCHANGED stored

CompareAndWrite(p) == /\ IF Current(p) THEN Write(p) /\ Finish(p) ELSE Refuse(p)
                      /\ UNCHANGED <<backend, wedged, delivered, torn, count>>
-----------------------------------------------------------------------------
(* Reads *)

\* A read of dynamodb without ConsistentRead may return the item before its last write.
Reads == IF backend = "dynamodb" /\ row.ver > 1 THEN {row, [row EXCEPT !.ver = @ - 1]} ELSE {row}
IsProcessed(e) == \E x \in handled : x.event = e
MaySee(e) == IF backend = "dynamodb" THEN {IsProcessed(e), FALSE} ELSE {IsProcessed(e)}

Combined(p) == backend = "libsql" \/ (Face[p] = "aio" /\ backend # "redis")

Room == row.ver < MaxVersion /\ counter < MaxSeqs
\* load, then is_processed: the async redis class sends both in one pipeline that is no transaction.
Load(p, e, w) ==
  /\ Free(p) /\ ~Combined(p) /\ row # Gone /\ w \in Works[e] /\ Room
  /\ \E c \in Reads : proc' = [proc EXCEPT ![p] = [Idle EXCEPT !.pc = "loaded", !.copy = c, !.event = e, !.work = w]]
  /\ UNCHANGED <<backend, stored, wedged, delivered, torn, count>>

Unchecked(p) == Goto(p, "ready")
Check(p) == \E hit \in MaySee(proc[p].event) : IF hit THEN Finish(p) ELSE Goto(p, "ready")

Dedupe(p) == /\ proc[p].pc = "loaded"
             /\ Check(p)
             /\ UNCHANGED <<backend, stored, wedged, delivered, torn, count>>

LoadForEvent(p, e, w) ==
  /\ Free(p) /\ Combined(p) /\ row # Gone /\ w \in Works[e] /\ Room
  /\ FALSE \in MaySee(e)
  /\ \E c \in Reads : proc' = [proc EXCEPT ![p] = [Idle EXCEPT !.pc = "ready", !.copy = c, !.event = e, !.work = w]]
  /\ UNCHANGED <<backend, stored, wedged, delivered, torn, count>>

\* The creator looked the id up and found nothing.  Where a purge takes several calls, it and the
\* next life of the id are assumed not to overlap: what is left to delete is found by the id.
Creating(p) == proc[p].pc \in {"ready", "absent"} /\ proc[p].copy = Gone
Create(p, w) ==
  /\ Free(p) /\ row = Gone /\ lives < MaxLives /\ w \in Works[Start]
  /\ backend \in PurgesInSteps => \A q \in Process : proc[q].pc \notin Half \cup {"condemned"}
  /\ proc' = [proc EXCEPT ![p] = [Idle EXCEPT !.pc = "ready", !.work = w]]
  /\ UNCHANGED <<backend, stored, wedged, delivered, torn, count>>
-----------------------------------------------------------------------------
(* Commit *)

Transaction(p) ==
  /\ proc[p].pc = "ready"
  /\ IF Current(p) THEN WriteNumbered(p) /\ Finish(p) ELSE Refuse(p)
  /\ UNCHANGED <<backend, wedged, delivered, torn, count>>

SqliteCommit(p) == On("sqlite", "sync", p) /\ Transaction(p)
AioSqliteCommit(p) == On("sqlite", "aio", p) /\ Transaction(p)
LibsqlCommit(p) == On("libsql", "sync", p) /\ Transaction(p)
AioLibsqlCommit(p) == On("libsql", "aio", p) /\ Transaction(p)

\* Each side write asks whether the row holds the JSON of this commit, so whether its CAS won: the
\* JSON has the event's effects and the time of the commit in it, no other commit writes the same.
ByVersion(p) == row.ver \in {proc[p].copy.ver, proc[p].copy.ver + 1}
HoldsOurs(p) == Current(p)

Request(p) ==
  /\ proc[p].pc = "ready"
  /\ IF Current(p) THEN WriteRow(p) ELSE UNCHANGED <<row, lives, log>>
  /\ IF HoldsOurs(p)
     THEN WriteRest(p, NextSeqs(p)) /\ counter' = counter + Len(proc[p].work.emits)
     ELSE UNCHANGED <<outbox, spawns, timer, handled, counter>>
  /\ Finish(p)
  /\ UNCHANGED <<backend, wedged, delivered, torn, count>>

RqliteCommit(p) == On("rqlite", "sync", p) /\ Request(p)
AioRqliteCommit(p) == On("rqlite", "aio", p) /\ Request(p)

\* UPDATE of no row, SELECT of no row, and the INSERT that another creator's may come before.
Attempt(p) ==
  /\ proc[p].pc = "ready"
  /\ CASE New(p) -> Goto(p, "absent") /\ UNCHANGED stored
       [] Current(p) /\ ~New(p) -> WriteNumbered(p) /\ Finish(p)
       [] OTHER -> Refuse(p)
  /\ UNCHANGED <<backend, wedged, delivered, torn, count>>

InsertNew(p) == proc[p].pc = "absent" /\ New(p) /\ WriteNumbered(p) /\ Finish(p) /\ UNCHANGED wedged

\* The unique key raises something other than StoreConflict.  The fast path of the sync class has
\* no handler that rolls back: its connection refuses every later call.
PostgresCommit(p) ==
  /\ On("postgres", "sync", p)
  /\ \/ Attempt(p)
     \/ /\ \/ InsertNew(p)
           \/ /\ proc[p].pc = "absent" /\ ~New(p)
              /\ Refuse(p)
              /\ wedged' = IF Plain(p) THEN wedged \cup {p} ELSE wedged
        /\ UNCHANGED <<backend, delivered, torn, count>>

\* The connection goes back to the pool, which rolls it back.
AioPostgresCommit(p) ==
  /\ On("postgres", "aio", p)
  /\ \/ Attempt(p)
     \/ /\ \/ InsertNew(p)
           \/ proc[p].pc = "absent" /\ ~New(p) /\ Refuse(p) /\ UNCHANGED wedged
        /\ UNCHANGED <<backend, delivered, torn, count>>
-----------------------------------------------------------------------------
Script(p) == proc[p].pc = "ready" /\ Plain(p) /\ CompareAndWrite(p)

Reserved(p) == Len(proc[p].seqs) = Len(proc[p].work.emits)

\* One INCR for each emit, before the row is looked at.
Increment(p) == /\ proc[p].pc = "ready" /\ ~Reserved(p)
                /\ counter' = counter + 1
                /\ proc' = [proc EXCEPT ![p].seqs = Append(@, counter + 1)]
                /\ UNCHANGED <<backend, row, outbox, spawns, timer, handled, lives, log, wedged, delivered, torn, count>>

Watch(p) == /\ proc[p].pc = "ready" /\ ~Plain(p) /\ Reserved(p)
            /\ IF Current(p) THEN proc' = [proc EXCEPT ![p].pc = "watched", ![p].seen = row] ELSE Finish(p)
            /\ UNCHANGED <<backend, stored, wedged, delivered, torn, count>>

Untouched(p) == row = proc[p].seen  \* the key WATCH looks at

Exec(p) == /\ proc[p].pc = "watched"
           /\ IF Untouched(p) THEN Write(p) /\ Finish(p) ELSE Refuse(p)
           /\ UNCHANGED <<backend, wedged, delivered, torn, count>>

RedisCommit(p) == On("redis", "sync", p) /\ (Script(p) \/ Increment(p) \/ Watch(p) \/ Exec(p))
AioRedisCommit(p) == On("redis", "aio", p) /\ (Script(p) \/ Increment(p) \/ Watch(p) \/ Exec(p))

Block(n, k) == [i \in 1 .. k |-> n + i]

\* A block of seqs from the counter document, wasted if the commit is refused.
Reserve(p) == /\ proc[p].pc = "ready" /\ ~Reserved(p)
              /\ LET k == Len(proc[p].work.emits) IN
                   /\ counter' = counter + k
                   /\ proc' = [proc EXCEPT ![p].seqs = Block(counter, k)]
              /\ UNCHANGED <<backend, row, outbox, spawns, timer, handled, lives, log, wedged, delivered, torn, count>>

UpdateOne(p) ==
  /\ proc[p].pc = "ready" /\ Reserved(p)
  /\ CASE New(p) -> Goto(p, "absent") /\ UNCHANGED stored
       [] Current(p) /\ ~New(p) -> Write(p) /\ Finish(p)
       [] OTHER -> Refuse(p)
  /\ UNCHANGED <<backend, wedged, delivered, torn, count>>

InsertOne(p) == proc[p].pc = "absent" /\ CompareAndWrite(p)  \* DuplicateKeyError: refused

MongoCommit(p) == On("mongo", "sync", p) /\ (Reserve(p) \/ UpdateOne(p) \/ InsertOne(p))
AioMongoCommit(p) == On("mongo", "aio", p) /\ (Reserve(p) \/ UpdateOne(p) \/ InsertOne(p))

TransactWrite(p) == proc[p].pc = "ready" /\ Reserved(p) /\ CompareAndWrite(p)

DynamoCommit(p) == On("dynamodb", "sync", p) /\ (Reserve(p) \/ TransactWrite(p))
AioDynamoCommit(p) == On("dynamodb", "aio", p) /\ (Reserve(p) \/ TransactWrite(p))
-----------------------------------------------------------------------------
(* Purge *)

\* The control plane read the finished execution, or comes back to an id that a purge left half-way.
Condemn(p) == /\ Free(p) /\ (row # Gone \/ torn)
              /\ backend \in PurgesInSteps => \A q \in Process : ~Creating(q)
              /\ proc' = [proc EXCEPT ![p] = [Idle EXCEPT !.pc = "condemned", !.copy = row]]
              /\ UNCHANGED <<backend, stored, wedged, delivered, torn, count>>

MovedOn(p) == row.ver # 0 /\ ~Current(p)
ToSelf == {x \in outbox : x.to = "self"}

WipeButDedupe(gone) == /\ row' = Gone /\ timer' = Gone
                       /\ spawns' = {} /\ outbox' = outbox \ gone
                       /\ UNCHANGED <<handled, counter, lives, log>>
Wipe(gone) == /\ row' = Gone /\ timer' = Gone
              /\ handled' = {} /\ spawns' = {} /\ outbox' = outbox \ gone
              /\ UNCHANGED <<counter, lives, log>>

PurgeInOne(p) ==
  /\ proc[p].pc = "condemned"
  /\ IF MovedOn(p) THEN Refuse(p) /\ UNCHANGED torn ELSE Wipe(ToSelf) /\ Finish(p) /\ torn' = FALSE
  /\ UNCHANGED <<backend, wedged, delivered, count>>

SqlitePurge(p) == On("sqlite", "sync", p) /\ PurgeInOne(p)
AioSqlitePurge(p) == On("sqlite", "aio", p) /\ PurgeInOne(p)
LibsqlPurge(p) == On("libsql", "sync", p) /\ PurgeInOne(p)
AioLibsqlPurge(p) == On("libsql", "aio", p) /\ PurgeInOne(p)
RqlitePurge(p) == On("rqlite", "sync", p) /\ PurgeInOne(p)
AioRqlitePurge(p) == On("rqlite", "aio", p) /\ PurgeInOne(p)
PostgresPurge(p) == On("postgres", "sync", p) /\ PurgeInOne(p)
AioPostgresPurge(p) == On("postgres", "aio", p) /\ PurgeInOne(p)

\* The entries addressed to it are listed under WATCH, which looks at its own key only.
ListUnderWatch(p) ==
  /\ proc[p].pc = "condemned"
  /\ IF MovedOn(p) THEN Finish(p)
     ELSE proc' = [proc EXCEPT ![p].pc = "listed", ![p].seen = row, ![p].listed = ToSelf]
  /\ UNCHANGED <<backend, stored, wedged, delivered, torn, count>>

DeleteListed(p) ==
  /\ proc[p].pc = "listed"
  /\ IF Untouched(p) THEN Wipe(proc[p].listed) /\ torn' = FALSE ELSE UNCHANGED <<stored, torn>>
  /\ Finish(p)
  /\ UNCHANGED <<backend, wedged, delivered, count>>

RedisPurge(p) == On("redis", "sync", p) /\ (ListUnderWatch(p) \/ DeleteListed(p))
AioRedisPurge(p) == On("redis", "aio", p) /\ (ListUnderWatch(p) \/ DeleteListed(p))

\* The document holds the emits, children, timers and dedupe records; what others sent is in theirs.
DeleteOne(p) ==
  /\ proc[p].pc = "condemned"
  /\ IF MovedOn(p) THEN Refuse(p)
     ELSE Wipe({x \in outbox : x.life > 0}) /\ Goto(p, "pull")
  /\ UNCHANGED <<backend, wedged, delivered, torn, count>>

PullAddressed(p) ==
  /\ proc[p].pc = "pull"
  /\ outbox' = outbox \ ToSelf
  /\ Finish(p) /\ torn' = FALSE
  /\ UNCHANGED <<backend, row, spawns, timer, handled, counter, lives, log, wedged, delivered, count>>

MongoPurge(p) == On("mongo", "sync", p) /\ (DeleteOne(p) \/ PullAddressed(p))
AioMongoPurge(p) == On("mongo", "aio", p) /\ (DeleteOne(p) \/ PullAddressed(p))

DeleteRow(p) ==
  /\ proc[p].pc = "condemned"
  /\ IF MovedOn(p) THEN Finish(p) /\ UNCHANGED row ELSE row' = Gone /\ Goto(p, "processed")
  /\ UNCHANGED <<backend, outbox, spawns, timer, handled, counter, lives, log, wedged, delivered, torn, count>>

EmptyTables(p) ==
  /\ CASE proc[p].pc = "processed" -> /\ handled' = {} /\ Goto(p, "timers")
                                      /\ UNCHANGED <<timer, outbox, spawns, torn>>
       [] proc[p].pc = "timers" -> /\ timer' = Gone /\ Goto(p, "outbox")
                                   /\ UNCHANGED <<handled, outbox, spawns, torn>>
       [] proc[p].pc = "outbox" -> /\ outbox' = outbox \ ToSelf /\ Goto(p, "spawns")
                                   /\ UNCHANGED <<handled, timer, spawns, torn>>
       [] proc[p].pc = "spawns" -> /\ spawns' = {} /\ Finish(p) /\ torn' = FALSE
                                   /\ UNCHANGED <<handled, timer, outbox>>
       [] OTHER -> FALSE
  /\ UNCHANGED <<backend, row, counter, lives, log, wedged, delivered, count>>

DynamoPurge(p) == On("dynamodb", "sync", p) /\ (DeleteRow(p) \/ EmptyTables(p))
AioDynamoPurge(p) == On("dynamodb", "aio", p) /\ (DeleteRow(p) \/ EmptyTables(p))
-----------------------------------------------------------------------------
(* Timers, relay, and the rest of the tree *)

\* A sweep reads the timers that are due, publishes their Timeouts, then deletes them one by one.
DueTimers(p) == /\ Free(p) /\ timer # Gone
                /\ proc' = [proc EXCEPT ![p] = [Idle EXCEPT !.pc = "due", !.seen = timer]]
                /\ UNCHANGED <<backend, stored, wedged, delivered, torn, count>>

Guarded(p) == IF timer = proc[p].seen THEN Gone ELSE timer

DeleteTimer(p) == /\ backend # "redis" /\ proc[p].pc = "due"
                  /\ timer' = Guarded(p)
                  /\ Finish(p)
                  /\ UNCHANGED <<backend, row, outbox, spawns, handled, counter, lives, log, wedged, delivered, torn, count>>

\* ZSCORE and ZREM are two calls.
RedisScore(p) == /\ backend = "redis" /\ proc[p].pc = "due"
                 /\ IF timer = proc[p].seen THEN Goto(p, "scored") ELSE Finish(p)
                 /\ UNCHANGED <<backend, stored, wedged, delivered, torn, count>>
RedisRemove(p) == /\ backend = "redis" /\ proc[p].pc = "scored"
                  /\ timer' = Gone
                  /\ Finish(p)
                  /\ UNCHANGED <<backend, row, outbox, spawns, handled, counter, lives, log, wedged, delivered, torn, count>>

\* A relay reads the pending entries, delivers one, and acks it by its seq: another relay may have
\* done so in the meantime, or do it again later.
Deliver(x) == /\ x \notin delivered
              /\ delivered' = delivered \cup {x}
              /\ UNCHANGED <<backend, stored, proc, wedged, torn, count>>
AckOutbox(x) == /\ \E y \in outbox : y.seq = x.seq
                /\ outbox' = {y \in outbox : y.seq # x.seq}
                /\ UNCHANGED <<backend, row, spawns, timer, handled, counter, proc, wedged, lives, log, delivered, torn, count>>

AckSpawn(s) == /\ spawns' = spawns \ {s}
               /\ UNCHANGED <<backend, row, outbox, timer, handled, counter, proc, wedged, lives, log, delivered, torn, count>>

\* A commit of another execution, addressed to this one.
Receive == /\ count.foreign < MaxForeign
           /\ counter' = counter + 1
           /\ outbox' = outbox \cup {[seq |-> counter + 1, life |-> 0, ver |-> 0, event |-> Start, to |-> "self"]}
           /\ count' = [count EXCEPT !.foreign = @ + 1]
           /\ UNCHANGED <<backend, row, spawns, timer, handled, proc, wedged, lives, log, delivered, torn>>

\* A process stops between two calls; a transaction of its own is rolled back.
Crash(p) == /\ proc[p].pc # "idle" \/ p \in wedged
            /\ count.crashes < MaxCrashes
            /\ Finish(p)
            /\ wedged' = wedged \ {p}
            /\ torn' = (torn \/ proc[p].pc \in Half)
            /\ count' = [count EXCEPT !.crashes = @ + 1]
            /\ UNCHANGED <<backend, stored, delivered>>
-----------------------------------------------------------------------------
Next ==
  \/ \E p \in Process :
       \/ \E e \in Event : \E w \in Works[e] : Load(p, e, w) \/ LoadForEvent(p, e, w)
       \/ Dedupe(p)
       \/ \E w \in Works[Start] : Create(p, w)
       \/ SqliteCommit(p) \/ AioSqliteCommit(p) \/ LibsqlCommit(p) \/ AioLibsqlCommit(p)
       \/ RqliteCommit(p) \/ AioRqliteCommit(p) \/ PostgresCommit(p) \/ AioPostgresCommit(p)
       \/ RedisCommit(p) \/ AioRedisCommit(p) \/ MongoCommit(p) \/ AioMongoCommit(p)
       \/ DynamoCommit(p) \/ AioDynamoCommit(p)
       \/ Condemn(p)
       \/ SqlitePurge(p) \/ AioSqlitePurge(p) \/ LibsqlPurge(p) \/ AioLibsqlPurge(p)
       \/ RqlitePurge(p) \/ AioRqlitePurge(p) \/ PostgresPurge(p) \/ AioPostgresPurge(p)
       \/ RedisPurge(p) \/ AioRedisPurge(p) \/ MongoPurge(p) \/ AioMongoPurge(p)
       \/ DynamoPurge(p) \/ AioDynamoPurge(p)
       \/ DueTimers(p) \/ DeleteTimer(p) \/ RedisScore(p) \/ RedisRemove(p)
       \/ Crash(p)
  \/ \E x \in outbox : Deliver(x)
  \/ \E x \in delivered : AckOutbox(x)
  \/ \E s \in spawns : AckSpawn(s)
  \/ Receive

Spec == Init /\ [][Next]_vars
-----------------------------------------------------------------------------
(* Properties *)

\* Every process may have found the id free before the last of the lives began.
Lives == MaxLives + Cardinality(Process)
Rows == [life : 0 .. Lives, ver : 0 .. MaxVersion]

\* The values the variables take; no life of the id passes its bound of versions, so a commit
\* moves the version by one.
TypeOK ==
  /\ backend \in Backends /\ row \in Rows /\ timer \in Rows
  /\ spawns \subseteq Rows
  /\ handled \subseteq [life : 1 .. Lives, event : Event]
  /\ \A x \in outbox : /\ x.seq \in 1 .. counter /\ x.to \in {"self", "other"}
                       /\ [life |-> x.life, ver |-> x.ver] \in Rows /\ x.event \in Event \cup {Start}
  /\ \A p \in Process : /\ proc[p].copy \in Rows /\ proc[p].seen \in Rows
                        /\ proc[p].listed \subseteq [seq : 1 .. counter, life : 0 .. Lives,
                             ver : 0 .. MaxVersion, event : Event \cup {Start}, to : {"self"}]
  /\ wedged \subseteq Process /\ torn \in BOOLEAN /\ lives \in 0 .. Lives

L == INSTANCE Ledger WITH
       outbox <- {[life |-> x.life, ver |-> x.ver, event |-> x.event, to |-> x.to] : x \in outbox},
       embedded <- backend = "mongo",
       lagging <- backend = "dynamodb"

\* However many calls a backend needs, an observer of its tables sees what Ledger allows: no emit,
\* child, timer or dedupe record of a commit that lost, none missing of one that won, no event
\* handled twice (but by dynamodb, which looks for its dedupe record without ConsistentRead), a purged
\* execution written back by nobody, and a purge that takes only what is keyed by the id.
KeepsLedger == L!Spec

\* When no row is left and no purge is under way or was cut short, nothing of the execution is left:
\* a new life of the id finds no timer, child, dedupe record or emit of an old one.
NothingLeftBehind ==
  (row = Gone /\ ~torn /\ \A p \in Process : proc[p].pc \notin Half)
    => /\ timer = Gone /\ spawns = {} /\ handled = {}
       /\ \A x \in ToSelf : x.life = 0

Swept(p) == proc[p].pc \in {"due", "scored"} /\ timer' # timer /\ timer' = Gone /\ row' = row /\ proc'[p] = Idle

\* A sweep that was slow deletes no timer that was armed again since it read it, as delete_timer
\* promises.
\* Refuted on Redis, whose delete_timer reads and deletes in two calls.
SweepSparesRearmed == [][\A p \in Process : Swept(p) => timer = proc[p].seen]_vars

=============================================================================
