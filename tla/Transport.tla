------------------------------ MODULE Transport ------------------------------
(***************************************************************************)
(* The transports: publish, claim, ack and nack as each backend does them, *)
(* one action per call on its database.  The backend is chosen in the      *)
(* initial state.  They differ in where the lock of a group is kept, in    *)
(* what checks it, and in how many calls an operation takes:               *)
(*   sqlite, libsql       a lock per message, checked by nobody            *)
(*   rqlite, inmemory     the same; rqlite claims in three calls           *)
(*   postgres             a group row locked by publish and ack, a token   *)
(*   redis                a key that expires, scripts; nack is no script   *)
(*   mongo                a group document with a token, every call alone  *)
(* Times are kept as ranks: the groups never served, then the others in    *)
(* the order of their scores.                                              *)
(***************************************************************************)
EXTENDS Naturals, FiniteSets, SequencesExt

CONSTANTS
  Group, Msg, NoMsg, NoGroup, NoWorker,
  Sender,      \* relays and clients that publish
  Worker,
  Face,        \* sender or worker -> "sync" or "aio": the class of the backend it uses
  GroupOf,     \* message -> group
  Script,      \* sender -> the messages it publishes, in order
  Serves,      \* worker -> the groups its min_priority and machines let it claim
  Backends,    \* the backends to choose from
  MaxCrashes,  \* bound: senders and workers that stop between two calls
  MaxLapses,   \* bound: leases that end while their worker still runs
  MaxNacks     \* bound: messages returned or parked

PerMessage == {"sqlite", "libsql", "rqlite", "inmemory", "aioinmemory"} \* served, and moved to the end, at the claim
Fenced == {"postgres", "mongo"}

ASSUME TransportAssumption ==
  /\ GroupOf \in [Msg -> Group]
  /\ Script \in [Sender -> Seq(Msg)]
  /\ \A s, t \in Sender : \A i \in DOMAIN Script[s], j \in DOMAIN Script[t] : \* a seq per publish
       Script[s][i] = Script[t][j] => s = t /\ i = j
  /\ Face \in [Sender \cup Worker -> {"sync", "aio"}]
  /\ Serves \in [Worker -> SUBSET Group]
  /\ Backends \subseteq PerMessage \cup Fenced \cup {"redis"}
  /\ NoMsg \notin Msg /\ NoGroup \notin Group /\ NoWorker \notin Worker
  /\ {MaxCrashes, MaxLapses, MaxNacks} \subseteq Nat

VARIABLES
  backend,
  queue,    \* group -> its messages by seq: [msg, visible]; a seq taken before its insert is not visible
  fresh,    \* registered groups with score 0
  order,    \* the other registered groups, by score
  lock,     \* group -> [by, msg, live]: who set it, on what message, whether its time still runs
  sender,   \* sender -> [pc, at]: the message it publishes is Script[s][at]
  worker,   \* worker -> [pc, group, msg, timely]: its lease, and whether the lease's time runs
  torn,     \* history: groups a process stopped at before registering them
  late,     \* history: groups somebody acked, freed or parked after his lease had ended
  count

vars == <<backend, queue, fresh, order, lock, sender, worker, torn, late, count>>

Free == [by |-> NoWorker, msg |-> NoMsg, live |-> FALSE]
Parked == [by |-> NoWorker, msg |-> NoMsg, live |-> TRUE]
Idle == [pc |-> "idle", group |-> NoGroup, msg |-> NoMsg, timely |-> FALSE]
-----------------------------------------------------------------------------
(* The index of groups *)

Registered == fresh \cup Range(order)

\* What a query of the group's messages finds, and the first it finds.
Visible(g) == {i \in DOMAIN queue[g] : queue[g][i].visible}
Messages(g) == {queue[g][i].msg : i \in Visible(g)}
Oldest(g) == queue[g][Min(Visible(g))].msg

\* INSERT OR IGNORE, $setOnInsert, ZADD NX: a publish changes nothing of a registered group.
Register(g) == /\ fresh' = IF g \in Registered THEN fresh ELSE fresh \cup {g}
               /\ UNCHANGED order

KeepPlace(g) == UNCHANGED <<fresh, order>>
ToEnd(g) == /\ fresh' = fresh \ {g}
            /\ order' = Append(Remove(order, g), g)

ToFront(g) == /\ fresh' = fresh \cup {g}
              /\ order' = Remove(order, g)

Drop(g) == /\ fresh' = fresh \ {g}
           /\ order' = Remove(order, g)

\* A publish under way in Postgres holds the group's row; claims skip it, acks and nacks wait.
RowLocked(g) ==
  \E s \in Sender : sender[s].pc \in {"create", "commit"} /\ GroupOf[Script[s][sender[s].at]] = g

Due(g) == g \in Registered /\ ~lock[g].live /\ ~RowLocked(g)
Claimable(g) == Due(g) /\ Messages(g) # {}

\* The least recently served of a set of groups: any of those with score 0, else the first by score.
First(G) == IF G \cap fresh # {} THEN G \cap fresh
            ELSE {g \in G : \A i, j \in DOMAIN order : order[i] = g /\ order[j] \in G => i <= j}
-----------------------------------------------------------------------------
(* publish *)

Publishing(s, pc) == sender[s].pc = pc /\ sender[s].at <= Len(Script[s])
ToPublish(s) == Script[s][sender[s].at]
SenderTo(s, pc) == sender' = [sender EXCEPT ![s].pc = pc]
Published(s) == sender' = [sender EXCEPT ![s] = [pc |-> "idle", at |-> @.at + 1]]

AddSlot(m, visible) ==
  queue' = [queue EXCEPT ![GroupOf[m]] = Append(@, [msg |-> m, visible |-> visible])]
Reveal(m) ==
  queue' = [queue EXCEPT ![GroupOf[m]] = [i \in DOMAIN @ |->
              IF @[i].msg = m THEN [@[i] EXCEPT !.visible = TRUE] ELSE @[i]]]

PublishAtOnce(s) ==
  /\ Publishing(s, "idle")
  /\ AddSlot(ToPublish(s), TRUE)
  /\ Register(GroupOf[ToPublish(s)])
  /\ Published(s)
  /\ UNCHANGED <<backend, lock, worker, torn, late, count>>

\* Two autocommitted statements (sqlite, libsql).
InsertFirst(s) ==
  /\ Publishing(s, "idle")
  /\ AddSlot(ToPublish(s), TRUE)
  /\ SenderTo(s, "register")
  /\ UNCHANGED <<backend, fresh, order, lock, worker, torn, late, count>>

RegisterNext(s) ==
  /\ Publishing(s, "register")
  /\ Register(GroupOf[ToPublish(s)])
  /\ torn' = torn \ {GroupOf[ToPublish(s)]}
  /\ Published(s)
  /\ UNCHANGED <<backend, queue, lock, worker, late, count>>

\* A seq is taken before its message can be seen.
Allocate(s) ==
  /\ Publishing(s, "idle")
  /\ AddSlot(ToPublish(s), FALSE)
  /\ SenderTo(s, "insert")
  /\ UNCHANGED <<backend, fresh, order, lock, worker, torn, late, count>>

\* mongo: a counter, then the message, then the group's document if there is none.
InsertOne(s) ==
  /\ Publishing(s, "insert")
  /\ Reveal(ToPublish(s))
  /\ SenderTo(s, "register")
  /\ UNCHANGED <<backend, fresh, order, lock, worker, torn, late, count>>

\* postgres: the INSERT has taken a seq in a transaction still open.
\* The upsert locks the group's row if there is one, else the key of the row it inserts.
UpsertGroup(s) ==
  /\ Publishing(s, "insert")
  /\ ~RowLocked(GroupOf[ToPublish(s)])
  /\ SenderTo(s, IF GroupOf[ToPublish(s)] \in Registered THEN "commit" ELSE "create")
  /\ UNCHANGED <<backend, queue, fresh, order, lock, worker, torn, late, count>>

CommitBoth(s) ==
  /\ Publishing(s, "create") \/ Publishing(s, "commit")
  /\ Reveal(ToPublish(s))
  /\ IF sender[s].pc = "create" THEN Register(GroupOf[ToPublish(s)]) ELSE UNCHANGED <<fresh, order>>
  /\ Published(s)
  /\ UNCHANGED <<backend, lock, worker, torn, late, count>>
-----------------------------------------------------------------------------
(* claim *)

SetLock(g, value) == lock' = [lock EXCEPT ![g] = value]
HeldBy(w, m) == [by |-> w, msg |-> m, live |-> TRUE]
Become(w, value) == worker' = [worker EXCEPT ![w] = value]
WorkerTo(w, pc) == worker' = [worker EXCEPT ![w].pc = pc]
Leased(pc, g, m) == [pc |-> pc, group |-> g, msg |-> m, timely |-> TRUE]

Foremost(w) == First({h \in Serves[w] : Claimable(h)})

TakeHead(w, g, pc) ==
  /\ worker[w] = Idle
  /\ g \in Foremost(w)
  /\ SetLock(g, HeldBy(w, Oldest(g)))
  /\ Become(w, Leased(pc, g, Oldest(g)))
  /\ UNCHANGED <<backend, queue, sender, torn, late, count>>

\* One write transaction (sqlite, libsql); no call of another comes in between (inmemory).
ClaimInOne(w, g) == TakeHead(w, g, "work") /\ ToEnd(g)

\* rqlite: the lease, the row it fell on, the group's time.
LeaseMessage(w, g) == TakeHead(w, g, "read") /\ KeepPlace(g)

\* If another worker took the row meanwhile there is none with this token, and the claim raises.
ReadLeased(w) ==
  /\ worker[w].pc = "read"
  /\ IF lock[worker[w].group].by = w THEN WorkerTo(w, "touch") ELSE Become(w, Idle)
  /\ UNCHANGED <<backend, queue, fresh, order, lock, sender, torn, late, count>>

TouchGroup(w) ==
  /\ worker[w].pc = "touch"
  /\ IF worker[w].group \in Registered THEN ToEnd(worker[w].group) ELSE UNCHANGED <<fresh, order>>
  /\ WorkerTo(w, "work")
  /\ UNCHANGED <<backend, queue, lock, sender, torn, late, count>>

\* One function, SKIP LOCKED.
FunctionClaim(w, g) == TakeHead(w, g, "work") /\ KeepPlace(g)

\* One script; it drops the empty groups it meets.
Empty == {g \in Registered : Messages(g) = {} /\ ~lock[g].live}

ScriptClaim(w, g) ==
  /\ TakeHead(w, g, "work")
  /\ \E met \in SUBSET Empty :
       /\ fresh' = fresh \ met
       /\ order' = SelectSeq(order, LAMBDA h : h \notin met)

ScriptNothing(w) ==
  /\ worker[w] = Idle
  /\ Foremost(w) = {} /\ Empty # {}
  /\ fresh' = fresh \ Empty
  /\ order' = SelectSeq(order, LAMBDA h : h \notin Empty)
  /\ UNCHANGED <<backend, queue, lock, worker, sender, torn, late, count>>

\* mongo: the group's document, then its oldest message.
LeaseDocument(w, g) ==
  /\ worker[w] = Idle
  /\ g \in First({h \in Serves[w] : Due(h)})
  /\ SetLock(g, HeldBy(w, NoMsg))
  /\ Become(w, Leased("read", g, NoMsg))
  /\ UNCHANGED <<backend, queue, fresh, order, sender, torn, late, count>>

ReadOldest(w) ==
  /\ worker[w].pc = "read"
  /\ Become(w, IF Messages(worker[w].group) = {}
                THEN [worker[w] EXCEPT !.pc = "drop"]
                ELSE [worker[w] EXCEPT !.pc = "work", !.msg = Oldest(worker[w].group)])
  /\ UNCHANGED <<backend, queue, fresh, order, lock, sender, torn, late, count>>
-----------------------------------------------------------------------------
(* ack *)

\* The row with the message's seq, if it is still there.
At(q, m) == {i \in DOMAIN q : q[i].msg = m}
Without(q, m) == IF At(q, m) = {} THEN q ELSE RemoveAt(q, CHOOSE i \in At(q, m) : TRUE)

DeleteHead(g, m) == queue' = [queue EXCEPT ![g] = IF @ = <<>> THEN @ ELSE Tail(@)]
Delete(g, m) == queue' = [queue EXCEPT ![g] = Without(@, m)]
Remaining(g, m) == Messages(g) \ {m} # {}
Owns(w) == worker[w].group \in Registered /\ lock[worker[w].group].by = w

\* What frees, parks or empties a group after its own lease has ended acts on somebody else's.
NoteLate(w) == late' = IF worker[w].timely THEN late ELSE late \cup {worker[w].group}

\* By seq, whoever holds the message now; its lock goes with it.
AckBySeq(w) ==
  /\ worker[w].pc = "work"
  /\ LET g == worker[w].group
         m == worker[w].msg
     IN /\ Delete(g, m)
        /\ lock' = IF lock[g].msg = m THEN [lock EXCEPT ![g] = Free] ELSE lock
        /\ IF Remaining(g, m) THEN KeepPlace(g) ELSE Drop(g)
  /\ NoteLate(w)
  /\ Become(w, Idle)
  /\ UNCHANGED <<backend, sender, torn, count>>

\* Had it not locked the row, it would run while a publish has found the group still there.
FunctionAckUnlocked(w) ==
  /\ worker[w].pc = "work"
  /\ LET g == worker[w].group
         m == worker[w].msg
     IN IF Owns(w)
        THEN /\ Delete(g, m)
             /\ SetLock(g, Free)
             /\ IF Remaining(g, m) THEN ToEnd(g) ELSE Drop(g)
        ELSE UNCHANGED <<queue, fresh, order, lock>>
  /\ Become(w, Idle)
  /\ UNCHANGED <<backend, sender, torn, late, count>>

\* One function, fenced by the token, which waits for the publish that holds the row.
FunctionAck(w) ==
  /\ worker[w].pc = "work" /\ ~RowLocked(worker[w].group)
  /\ LET g == worker[w].group
         m == worker[w].msg
     IN IF Owns(w)
        THEN /\ Delete(g, m)
             /\ SetLock(g, Free)
             /\ IF Remaining(g, m) THEN ToEnd(g) ELSE Drop(g)
        ELSE UNCHANGED <<queue, fresh, order, lock>>
  /\ Become(w, Idle)
  /\ UNCHANGED <<backend, sender, torn, late, count>>

\* One script, fenced by the lock's key; it pops whatever is the head.
ScriptAck(w) ==
  /\ worker[w].pc = "work"
  /\ LET g == worker[w].group IN
     IF lock[g].by = w
     THEN /\ queue' = [queue EXCEPT ![g] = Tail(@)]
          /\ SetLock(g, Free)
          /\ IF Len(queue[g]) > 1 THEN ToEnd(g) ELSE Drop(g)
     ELSE UNCHANGED <<queue, fresh, order, lock>>
  /\ Become(w, Idle)
  /\ UNCHANGED <<backend, sender, torn, late, count>>

\* mongo: whether the token is still there, the message, what is left, and the group.
AskToken(w) ==
  /\ worker[w].pc = "work"
  /\ IF Owns(w) THEN WorkerTo(w, "delete") ELSE Become(w, Idle)
  /\ UNCHANGED <<backend, queue, fresh, order, lock, sender, torn, late, count>>

DeleteMessage(w) ==
  /\ worker[w].pc = "delete"
  /\ Delete(worker[w].group, worker[w].msg)
  /\ WorkerTo(w, "remain")
  /\ UNCHANGED <<backend, fresh, order, lock, sender, torn, late, count>>

LookRemaining(w) ==
  /\ worker[w].pc = "remain"
  /\ WorkerTo(w, IF Messages(worker[w].group) = {} THEN "drop" ELSE "free")
  /\ UNCHANGED <<backend, queue, fresh, order, lock, sender, torn, late, count>>

FreeGroup(w) ==
  /\ worker[w].pc = "free"
  /\ IF Owns(w) THEN ToEnd(worker[w].group) /\ SetLock(worker[w].group, Free)
                ELSE UNCHANGED <<fresh, order, lock>>
  /\ Become(w, Idle)
  /\ UNCHANGED <<backend, queue, sender, torn, late, count>>

\* A publish may land between the check and this delete: hence the check after it.
DropGroup(w) ==
  /\ worker[w].pc = "drop"
  /\ IF Owns(w) THEN /\ Drop(worker[w].group)
                     /\ SetLock(worker[w].group, Free)
                     /\ WorkerTo(w, "recheck")
                ELSE /\ UNCHANGED <<fresh, order, lock>>
                     /\ Become(w, Idle)
  /\ UNCHANGED <<backend, queue, sender, torn, late, count>>

LookAgain(w) ==
  /\ worker[w].pc = "recheck"
  /\ IF Messages(worker[w].group) = {} THEN Become(w, Idle) ELSE WorkerTo(w, "ready")
  /\ UNCHANGED <<backend, queue, fresh, order, lock, sender, torn, late, count>>

ReadyAgain(w) ==
  /\ worker[w].pc = "ready"
  /\ Register(worker[w].group)
  /\ torn' = torn \ {worker[w].group}
  /\ Become(w, Idle)
  /\ UNCHANGED <<backend, queue, lock, sender, late, count>>
-----------------------------------------------------------------------------
(* nack: return the message now, or park it *)

Nacks(w) == /\ worker[w].pc = "work"
            /\ count.nacks < MaxNacks
            /\ count' = [count EXCEPT !.nacks = @ + 1]

\* By seq, whoever holds the message now.
NackBySeq(w, parks) ==
  /\ Nacks(w)
  /\ LET g == worker[w].group
         m == worker[w].msg
     IN IF m \in Messages(g)
        THEN SetLock(g, IF parks THEN [Parked EXCEPT !.msg = m] ELSE Free)
        ELSE UNCHANGED lock
  /\ NoteLate(w)
  /\ Become(w, Idle)
  /\ UNCHANGED <<backend, queue, fresh, order, sender, torn>>

UnfencedNack(w, parks) ==
  /\ Nacks(w) /\ ~RowLocked(worker[w].group)
  /\ SetLock(worker[w].group, IF parks THEN Parked ELSE Free)
  /\ IF parks \/ worker[w].group \notin Registered THEN UNCHANGED <<fresh, order>>
                                                   ELSE ToFront(worker[w].group)
  /\ Become(w, Idle)
  /\ UNCHANGED <<backend, queue, sender, torn, late>>

\* One update, fenced by the token.
TokenNack(w, parks) ==
  /\ Nacks(w) /\ ~RowLocked(worker[w].group)
  /\ IF Owns(w)
     THEN /\ SetLock(worker[w].group, IF parks THEN Parked ELSE Free)
          /\ IF parks THEN UNCHANGED <<fresh, order>> ELSE ToFront(worker[w].group)
     ELSE UNCHANGED <<fresh, order, lock>>
  /\ Become(w, Idle)
  /\ UNCHANGED <<backend, queue, sender, torn, late>>

\* redis: whether the key holds the token, and later the score and the key, unconditionally.
AskKey(w, parks) ==
  /\ Nacks(w)
  /\ IF lock[worker[w].group].by = w THEN WorkerTo(w, IF parks THEN "park" ELSE "return")
                                     ELSE Become(w, Idle)
  /\ UNCHANGED <<backend, queue, fresh, order, lock, sender, torn, late>>

SetScoreAndKey(w) ==
  /\ worker[w].pc \in {"park", "return"}
  /\ LET g == worker[w].group IN
     IF worker[w].pc = "park" THEN SetLock(g, Parked) /\ ToEnd(g)
                              ELSE SetLock(g, Free) /\ ToFront(g)
  /\ NoteLate(w)
  /\ Become(w, Idle)
  /\ UNCHANGED <<backend, queue, sender, torn, count>>
-----------------------------------------------------------------------------
(* Time and crashes *)

\* A lease or a park runs out: redis forgets the key, the others leave the token.  Where the
\* score is the time of expiry, the group comes back behind those served meanwhile.
Lapse(g) ==
  LET w == lock[g].by
      holds == w \in Worker /\ worker[w].pc # "idle" /\ worker[w].group = g /\ worker[w].timely
  IN /\ lock[g].live
     /\ holds => count.lapses < MaxLapses
     /\ SetLock(g, IF backend = "redis" THEN Free ELSE [lock[g] EXCEPT !.live = FALSE])
     /\ IF backend \in PerMessage \/ g \notin Registered THEN UNCHANGED <<fresh, order>> ELSE ToEnd(g)
     /\ worker' = IF holds THEN [worker EXCEPT ![w].timely = FALSE] ELSE worker
     /\ count' = IF holds THEN [count EXCEPT !.lapses = @ + 1] ELSE count
     /\ UNCHANGED <<backend, queue, sender, torn, late>>

\* The same for a worker whose lock another process already removed or replaced.
Overstay(w) ==
  /\ worker[w].pc # "idle" /\ worker[w].timely
  /\ lock[worker[w].group].by # w
  /\ worker' = [worker EXCEPT ![w].timely = FALSE]
  /\ UNCHANGED <<backend, queue, fresh, order, lock, sender, torn, late, count>>

\* A process stops; what it had open is rolled back, what it had committed stays.
CrashSender(s) ==
  /\ sender[s].pc # "idle" /\ count.crashes < MaxCrashes
  /\ count' = [count EXCEPT !.crashes = @ + 1]
  /\ IF sender[s].pc = "register"
     THEN torn' = torn \cup ({GroupOf[ToPublish(s)]} \ Registered) /\ UNCHANGED queue
     ELSE Delete(GroupOf[ToPublish(s)], ToPublish(s)) /\ UNCHANGED torn
  /\ Published(s)
  /\ UNCHANGED <<backend, fresh, order, lock, worker, late>>

CrashWorker(w) ==
  /\ worker[w].pc # "idle" /\ count.crashes < MaxCrashes
  /\ count' = [count EXCEPT !.crashes = @ + 1]
  /\ torn' = IF worker[w].pc \in {"recheck", "ready"} THEN torn \cup ({worker[w].group} \ Registered) ELSE torn
  /\ Become(w, Idle)
  /\ UNCHANGED <<backend, queue, fresh, order, lock, sender, late>>
-----------------------------------------------------------------------------
Init ==
  /\ backend \in Backends
  /\ queue = [g \in Group |-> <<>>]
  /\ fresh = {} /\ order = <<>>
  /\ lock = [g \in Group |-> Free]
  /\ sender = [s \in Sender |-> [pc |-> "idle", at |-> 1]]
  /\ worker = [w \in Worker |-> Idle]
  /\ torn = {} /\ late = {}
  /\ count = [crashes |-> 0, lapses |-> 0, nacks |-> 0]
-----------------------------------------------------------------------------
(* The classes: each backend's sync one and its async one *)

On(b, face, p) == backend = b /\ Face[p] = face

TwoStatements(s) == InsertFirst(s) \/ RegisterNext(s)
SqlitePublish(s) == On("sqlite", "sync", s) /\ TwoStatements(s)
AioSqlitePublish(s) == On("sqlite", "aio", s) /\ TwoStatements(s)
LibsqlPublish(s) == On("libsql", "sync", s) /\ TwoStatements(s)
AioLibsqlPublish(s) == On("libsql", "aio", s) /\ TwoStatements(s)
RqlitePublish(s) == On("rqlite", "sync", s) /\ PublishAtOnce(s)
AioRqlitePublish(s) == On("rqlite", "aio", s) /\ PublishAtOnce(s)
RedisPublish(s) == On("redis", "sync", s) /\ PublishAtOnce(s)
AioRedisPublish(s) == On("redis", "aio", s) /\ PublishAtOnce(s)
InMemoryPublish(s) == backend = "inmemory" /\ PublishAtOnce(s)
AioInMemoryPublish(s) == backend = "aioinmemory" /\ PublishAtOnce(s)
MongoPublish(s) == On("mongo", "sync", s) /\ (Allocate(s) \/ InsertOne(s) \/ RegisterNext(s))
AioMongoPublish(s) == On("mongo", "aio", s) /\ (Allocate(s) \/ InsertOne(s) \/ RegisterNext(s))
PostgresPublish(s) == On("postgres", "sync", s) /\ (Allocate(s) \/ UpsertGroup(s) \/ CommitBoth(s))
AioPostgresPublish(s) == On("postgres", "aio", s) /\ (Allocate(s) \/ UpsertGroup(s) \/ CommitBoth(s))

Send(s) ==
  \/ SqlitePublish(s) \/ AioSqlitePublish(s) \/ LibsqlPublish(s) \/ AioLibsqlPublish(s)
  \/ RqlitePublish(s) \/ AioRqlitePublish(s) \/ RedisPublish(s) \/ AioRedisPublish(s)
  \/ InMemoryPublish(s) \/ AioInMemoryPublish(s) \/ MongoPublish(s) \/ AioMongoPublish(s)
  \/ PostgresPublish(s) \/ AioPostgresPublish(s)

SqliteClaim(w, g) == On("sqlite", "sync", w) /\ ClaimInOne(w, g)
AioSqliteClaim(w, g) == On("sqlite", "aio", w) /\ ClaimInOne(w, g)
LibsqlClaim(w, g) == On("libsql", "sync", w) /\ ClaimInOne(w, g)
AioLibsqlClaim(w, g) == On("libsql", "aio", w) /\ ClaimInOne(w, g)
InMemoryClaim(w, g) == backend = "inmemory" /\ ClaimInOne(w, g)
AioInMemoryClaim(w, g) == backend = "aioinmemory" /\ ClaimInOne(w, g)
RqliteClaim(w, g) == On("rqlite", "sync", w) /\ LeaseMessage(w, g)
AioRqliteClaim(w, g) == On("rqlite", "aio", w) /\ LeaseMessage(w, g)
PostgresClaim(w, g) == On("postgres", "sync", w) /\ FunctionClaim(w, g)
AioPostgresClaim(w, g) == On("postgres", "aio", w) /\ FunctionClaim(w, g)
RedisClaim(w, g) == On("redis", "sync", w) /\ ScriptClaim(w, g)
AioRedisClaim(w, g) == On("redis", "aio", w) /\ ScriptClaim(w, g)
MongoClaim(w, g) == On("mongo", "sync", w) /\ LeaseDocument(w, g)
AioMongoClaim(w, g) == On("mongo", "aio", w) /\ LeaseDocument(w, g)

Claim(w) ==
  \/ backend = "redis" /\ ScriptNothing(w)
  \/ \E g \in Group :
       \/ SqliteClaim(w, g) \/ AioSqliteClaim(w, g) \/ LibsqlClaim(w, g) \/ AioLibsqlClaim(w, g)
       \/ InMemoryClaim(w, g) \/ AioInMemoryClaim(w, g) \/ RqliteClaim(w, g) \/ AioRqliteClaim(w, g)
       \/ PostgresClaim(w, g) \/ AioPostgresClaim(w, g) \/ RedisClaim(w, g) \/ AioRedisClaim(w, g)
       \/ MongoClaim(w, g) \/ AioMongoClaim(w, g)

SqliteAck(w) == On("sqlite", "sync", w) /\ AckBySeq(w)
AioSqliteAck(w) == On("sqlite", "aio", w) /\ AckBySeq(w)
LibsqlAck(w) == On("libsql", "sync", w) /\ AckBySeq(w)
AioLibsqlAck(w) == On("libsql", "aio", w) /\ AckBySeq(w)
InMemoryAck(w) == backend = "inmemory" /\ AckBySeq(w)
AioInMemoryAck(w) == backend = "aioinmemory" /\ AckBySeq(w)
RqliteAck(w) == On("rqlite", "sync", w) /\ AckBySeq(w)
AioRqliteAck(w) == On("rqlite", "aio", w) /\ AckBySeq(w)
PostgresAck(w) == On("postgres", "sync", w) /\ FunctionAck(w)
AioPostgresAck(w) == On("postgres", "aio", w) /\ FunctionAck(w)
RedisAck(w) == On("redis", "sync", w) /\ ScriptAck(w)
AioRedisAck(w) == On("redis", "aio", w) /\ ScriptAck(w)
AckCallByCall(w) == AskToken(w) \/ DeleteMessage(w) \/ LookRemaining(w) \/ FreeGroup(w)
MongoAck(w) == On("mongo", "sync", w) /\ AckCallByCall(w)
AioMongoAck(w) == On("mongo", "aio", w) /\ AckCallByCall(w)
MongoDropGroup(w) == On("mongo", "sync", w) /\ (DropGroup(w) \/ LookAgain(w) \/ ReadyAgain(w))
AioMongoDropGroup(w) == On("mongo", "aio", w) /\ (DropGroup(w) \/ LookAgain(w) \/ ReadyAgain(w))

Go(w) ==
  \/ backend = "rqlite" /\ ReadLeased(w)
  \/ TouchGroup(w) \/ SetScoreAndKey(w)
  \/ backend = "mongo" /\ ReadOldest(w)
  \/ SqliteAck(w) \/ AioSqliteAck(w) \/ LibsqlAck(w) \/ AioLibsqlAck(w) \/ InMemoryAck(w)
  \/ AioInMemoryAck(w) \/ RqliteAck(w) \/ AioRqliteAck(w) \/ PostgresAck(w) \/ AioPostgresAck(w)
  \/ RedisAck(w) \/ AioRedisAck(w) \/ MongoAck(w) \/ AioMongoAck(w)
  \/ MongoDropGroup(w) \/ AioMongoDropGroup(w)

SqliteNack(w, parks) == On("sqlite", "sync", w) /\ NackBySeq(w, parks)
AioSqliteNack(w, parks) == On("sqlite", "aio", w) /\ NackBySeq(w, parks)
LibsqlNack(w, parks) == On("libsql", "sync", w) /\ NackBySeq(w, parks)
AioLibsqlNack(w, parks) == On("libsql", "aio", w) /\ NackBySeq(w, parks)
InMemoryNack(w, parks) == backend = "inmemory" /\ NackBySeq(w, parks)
AioInMemoryNack(w, parks) == backend = "aioinmemory" /\ NackBySeq(w, parks)
RqliteNack(w, parks) == On("rqlite", "sync", w) /\ NackBySeq(w, parks)
AioRqliteNack(w, parks) == On("rqlite", "aio", w) /\ NackBySeq(w, parks)
PostgresNack(w, parks) == On("postgres", "sync", w) /\ TokenNack(w, parks)
AioPostgresNack(w, parks) == On("postgres", "aio", w) /\ TokenNack(w, parks)
\* mongo reads the token first, which changes nothing: its update asks for it again.
MongoNack(w, parks) == On("mongo", "sync", w) /\ TokenNack(w, parks)
AioMongoNack(w, parks) == On("mongo", "aio", w) /\ TokenNack(w, parks)
RedisNack(w, parks) == On("redis", "sync", w) /\ AskKey(w, parks)
AioRedisNack(w, parks) == On("redis", "aio", w) /\ AskKey(w, parks)

Nack(w) == \E parks \in BOOLEAN :
  \/ SqliteNack(w, parks) \/ AioSqliteNack(w, parks) \/ LibsqlNack(w, parks) \/ AioLibsqlNack(w, parks)
  \/ InMemoryNack(w, parks) \/ AioInMemoryNack(w, parks) \/ RqliteNack(w, parks) \/ AioRqliteNack(w, parks)
  \/ PostgresNack(w, parks) \/ AioPostgresNack(w, parks) \/ MongoNack(w, parks) \/ AioMongoNack(w, parks)
  \/ RedisNack(w, parks) \/ AioRedisNack(w, parks)
-----------------------------------------------------------------------------
Next ==
  \/ \E s \in Sender : Send(s) \/ CrashSender(s)
  \/ \E w \in Worker : Claim(w) \/ Go(w) \/ Nack(w) \/ Overstay(w) \/ CrashWorker(w)
  \/ \E g \in Group : Lapse(g)

Spec == Init /\ [][Next]_vars

\* Processes go on until they stop, workers claim whenever there is something to claim, and
\* locks run out.
Fairness ==
  /\ \A s \in Sender : WF_vars(Send(s))
  /\ \A w \in Worker : WF_vars(Claim(w)) /\ WF_vars(Go(w))
  /\ \A g \in Group : WF_vars(Lapse(g))

FairSpec == Spec /\ Fairness
-----------------------------------------------------------------------------
Pcs == {"idle", "register", "insert", "create", "commit", "read", "touch", "work", "delete", "remain", "free",
        "drop", "recheck", "ready", "park", "return"}

\* Every variable keeps its type, and a group has one place in the index.
TypeOK ==
  /\ backend \in Backends
  /\ \A g \in Group : queue[g] \in Seq([msg : Msg, visible : BOOLEAN])
  /\ fresh \subseteq Group /\ order \in Seq(Group)
  /\ IsInjective(order) /\ fresh \cap Range(order) = {}
  /\ lock \in [Group -> [by : Worker \cup {NoWorker}, msg : Msg \cup {NoMsg}, live : BOOLEAN]]
  /\ sender \in [Sender -> [pc : Pcs, at : Nat]]
  /\ worker \in [Worker -> [pc : Pcs, group : Group \cup {NoGroup}, msg : Msg \cup {NoMsg}, timely : BOOLEAN]]
  /\ torn \subseteq Group /\ late \subseteq Group
  /\ count \in [crashes : Nat, lapses : Nat, nacks : Nat]

\* A message a worker was handed and has not yet removed or given back.
InHand(w) == IF worker[w].pc \in {"touch", "work", "delete", "park", "return"} THEN worker[w].msg ELSE NoMsg

Waiting == UNION {Messages(g) : g \in Group}
Before == {p \in Msg \X Msg : \E g \in Group : \E i, j \in Visible(g) :
             i < j /\ p = <<queue[g][i].msg, queue[g][j].msg>>}

Box == INSTANCE Mailbox WITH
  waiting <- Waiting,
  before <- Before,
  hand <- [w \in Worker |-> InHand(w)],
  After <- [m \in Msg |-> {n \in Msg : \E s \in Sender : \E i, j \in DOMAIN Script[s] :
                             i < j /\ Script[s][i] = n /\ Script[s][j] = m}]

\* Every backend keeps the mailbox's promise, call by call: first in first out per group, handed
\* out again until settled, and an ack removes the message that was handed out and no other,
\* whoever holds the group by then.
KeepsPromise == Box!Spec

\* A worker's lease: until its time is over or it gave the group up.
Holding(w) == worker[w].timely /\ worker[w].pc \notin {"recheck", "ready"}

\* Two workers whose leases still run never have the same group, unless (where the lock is not
\* checked by the call that ends it) somebody freed it after losing it: testing/transport.py,
\* "at most one message of a group in flight".
OneInFlight == \A w, v \in Worker :
  w # v /\ Holding(w) /\ Holding(v) /\ worker[w].group = worker[v].group
    => worker[w].group \in late /\ backend \notin Fenced

\* Every queued message is eventually settled, whatever lapses, is parked, comes back or crashes,
\* but for a group a crash left out of the index.
Delivered == \A m \in Msg : LET g == GroupOf[m] IN
  (m \in Messages(g)) ~> (m \notin Messages(g) \/ g \in torn)
=============================================================================
