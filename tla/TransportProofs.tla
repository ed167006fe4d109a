--------------------------- MODULE TransportProofs ---------------------------
(***************************************************************************)
(* Two results, on every backend and for any number of groups, messages,   *)
(* senders and workers.                                                    *)
(*                                                                         *)
(* At most one worker whose lease still runs has a group: such a lease     *)
(* goes with a live lock that carries its worker's name, and loses that    *)
(* lock only to a call that the backend lets free what it does not hold,   *)
(* which leaves its group in late.                                         *)
(*                                                                         *)
(* Every backend implements the Mailbox: the rows of a group are in the    *)
(* order of their senders' scripts, a row out of sight is one whose sender *)
(* has not committed it, and where a call counts on the head of a group    *)
(* (Redis pops it, rqlite reads its lease back) the lock that it checks    *)
(* keeps that head in its place.                                           *)
(***************************************************************************)
EXTENDS Transport, TLAPS, WellFoundedInduction

LockShape ==
  /\ lock = [g \in Group |-> [by |-> lock[g].by, msg |-> lock[g].msg, live |-> lock[g].live]]
  /\ \A g \in Group : lock[g].by \in Worker \cup {NoWorker}

WorkerShape ==
  /\ worker = [w \in Worker |-> [pc |-> worker[w].pc, group |-> worker[w].group,
                                 msg |-> worker[w].msg, timely |-> worker[w].timely]]
  /\ \A w \in Worker :
       /\ worker[w].timely \in BOOLEAN
       /\ worker[w].timely => worker[w].pc # "idle"
       /\ worker[w].pc # "idle" => worker[w].group \in Group
       /\ worker[w].pc \in {"park", "return"} => backend = "redis"

Shape == LockShape /\ WorkerShape

\* A lease that runs has its lock, unless somebody without the lock took it away.
Locked(w) == lock[worker[w].group].by = w /\ lock[worker[w].group].live
Robbed(g) == g \in late /\ backend \notin Fenced
Held == \A w \in Worker : Holding(w) => Locked(w) \/ Robbed(worker[w].group)

IInv == Shape /\ Held
-----------------------------------------------------------------------------
(* What a call may do to the locks and the leases *)


Lease(r) ==
  /\ r = [pc |-> r.pc, group |-> r.group, msg |-> r.msg, timely |-> r.timely]
  /\ r.timely \in BOOLEAN
  /\ r.timely => r.pc # "idle"
  /\ r.pc # "idle" => r.group \in Group
  /\ r.pc \in {"park", "return"} => backend = "redis"

Runs(r) == r.timely /\ r.pc \notin {"recheck", "ready"}

LEMMA Apart == NoWorker \notin Worker /\ NoGroup \notin Group
  BY TransportAssumption

LEMMA LeaseOf ==
  ASSUME IInv, NEW w \in Worker
  PROVE  Lease(worker[w]) /\ (Holding(w) <=> Runs(worker[w]))
  BY DEF IInv, Shape, WorkerShape, Lease, Holding, Runs

LEMMA IdleLease == Lease(Idle) /\ ~Runs(Idle)
  BY DEF Lease, Idle, Runs

LEMMA BecomeShape ==
  ASSUME IInv, NEW w \in Worker, NEW r, Become(w, r), Lease(r), UNCHANGED backend
  PROVE  /\ WorkerShape'
         /\ \A v \in Worker : worker'[v] = IF v = w THEN r ELSE worker[v]
  <1>1. \A v \in Worker : worker'[v] = IF v = w THEN r ELSE worker[v]
    BY DEF Become, IInv, Shape, WorkerShape
  <1>2. worker' = [v \in Worker |-> worker'[v]]
    BY DEF Become, IInv, Shape, WorkerShape
  <1>3. \A v \in Worker : worker'[v] = [pc |-> worker'[v].pc, group |-> worker'[v].group,
                                        msg |-> worker'[v].msg, timely |-> worker'[v].timely]
    BY <1>1 DEF IInv, Shape, WorkerShape, Lease
  <1>4. QED
    BY <1>1, <1>2, <1>3 DEF IInv, Shape, WorkerShape, Lease

LEMMA LockChange ==
  ASSUME IInv, NEW g, NEW x, SetLock(g, x),
         x = [by |-> x.by, msg |-> x.msg, live |-> x.live], x.by \in Worker \cup {NoWorker}
  PROVE  /\ LockShape'
         /\ \A h \in Group : lock'[h] = IF h = g THEN x ELSE lock[h]
  <1>1. \A h \in Group : lock'[h] = IF h = g THEN x ELSE lock[h]
    BY DEF SetLock, IInv, Shape, LockShape
  <1>2. lock' = [h \in Group |-> lock'[h]]
    BY DEF SetLock, IInv, Shape, LockShape
  <1>3. \A h \in Group : lock'[h] = [by |-> lock'[h].by, msg |-> lock'[h].msg, live |-> lock'[h].live]
    BY <1>1 DEF IInv, Shape, LockShape
  <1>4. QED
    BY <1>1, <1>2, <1>3 DEF IInv, Shape, LockShape

LEMMA LockSame ==
  ASSUME IInv, UNCHANGED lock
  PROVE  LockShape'
  BY DEF IInv, Shape, LockShape

LEMMA Timely ==
  ASSUME NEW r, NEW e, r = [pc |-> r.pc, group |-> r.group, msg |-> r.msg, timely |-> r.timely]
  PROVE  [r EXCEPT !.timely = e] = [pc |-> r.pc, group |-> r.group, msg |-> r.msg, timely |-> e]
  <1>1. PICK a, b, c, d : r = [pc |-> a, group |-> b, msg |-> c, timely |-> d]
    OBVIOUS
  <1>2. r.pc = a /\ r.group = b /\ r.msg = c
    BY <1>1
  <1>3. [r EXCEPT !.timely = e] = [pc |-> a, group |-> b, msg |-> c, timely |-> e]
    BY <1>1
  <1>4. QED
    BY <1>2, <1>3

LEMMA LockFields ==
  ASSUME NEW r, NEW e, r = [by |-> r.by, msg |-> r.msg, live |-> r.live]
  PROVE  /\ [r EXCEPT !.live = e] = [by |-> r.by, msg |-> r.msg, live |-> e]
         /\ [r EXCEPT !.msg = e] = [by |-> r.by, msg |-> e, live |-> r.live]
  <1>1. PICK a, b, c : r = [by |-> a, msg |-> b, live |-> c]
    OBVIOUS
  <1>2. r.by = a /\ r.msg = b /\ r.live = c
    BY <1>1
  <1>3. [r EXCEPT !.live = e] = [by |-> a, msg |-> b, live |-> e]
    BY <1>1
  <1>4. [r EXCEPT !.msg = e] = [by |-> a, msg |-> e, live |-> c]
    BY <1>1
  <1>5. QED
    BY <1>2, <1>3, <1>4

LEMMA LockValues ==
  /\ Free = [by |-> Free.by, msg |-> Free.msg, live |-> Free.live] /\ Free.by \in Worker \cup {NoWorker}
  /\ Parked = [by |-> Parked.by, msg |-> Parked.msg, live |-> Parked.live] /\ Parked.by \in Worker \cup {NoWorker}
  /\ \A m : LET x == [Parked EXCEPT !.msg = m] IN
       x = [by |-> x.by, msg |-> x.msg, live |-> x.live] /\ x.by \in Worker \cup {NoWorker}
  <1>1. Parked = [by |-> Parked.by, msg |-> Parked.msg, live |-> Parked.live] /\ Parked.by = NoWorker
    BY DEF Parked
  <1>2. \A m : [Parked EXCEPT !.msg = m] = [by |-> NoWorker, msg |-> m, live |-> Parked.live]
    BY <1>1, LockFields, Zenon
  <1>3. QED
    BY <1>1, <1>2 DEF Free, Parked

\* A worker goes on within its call, with the lease it had, or less of it.
LEMMA GoesOn ==
  ASSUME IInv, NEW w \in Worker, NEW r, Become(w, r), Lease(r), UNCHANGED <<backend, lock, late>>,
         Runs(r) => Holding(w) /\ r.group = worker[w].group
  PROVE  IInv'
  <1>1. WorkerShape' /\ \A v \in Worker : worker'[v] = IF v = w THEN r ELSE worker[v]
    BY BecomeShape
  <1>2. Held'
    BY <1>1 DEF IInv, Held, Holding, Runs, Locked, Robbed
  <1>3. QED
    BY <1>1, <1>2, LockSame DEF IInv, Shape

LEMMA NextCall ==
  ASSUME IInv, NEW w \in Worker, NEW pc, WorkerTo(w, pc), UNCHANGED <<backend, lock, late>>,
         worker[w].pc # "idle", worker[w].pc \in {"recheck", "ready"} => pc \in {"recheck", "ready"},
         pc # "idle", pc \in {"park", "return"} => backend = "redis"
  PROVE  IInv'
  <1> DEFINE r == [pc |-> pc, group |-> worker[w].group, msg |-> worker[w].msg, timely |-> worker[w].timely]
  <1>1. r = [worker[w] EXCEPT !.pc = pc]
    <2>1. worker[w] = [pc |-> worker[w].pc, group |-> worker[w].group,
                       msg |-> worker[w].msg, timely |-> worker[w].timely]
      BY LeaseOf DEF Lease
    <2>2. QED
      BY <2>1
  <1>2. Become(w, r)
    BY <1>1 DEF Become, WorkerTo, IInv, Shape, WorkerShape
  <1>3. Lease(r)
    BY LeaseOf DEF Lease
  <1>4. Runs(r) => Holding(w) /\ r.group = worker[w].group
    BY LeaseOf DEF Runs
  <1> HIDE DEF r
  <1>5. QED
    BY <1>2, <1>3, <1>4, GoesOn

\* A worker's lease ends; what it does to its group's lock it may do, or it leaves a note.
LEMMA LetsGo ==
  ASSUME IInv, NEW w \in Worker, NEW r, Become(w, r), Lease(r), ~Runs(r), UNCHANGED backend,
         late \subseteq late', LockShape',
         \A h \in Group : h # worker[w].group => lock'[h] = lock[h],
         \/ UNCHANGED lock
         \/ Holding(w)
         \/ lock[worker[w].group].by = w
         \/ worker[w].group \in late' /\ backend \notin Fenced
  PROVE  IInv'
  <1>1. WorkerShape' /\ \A v \in Worker : worker'[v] = IF v = w THEN r ELSE worker[v]
    BY BecomeShape
  <1>2. ASSUME NEW v \in Worker, Holding(v)'
        PROVE  Locked(v)' \/ Robbed(worker[v].group)'
    <2>1. v # w /\ worker'[v] = worker[v] /\ Holding(v)
      BY <1>1, <1>2 DEF Holding, Runs
    <2>2. worker[v].group \in Group
      BY <2>1, LeaseOf DEF Lease, Holding
    <2>3. CASE Robbed(worker[v].group)
      BY <2>1, <2>3 DEF Robbed
    <2>4. CASE Locked(v)
      <3>1. CASE lock'[worker[v].group] = lock[worker[v].group]
        BY <2>1, <2>4, <3>1 DEF Locked
      <3>2. CASE worker[v].group = worker[w].group
        BY <2>1, <2>4, <3>1, <3>2 DEF Locked, Robbed, IInv, Held
      <3>3. QED
        BY <2>2, <3>1, <3>2
    <2>5. QED
      BY <2>1, <2>3, <2>4 DEF IInv, Held
  <1>3. QED
    BY <1>1, <1>2 DEF IInv, Shape, Held

LEMMA Stops ==
  ASSUME IInv, NEW w \in Worker, Become(w, Idle), UNCHANGED backend, late \subseteq late',
         \/ UNCHANGED lock
         \/ /\ \/ SetLock(worker[w].group, Free) \/ SetLock(worker[w].group, Parked)
               \/ \E m : SetLock(worker[w].group, [Parked EXCEPT !.msg = m])
            /\ \/ Holding(w)
               \/ lock[worker[w].group].by = w
               \/ worker[w].group \in late' /\ backend \notin Fenced
  PROVE  IInv'
  <1>1. LockShape' /\ \A h \in Group : h # worker[w].group => lock'[h] = lock[h]
    <2>1. CASE UNCHANGED lock
      BY <2>1, LockSame
    <2>2. CASE SetLock(worker[w].group, Free) \/ SetLock(worker[w].group, Parked)
      BY <2>2, LockValues, LockChange
    <2>3. CASE \E m : SetLock(worker[w].group, [Parked EXCEPT !.msg = m])
      <3>1. PICK m : SetLock(worker[w].group, [Parked EXCEPT !.msg = m])
        BY <2>3
      <3>2. QED
        BY <3>1, LockValues, LockChange
    <2>4. QED
      BY <2>1, <2>2, <2>3
  <1>2. QED
    BY <1>1, IdleLease, LetsGo

\* A worker that was idle is given a group whose lock was not live.
LEMMA Takes ==
  ASSUME IInv, NEW w \in Worker, NEW g \in Group, NEW pc, NEW m, NEW n,
         worker[w] = Idle, ~lock[g].live, SetLock(g, HeldBy(w, m)), Become(w, Leased(pc, g, n)),
         pc \notin {"idle", "park", "return"}, UNCHANGED <<backend, late>>
  PROVE  IInv'
  <1>1. LockShape' /\ \A h \in Group : lock'[h] = IF h = g THEN HeldBy(w, m) ELSE lock[h]
    BY LockChange DEF HeldBy
  <1>2. Lease(Leased(pc, g, n))
    BY DEF Lease, Leased
  <1>3. WorkerShape' /\ \A v \in Worker : worker'[v] = IF v = w THEN Leased(pc, g, n) ELSE worker[v]
    BY <1>2, BecomeShape
  <1>4. ASSUME NEW v \in Worker, Holding(v)'
        PROVE  Locked(v)' \/ Robbed(worker[v].group)'
    <2>1. CASE v = w
      BY <1>1, <1>3, <2>1 DEF Locked, Leased, HeldBy
    <2>2. CASE v # w
      <3>1. worker'[v] = worker[v] /\ Holding(v) /\ worker[v].group \in Group
        BY <1>3, <1>4, <2>2, LeaseOf DEF Holding, Lease
      <3>2. QED
        BY <1>1, <3>1 DEF IInv, Held, Locked, Robbed
    <2>3. QED
      BY <2>1, <2>2
  <1>5. QED
    BY <1>1, <1>3, <1>4 DEF IInv, Shape, Held

LEMMA Quiet ==
  ASSUME IInv, UNCHANGED <<backend, lock, worker, late>>
  PROVE  IInv'
  BY DEF IInv, Shape, LockShape, WorkerShape, Held, Holding, Locked, Robbed
-----------------------------------------------------------------------------
(* The calls *)

LEMMA SendKeeps ==
  ASSUME IInv, NEW s \in Sender, Send(s) \/ CrashSender(s)
  PROVE  IInv'
  <1>1. CASE CrashSender(s)
    BY <1>1, Quiet DEF CrashSender
  <1>2. CASE TwoStatements(s) \/ PublishAtOnce(s)
    BY <1>2, Quiet DEF TwoStatements, PublishAtOnce, InsertFirst, RegisterNext
  <1>3. CASE Allocate(s) \/ InsertOne(s) \/ UpsertGroup(s) \/ CommitBoth(s)
    BY <1>3, Quiet DEF Allocate, InsertOne, UpsertGroup, CommitBoth
  <1>4. QED
    BY <1>1, <1>2, <1>3 DEF Send, SqlitePublish, AioSqlitePublish, LibsqlPublish, AioLibsqlPublish,
      RqlitePublish, AioRqlitePublish, RedisPublish, AioRedisPublish, InMemoryPublish, AioInMemoryPublish,
      MongoPublish, AioMongoPublish, PostgresPublish, AioPostgresPublish, TwoStatements

LEMMA TakeHeadKeeps ==
  ASSUME IInv, NEW w \in Worker, NEW g \in Group, NEW pc, TakeHead(w, g, pc),
         pc \notin {"idle", "park", "return"}
  PROVE  IInv'
  <1>1. ~lock[g].live
    BY DEF TakeHead, Foremost, First, Claimable, Due
  <1>2. QED
    BY <1>1, Takes DEF TakeHead

LEMMA ClaimKeeps ==
  ASSUME IInv, NEW w \in Worker, Claim(w)
  PROVE  IInv'
  <1>1. CASE ScriptNothing(w)
    BY <1>1, Quiet DEF ScriptNothing
  <1>2. ASSUME NEW g \in Group, TakeHead(w, g, "work") \/ TakeHead(w, g, "read")
        PROVE  IInv'
    BY <1>2, TakeHeadKeeps
  <1>3. ASSUME NEW g \in Group, LeaseDocument(w, g)
        PROVE  IInv'
    <2>1. ~lock[g].live
      BY <1>3 DEF LeaseDocument, First, Due
    <2>2. QED
      BY <1>3, <2>1, Takes DEF LeaseDocument
  <1>4. QED
    BY <1>1, <1>2, <1>3 DEF Claim, SqliteClaim, AioSqliteClaim, LibsqlClaim, AioLibsqlClaim,
      InMemoryClaim, AioInMemoryClaim, RqliteClaim, AioRqliteClaim, PostgresClaim, AioPostgresClaim,
      RedisClaim, AioRedisClaim, MongoClaim, AioMongoClaim, ClaimInOne, LeaseMessage, FunctionClaim, ScriptClaim
\* A worker whose lease runs has its lock, or its group was robbed; noting the late covers both.
LEMMA Noted ==
  ASSUME IInv, NEW w \in Worker, worker[w].pc \notin {"idle", "recheck", "ready"}, NoteLate(w), backend \notin Fenced
  PROVE  /\ late \subseteq late'
         /\ Holding(w) \/ (worker[w].group \in late' /\ backend \notin Fenced)
  BY DEF NoteLate, Holding, IInv, Shape, WorkerShape

LEMMA AckKeeps ==
  ASSUME IInv, NEW w \in Worker,
         \/ backend \notin Fenced /\ AckBySeq(w)
         \/ FunctionAck(w) \/ ScriptAck(w)
  PROVE  IInv'
  <1>1. CASE backend \notin Fenced /\ AckBySeq(w)
    <2>1. late \subseteq late' /\ (Holding(w) \/ (worker[w].group \in late' /\ backend \notin Fenced))
      BY <1>1, Noted DEF AckBySeq
    <2>2. UNCHANGED lock \/ SetLock(worker[w].group, Free)
      BY <1>1 DEF AckBySeq, SetLock
    <2>3. QED
      BY <1>1, <2>1, <2>2, Stops DEF AckBySeq
  <1>2. CASE FunctionAck(w)
    BY <1>2, Stops DEF FunctionAck, Owns
  <1>3. CASE ScriptAck(w)
    BY <1>3, Stops DEF ScriptAck
  <1>4. QED
    BY <1>1, <1>2, <1>3

LEMMA RqliteKeeps ==
  ASSUME IInv, NEW w \in Worker, ReadLeased(w) \/ TouchGroup(w)
  PROVE  IInv'
  <1>1. CASE ReadLeased(w)
    BY <1>1, Stops, NextCall DEF ReadLeased
  <1>2. CASE TouchGroup(w)
    BY <1>2, NextCall DEF TouchGroup
  <1>3. QED
    BY <1>1, <1>2

LEMMA MongoKeeps ==
  ASSUME IInv, NEW w \in Worker,
         ReadOldest(w) \/ AckCallByCall(w) \/ DropGroup(w) \/ LookAgain(w) \/ ReadyAgain(w)
  PROVE  IInv'
  <1>1. CASE ReadOldest(w)
    <2>1. worker[w].pc = "read" /\ Lease(worker[w]) /\ (Holding(w) <=> Runs(worker[w]))
      BY <1>1, LeaseOf DEF ReadOldest
    <2>2. PICK r : /\ Become(w, r)
                   /\ \/ r = [worker[w] EXCEPT !.pc = "drop"]
                      \/ r = [worker[w] EXCEPT !.pc = "work", !.msg = Oldest(worker[w].group)]
      BY <1>1 DEF ReadOldest
    <2>3. Lease(r) /\ r.group = worker[w].group /\ r.timely = worker[w].timely
      BY <2>1, <2>2 DEF Lease
    <2>4. Runs(r) => Holding(w) /\ r.group = worker[w].group
      BY <2>1, <2>3 DEF Runs
    <2>5. QED
      BY <1>1, <2>2, <2>3, <2>4, GoesOn DEF ReadOldest
  <1>2. CASE AskToken(w)
    BY <1>2, Stops, NextCall DEF AskToken
  <1>3. CASE DeleteMessage(w) \/ LookRemaining(w)
    BY <1>3, NextCall DEF DeleteMessage, LookRemaining
  <1>4. CASE FreeGroup(w)
    BY <1>4, Stops DEF FreeGroup, Owns
  <1>5. CASE DropGroup(w)
    <2>1. CASE ~Owns(w)
      BY <1>5, <2>1, Stops DEF DropGroup
    <2>2. CASE Owns(w)
      <3> DEFINE r == [pc |-> "recheck", group |-> worker[w].group, msg |-> worker[w].msg,
                       timely |-> worker[w].timely]
      <3>1. worker[w].pc = "drop" /\ Lease(worker[w])
        BY <1>5, LeaseOf DEF DropGroup
      <3>2. r = [worker[w] EXCEPT !.pc = "recheck"]
        <4>1. worker[w] = [pc |-> worker[w].pc, group |-> worker[w].group,
                           msg |-> worker[w].msg, timely |-> worker[w].timely]
          BY <3>1 DEF Lease
        <4>2. QED
          BY <4>1
      <3>3. Become(w, r)
        BY <1>5, <2>2, <3>2 DEF DropGroup, WorkerTo, Become, IInv, Shape, WorkerShape
      <3>4. Lease(r) /\ ~Runs(r)
        BY <3>1 DEF Lease, Runs
      <3>5. LockShape' /\ \A h \in Group : h # worker[w].group => lock'[h] = lock[h]
        BY <1>5, <2>2, LockValues, LockChange DEF DropGroup
      <3> HIDE DEF r
      <3>6. QED
        BY <1>5, <2>2, <3>3, <3>4, <3>5, LetsGo DEF DropGroup, Owns
    <2>3. QED
      BY <2>1, <2>2
  <1>6. CASE LookAgain(w)
    BY <1>6, Stops, NextCall DEF LookAgain
  <1>7. CASE ReadyAgain(w)
    BY <1>7, Stops DEF ReadyAgain
  <1>8. QED
    BY <1>1, <1>2, <1>3, <1>4, <1>5, <1>6, <1>7 DEF AckCallByCall

LEMMA SetScoreAndKeyKeeps ==
  ASSUME IInv, NEW w \in Worker, SetScoreAndKey(w)
  PROVE  IInv'
  <1>1. backend \notin Fenced
    BY LeaseOf DEF SetScoreAndKey, Lease, Fenced
  <1>2. late \subseteq late' /\ (Holding(w) \/ (worker[w].group \in late' /\ backend \notin Fenced))
    BY <1>1, Noted DEF SetScoreAndKey
  <1>3. SetLock(worker[w].group, Free) \/ SetLock(worker[w].group, Parked)
    BY DEF SetScoreAndKey
  <1>4. QED
    BY <1>2, <1>3, Stops DEF SetScoreAndKey

LEMMA GoKeeps ==
  ASSUME IInv, NEW w \in Worker, Go(w)
  PROVE  IInv'
  BY RqliteKeeps, SetScoreAndKeyKeeps, MongoKeeps, AckKeeps
     DEF Go, SqliteAck, AioSqliteAck, LibsqlAck, AioLibsqlAck, InMemoryAck, AioInMemoryAck, RqliteAck,
         AioRqliteAck, PostgresAck, AioPostgresAck, RedisAck, AioRedisAck, MongoAck, AioMongoAck,
         MongoDropGroup, AioMongoDropGroup, On, Fenced

LEMMA NackKeeps ==
  ASSUME IInv, NEW w \in Worker, Nack(w)
  PROVE  IInv'
  <1>1. ASSUME NEW parks \in BOOLEAN, NackBySeq(w, parks), backend \notin Fenced
        PROVE  IInv'
    <2>1. late \subseteq late' /\ (Holding(w) \/ (worker[w].group \in late' /\ backend \notin Fenced))
      BY <1>1, Noted DEF NackBySeq, Nacks
    <2>2. \/ UNCHANGED lock
          \/ SetLock(worker[w].group, Free)
          \/ \E m : SetLock(worker[w].group, [Parked EXCEPT !.msg = m])
      BY <1>1 DEF NackBySeq
    <2>3. QED
      BY <1>1, <2>1, <2>2, Stops DEF NackBySeq
  <1>2. ASSUME NEW parks \in BOOLEAN, TokenNack(w, parks)
        PROVE  IInv'
    BY <1>2, Stops DEF TokenNack, Owns
  <1>3. ASSUME NEW parks \in BOOLEAN, AskKey(w, parks), backend = "redis"
        PROVE  IInv'
    BY <1>3, Stops, NextCall DEF AskKey, Nacks
  <1>4. QED
    BY <1>1, <1>2, <1>3 DEF Nack, SqliteNack, AioSqliteNack, LibsqlNack, AioLibsqlNack, InMemoryNack,
      AioInMemoryNack, RqliteNack, AioRqliteNack, PostgresNack, AioPostgresNack, MongoNack, AioMongoNack,
      RedisNack, AioRedisNack, On, Fenced

\* The time of a lock and of the lease that goes with it run out together.
LEMMA LapseKeeps ==
  ASSUME IInv, NEW g \in Group, Lapse(g)
  PROVE  IInv'
  <1> DEFINE u == lock[g].by
             holds == u \in Worker /\ worker[u].pc # "idle" /\ worker[u].group = g /\ worker[u].timely
             x == [by |-> lock[g].by, msg |-> lock[g].msg, live |-> FALSE]
  <1>1. SetLock(g, Free) \/ SetLock(g, x)
    <2>1. lock[g] = [by |-> lock[g].by, msg |-> lock[g].msg, live |-> lock[g].live]
      BY DEF IInv, Shape, LockShape
    <2>2. x = [lock[g] EXCEPT !.live = FALSE]
      BY <2>1, LockFields, Zenon
    <2>3. QED
      BY <2>2 DEF Lapse
  <1>2. x.by \in Worker \cup {NoWorker}
    BY DEF IInv, Shape, LockShape
  <1>3. LockShape' /\ \A h \in Group : h # g => lock'[h] = lock[h]
    BY <1>1, <1>2, LockValues, LockChange
  <1>4. /\ UNCHANGED <<backend, late>>
        /\ worker' = IF holds THEN [worker EXCEPT ![u].timely = FALSE] ELSE worker
    BY DEF Lapse
  <1>5. CASE ~holds
    <2>1. worker' = worker
      BY <1>4, <1>5
    <2>2. \A v \in Worker : Holding(v) /\ worker[v].group = g => Robbed(g)
      BY <1>5, LeaseOf DEF IInv, Held, Locked, Holding, Lease
    <2>3. Held'
      <3> SUFFICES ASSUME NEW v \in Worker, Holding(v) PROVE Locked(v)' \/ Robbed(worker[v].group)'
        BY <2>1 DEF Held, Holding
      <3>1. worker[v].group \in Group
        BY LeaseOf DEF Holding, Lease
      <3>2. CASE worker[v].group = g
        BY <1>4, <2>1, <2>2, <3>2 DEF Robbed
      <3>3. CASE worker[v].group # g
        BY <1>3, <1>4, <2>1, <3>1, <3>3 DEF IInv, Held, Locked, Robbed
      <3>4. QED
        BY <3>2, <3>3
    <2>4. QED
      BY <1>3, <1>4, <2>1, <2>3 DEF IInv, Shape, WorkerShape
  <1>6. CASE holds
    <2> DEFINE r == [pc |-> worker[u].pc, group |-> worker[u].group, msg |-> worker[u].msg, timely |-> FALSE]
    <2>1. worker[u] = [pc |-> worker[u].pc, group |-> worker[u].group, msg |-> worker[u].msg,
                       timely |-> worker[u].timely]
      BY <1>6, LeaseOf DEF Lease
    <2>2. r = [worker[u] EXCEPT !.timely = FALSE]
      BY <2>1, Timely, Zenon
    <2>3. Become(u, r)
      BY <1>4, <1>6, <2>2 DEF Become, IInv, Shape, WorkerShape
    <2>4. Lease(r) /\ ~Runs(r)
      BY <1>6, LeaseOf DEF Lease, Runs
    <2>5. u \in Worker /\ worker[u].group = g /\ lock[worker[u].group].by = u
      BY <1>6
    <2> HIDE DEF r
    <2>6. QED
      BY <1>3, <1>4, <2>3, <2>4, <2>5, LetsGo
  <1>7. QED
    BY <1>5, <1>6

LEMMA OverstayKeeps ==
  ASSUME IInv, NEW w \in Worker, Overstay(w)
  PROVE  IInv'
  <1> DEFINE r == [pc |-> worker[w].pc, group |-> worker[w].group, msg |-> worker[w].msg, timely |-> FALSE]
  <1>1. worker[w] = [pc |-> worker[w].pc, group |-> worker[w].group, msg |-> worker[w].msg,
                     timely |-> worker[w].timely]
    BY LeaseOf DEF Lease
  <1>2. r = [worker[w] EXCEPT !.timely = FALSE]
    BY <1>1, Timely, Zenon
  <1>3. Become(w, r)
    BY <1>2 DEF Overstay, Become, IInv, Shape, WorkerShape
  <1>4. Lease(r) /\ ~Runs(r)
    BY LeaseOf DEF Lease, Runs
  <1> HIDE DEF r
  <1>5. QED
    BY <1>3, <1>4, GoesOn DEF Overstay

LEMMA StepKeeps ==
  ASSUME IInv, [Next]_vars
  PROVE  IInv'
  <1>1. CASE UNCHANGED vars
    BY <1>1, Quiet DEF vars
  <1>2. ASSUME NEW w \in Worker, CrashWorker(w)
        PROVE  IInv'
    BY <1>2, Stops DEF CrashWorker
  <1>3. QED
    BY <1>1, <1>2, SendKeeps, ClaimKeeps, GoKeeps, NackKeeps, OverstayKeeps, LapseKeeps DEF Next

LEMMA InitKeeps == Init => IInv
  <1> SUFFICES ASSUME Init PROVE IInv
    OBVIOUS
  <1>1. \A g \in Group : lock[g] = Free
    BY DEF Init
  <1>2. \A w \in Worker : worker[w] = Idle
    BY DEF Init
  <1>3. LockShape
    <2>1. \A g \in Group : lock[g] = [by |-> lock[g].by, msg |-> lock[g].msg, live |-> lock[g].live]
                           /\ lock[g].by \in Worker \cup {NoWorker}
      BY <1>1, LockValues
    <2>2. lock = [g \in Group |-> lock[g]]
      BY DEF Init
    <2>3. QED
      BY <2>1, <2>2 DEF LockShape
  <1>4. WorkerShape
    <2>1. \A w \in Worker : Lease(worker[w])
      BY <1>2, IdleLease
    <2>2. worker = [w \in Worker |-> worker[w]]
      BY DEF Init
    <2>3. QED
      BY <2>1, <2>2 DEF WorkerShape, Lease
  <1>5. Held
    BY <1>2, IdleLease DEF Held, Holding, Runs
  <1>6. QED
    BY <1>3, <1>4, <1>5 DEF IInv, Shape

\* Two workers whose leases still run never have one group: on Postgres and Mongo at all, on the
\* others unless a process settled or returned, after its own lease had ended, what another held.
THEOREM OneWorkerPerGroup == Spec => []OneInFlight
  <1>1. IInv /\ [Next]_vars => IInv'
    BY StepKeeps
  <1>2. IInv => OneInFlight
    BY DEF IInv, Held, Locked, Robbed, OneInFlight
  <1>3. QED
    BY <1>1, <1>2, InitKeeps, PTL DEF Spec
-----------------------------------------------------------------------------
(* The rows of a group: each holds a message its sender has begun to publish, in the order of  *)
(* its script, and is out of sight exactly while the call that inserts it has not committed.   *)

Slot == [msg : Msg, visible : BOOLEAN]
Unseen == {"insert", "create", "commit"}

SenderShape(P) ==
  /\ P = [s \in Sender |-> [pc |-> P[s].pc, at |-> P[s].at]]
  /\ \A s \in Sender :
       /\ P[s].pc \in Unseen \cup {"idle", "register"}
       /\ P[s].at \in Nat \ {0}
       /\ P[s].pc # "idle" => P[s].at \in DOMAIN Script[s]

Begun(P, s, a, x) ==
  /\ s \in Sender /\ a \in DOMAIN Script[s] /\ Script[s][a] = x.msg
  /\ a < P[s].at \/ (a = P[s].at /\ P[s].pc # "idle")
  /\ x.visible = ~ (a = P[s].at /\ P[s].pc \in Unseen)

SlotShape(P, g, x) == x \in Slot /\ GroupOf[x.msg] = g /\ \E s, a : Begun(P, s, a, x)

InScriptOrder(q) ==
  \A i, j \in DOMAIN q : i < j =>
    \A s \in Sender : \A a, b \in DOMAIN Script[s] :
      Script[s][a] = q[i].msg /\ Script[s][b] = q[j].msg => a < b

RowShape(P, g, q) ==
  /\ q \in Seq(Slot)
  /\ \A i \in DOMAIN q : SlotShape(P, g, q[i])
  /\ InScriptOrder(q)

QueueShape == /\ queue = [g \in Group |-> queue[g]]
              /\ \A g \in Group : RowShape(sender, g, queue[g])

\* A message has one author and one place.
LEMMA OneAuthor ==
  ASSUME NEW s \in Sender, NEW t \in Sender, NEW a \in DOMAIN Script[s], NEW b \in DOMAIN Script[t],
         Script[s][a] = Script[t][b]
  PROVE  s = t /\ a = b
  BY TransportAssumption

LEMMA ScriptType ==
  ASSUME NEW s \in Sender
  PROVE  /\ Script[s] \in Seq(Msg) /\ Len(Script[s]) \in Nat /\ DOMAIN Script[s] = 1 .. Len(Script[s])
         /\ \A a \in DOMAIN Script[s] : a \in Nat /\ Script[s][a] \in Msg /\ GroupOf[Script[s][a]] \in Group
  <1>1. Script[s] \in Seq(Msg) /\ GroupOf \in [Msg -> Group]
    BY TransportAssumption
  <1>2. QED
    BY <1>1

LEMMA OnePlace ==
  ASSUME NEW P, NEW g, NEW q, RowShape(P, g, q), NEW i \in DOMAIN q, NEW j \in DOMAIN q, q[i].msg = q[j].msg
  PROVE  i = j
  <1>1. PICK s, a : Begun(P, s, a, q[i])
    BY DEF RowShape, SlotShape
  <1>2. a \in Nat /\ i \in Nat /\ j \in Nat
    BY <1>1, ScriptType DEF Begun, RowShape
  <1>3. ~ (i < j) /\ ~ (j < i)
    BY <1>1, <1>2 DEF Begun, RowShape, InScriptOrder
  <1>4. QED
    BY <1>2, <1>3

\* A sender goes on; the rows but those of its present message are as they were.
LEMMA SenderGoes ==
  ASSUME NEW P, SenderShape(P), NEW s \in Sender, NEW r, NEW P2, P2 = [P EXCEPT ![s] = r],
         r = [pc |-> r.pc, at |-> r.at], r.pc \in Unseen \cup {"idle", "register"},
         P[s].at \in DOMAIN Script[s],
         \/ r.at = P[s].at /\ r.pc # "idle"
         \/ r.at = P[s].at + 1 /\ r.pc = "idle"
  PROVE  /\ SenderShape(P2)
         /\ \A g, x : SlotShape(P, g, x) /\ x.msg # Script[s][P[s].at] => SlotShape(P2, g, x)
         /\ \A v \in BOOLEAN : v = (r.pc \notin Unseen) =>
              SlotShape(P2, GroupOf[Script[s][P[s].at]], [msg |-> Script[s][P[s].at], visible |-> v])
  <1>1. P2[s] = r /\ \A t \in Sender : t # s => P2[t] = P[t]
    BY DEF SenderShape
  <1>2. P[s].at \in Nat \ {0} /\ r.at \in Nat \ {0}
    BY DEF SenderShape
  <1>3. SenderShape(P2)
    <2>1. P2 = [t \in Sender |-> P2[t]]
      <3>1. P = [t \in Sender |-> P[t]]
        BY DEF SenderShape
      <3>2. QED
        BY <3>1
    <2>2. \A t \in Sender : P2[t] = [pc |-> P2[t].pc, at |-> P2[t].at]
      BY <1>1 DEF SenderShape
    <2>3. \A t \in Sender : /\ P2[t].pc \in Unseen \cup {"idle", "register"}
                            /\ P2[t].at \in Nat \ {0}
                            /\ P2[t].pc # "idle" => P2[t].at \in DOMAIN Script[t]
      BY <1>1, <1>2 DEF SenderShape
    <2>4. QED
      BY <2>1, <2>2, <2>3 DEF SenderShape
  <1>4. ASSUME NEW g, NEW x, SlotShape(P, g, x), x.msg # Script[s][P[s].at]
        PROVE  SlotShape(P2, g, x)
    <2>1. PICK t, a : Begun(P, t, a, x)
      BY <1>4 DEF SlotShape
    <2>2. t \in Sender /\ a \in DOMAIN Script[t] /\ a \in Nat
      BY <2>1, ScriptType DEF Begun
    <2>3. CASE t # s
      BY <1>1, <1>4, <2>1, <2>2, <2>3 DEF Begun, SlotShape
    <2>4. CASE t = s
      <3>1. a # P[s].at
        BY <1>4, <2>1, <2>4 DEF Begun
      <3>2. Begun(P2, s, a, x)
        BY <1>1, <1>2, <2>1, <2>2, <2>4, <3>1 DEF Begun
      <3>3. QED
        BY <1>4, <3>2 DEF SlotShape
    <2>5. QED
      BY <2>3, <2>4
  <1>5. ASSUME NEW v \in BOOLEAN, v = (r.pc \notin Unseen)
        PROVE  SlotShape(P2, GroupOf[Script[s][P[s].at]], [msg |-> Script[s][P[s].at], visible |-> v])
    <2> DEFINE x == [msg |-> Script[s][P[s].at], visible |-> v]
    <2>1. x \in Slot /\ x.msg = Script[s][P[s].at] /\ x.visible = v
      BY ScriptType DEF Slot
    <2> HIDE DEF x
    <2>2. Begun(P2, s, P[s].at, x)
      BY <1>1, <1>2, <1>5, <2>1 DEF Begun, Unseen
    <2>3. QED
      BY <2>1, <2>2 DEF SlotShape, x
  <1>6. QED
    BY <1>3, <1>4, <1>5
-----------------------------------------------------------------------------
(* What the calls do to the rows of a group *)

\* A row that comes at the end, or comes into sight, at k.
Shows(q, q2, k, x) ==
  /\ q2 \in Seq(Slot) /\ k \in Nat /\ DOMAIN q2 = DOMAIN q \cup {k} /\ q2[k] = x
  /\ \A i \in DOMAIN q : i # k => q2[i] = q[i]
  /\ k \in DOMAIN q => q[k].msg = x.msg /\ ~q[k].visible

\* The row at k is deleted.
Cuts(q, q2, k) ==
  /\ q2 \in Seq(Slot) /\ k \in DOMAIN q
  /\ \A i \in DOMAIN q2 : i \in Nat /\ q2[i] = (IF i < k THEN q[i] ELSE q[i + 1])
                          /\ (i < k => i \in DOMAIN q) /\ (i >= k => i + 1 \in DOMAIN q)
  /\ \A i \in DOMAIN q : i \in Nat /\ (i < k => i \in DOMAIN q2) /\ (i > k => i - 1 \in DOMAIN q2)

LEMMA Appended ==
  ASSUME NEW q \in Seq(Slot), NEW x \in Slot
  PROVE  Shows(q, Append(q, x), Len(q) + 1, x)
  <1>1. Append(q, x) \in Seq(Slot) /\ Len(q) \in Nat /\ DOMAIN q = 1 .. Len(q)
    OBVIOUS
  <1>2. DOMAIN Append(q, x) = 1 .. Len(q) + 1
    BY <1>1
  <1>3. \A i \in DOMAIN q : Append(q, x)[i] = q[i]
    BY <1>1
  <1>4. Append(q, x)[Len(q) + 1] = x /\ Len(q) + 1 \notin DOMAIN q
    BY <1>1
  <1>5. DOMAIN Append(q, x) = DOMAIN q \cup {Len(q) + 1}
    BY <1>1, <1>2
  <1>6. QED
    BY <1>1, <1>3, <1>4, <1>5 DEF Shows

LEMMA CutAt ==
  ASSUME NEW q \in Seq(Slot), NEW k \in DOMAIN q
  PROVE  Cuts(q, RemoveAt(q, k), k)
  <1> DEFINE a == SubSeq(q, 1, k - 1)
             b == SubSeq(q, k + 1, Len(q))
  <1>1. PICK n \in Nat : n = Len(q)
    OBVIOUS
  <1>2. DOMAIN q = 1 .. n /\ k \in 1 .. n /\ k \in Nat /\ \A i \in 1 .. n : q[i] \in Slot
    BY <1>1
  <1>3. a \in Seq(Slot) /\ Len(a) = k - 1 /\ \A i \in 1 .. k - 1 : a[i] = q[i]
    BY <1>1, <1>2
  <1>4. b \in Seq(Slot) /\ Len(b) = n - k /\ \A i \in 1 .. n - k : b[i] = q[k + i]
    BY <1>1, <1>2
  <1>5. RemoveAt(q, k) = a \o b
    BY DEF RemoveAt
  <1> HIDE DEF a, b
  <1>6. /\ a \o b \in Seq(Slot) /\ Len(a \o b) = n - 1
        /\ \A i \in 1 .. n - 1 : (a \o b)[i] = IF i <= k - 1 THEN a[i] ELSE b[i - (k - 1)]
    BY <1>2, <1>3, <1>4
  <1>7. PICK c : c = RemoveAt(q, k)
    OBVIOUS
  <1>8. c \in Seq(Slot) /\ DOMAIN c = 1 .. n - 1
    BY <1>5, <1>6, <1>7
  <1>9. \A i \in 1 .. n - 1 : c[i] = IF i < k THEN q[i] ELSE q[i + 1]
    <2> SUFFICES ASSUME NEW i \in 1 .. n - 1 PROVE c[i] = IF i < k THEN q[i] ELSE q[i + 1]
      OBVIOUS
    <2>1. CASE i < k
      BY <1>2, <1>3, <1>5, <1>6, <1>7, <2>1
    <2>2. CASE ~(i < k)
      <3>1. i - (k - 1) \in 1 .. n - k /\ k + (i - (k - 1)) = i + 1 /\ ~(i <= k - 1)
        BY <1>2, <2>2
      <3>2. c[i] = b[i - (k - 1)]
        BY <1>5, <1>6, <1>7, <3>1
      <3>3. QED
        BY <1>4, <2>2, <3>1, <3>2
    <2>3. QED
      BY <2>1, <2>2
  <1>10. QED
    BY <1>2, <1>7, <1>8, <1>9 DEF Cuts

LEMMA CutWithout ==
  ASSUME NEW P, NEW g, NEW q, RowShape(P, g, q), NEW m
  PROVE  \/ Without(q, m) = q /\ \A i \in DOMAIN q : q[i].msg # m
         \/ \E k \in DOMAIN q : q[k].msg = m /\ Cuts(q, Without(q, m), k)
  <1>1. CASE At(q, m) = {}
    BY <1>1 DEF Without, At
  <1>2. CASE At(q, m) # {}
    <2>1. PICK k : k = (CHOOSE i \in At(q, m) : TRUE)
      OBVIOUS
    <2>2. k \in At(q, m) /\ Without(q, m) = RemoveAt(q, k)
      BY <1>2, <2>1 DEF Without
    <2>3. QED
      BY <2>2, CutAt DEF At, RowShape
  <1>3. QED
    BY <1>1, <1>2

LEMMA CutTail ==
  ASSUME NEW q \in Seq(Slot), q # <<>>
  PROVE  1 \in DOMAIN q /\ Cuts(q, Tail(q), 1)
  <1>1. PICK n \in Nat : n = Len(q)
    OBVIOUS
  <1>2. DOMAIN q = 1 .. n /\ n > 0 /\ 1 \in DOMAIN q
    BY <1>1
  <1>3. Tail(q) \in Seq(Slot) /\ Len(Tail(q)) = n - 1 /\ \A i \in 1 .. n - 1 : Tail(q)[i] = q[i + 1]
    BY <1>1, <1>2
  <1>4. PICK c : c = Tail(q)
    OBVIOUS
  <1>5. DOMAIN c = 1 .. n - 1
    BY <1>3, <1>4
  <1>6. QED
    BY <1>2, <1>3, <1>4, <1>5 DEF Cuts

\* The rows keep their shape.
LEMMA CutShape ==
  ASSUME NEW P, NEW g, NEW q, RowShape(P, g, q), NEW q2, NEW k, Cuts(q, q2, k)
  PROVE  RowShape(P, g, q2)
  <1> DEFINE from(i) == IF i < k THEN i ELSE i + 1
  <1>1. \A i \in DOMAIN q2 : i \in Nat /\ from(i) \in DOMAIN q /\ q2[i] = q[from(i)]
    BY DEF Cuts
  <1>2. k \in Nat
    BY DEF Cuts
  <1>3. \A i, j \in DOMAIN q2 : i < j => from(i) < from(j)
    BY <1>1, <1>2
  <1> HIDE DEF from
  <1>4. \A i \in DOMAIN q2 : SlotShape(P, g, q2[i])
    BY <1>1 DEF RowShape
  <1>5. InScriptOrder(q2)
    BY <1>1, <1>3 DEF RowShape, InScriptOrder
  <1>6. QED
    BY <1>4, <1>5 DEF RowShape, Cuts

\* A call of a sender appends the message it publishes, or shows it.
LEMMA ShowShape ==
  ASSUME NEW P, NEW P2, NEW g, NEW q, RowShape(P, g, q), NEW s \in Sender, NEW m, P[s].at \in DOMAIN Script[s],
         m = Script[s][P[s].at], GroupOf[m] = g, NEW q2, NEW k, NEW x, Shows(q, q2, k, x), x.msg = m,
         P[s].pc = "idle" => \A i \in DOMAIN q : i < k,
         P[s].pc # "idle" => k \in DOMAIN q,
         \A y : SlotShape(P, g, y) /\ y.msg # m => SlotShape(P2, g, y), SlotShape(P2, g, x)
  PROVE  RowShape(P2, g, q2)
  <1>1. \A i \in DOMAIN q2 : i # k => i \in DOMAIN q /\ q2[i] = q[i]
    BY DEF Shows
  <1>2. \A i \in DOMAIN q : i # k => q[i].msg # m
    <2> SUFFICES ASSUME NEW i \in DOMAIN q, i # k, q[i].msg = m PROVE FALSE
      OBVIOUS
    <2>1. CASE k \in DOMAIN q
      BY <2>1, OnePlace DEF Shows
    <2>2. CASE P[s].pc = "idle"
      <3>1. PICK t, a : Begun(P, t, a, q[i])
        BY DEF RowShape, SlotShape
      <3>2. t = s /\ a = P[s].at
        BY <3>1, OneAuthor DEF Begun
      <3>3. P[s].at \in Nat
        BY ScriptType
      <3>4. QED
        BY <2>2, <3>1, <3>2, <3>3 DEF Begun
    <2>3. QED
      BY <2>1, <2>2
  <1>3. \A i \in DOMAIN q2 : SlotShape(P2, g, q2[i])
    BY <1>1, <1>2 DEF RowShape, Shows
  <1>4. InScriptOrder(q2)
    <2> SUFFICES ASSUME NEW i \in DOMAIN q2, NEW j \in DOMAIN q2, i < j,
                        NEW t \in Sender, NEW a \in DOMAIN Script[t], NEW b \in DOMAIN Script[t],
                        Script[t][a] = q2[i].msg, Script[t][b] = q2[j].msg
                 PROVE  a < b
      BY DEF InScriptOrder
    <2>1. CASE k \in DOMAIN q
      <3>1. \A h \in DOMAIN q2 : h \in DOMAIN q /\ q2[h].msg = q[h].msg
        BY <1>1, <2>1 DEF Shows
      <3>2. QED
        BY <3>1 DEF RowShape, InScriptOrder
    <2>2. CASE k \notin DOMAIN q
      <3>1. P[s].pc = "idle" /\ \A h \in DOMAIN q : h < k
        BY <2>2
      <3>2. k \in Nat /\ \A h \in DOMAIN q : h \in Nat
        BY DEF Shows, RowShape
      <3>3. i \in DOMAIN q /\ q2[i] = q[i] /\ i # k
        BY <1>1, <3>1, <3>2
      <3>4. CASE j # k
        BY <1>1, <3>3, <3>4 DEF RowShape, InScriptOrder
      <3>5. CASE j = k
        <4>1. t = s /\ b = P[s].at
          BY <3>5, OneAuthor DEF Shows
        <4>2. PICK u, c : Begun(P, u, c, q[i])
          BY <3>3 DEF RowShape, SlotShape
        <4>3. u = t /\ c = a
          BY <3>3, <4>2, OneAuthor DEF Begun
        <4>4. QED
          BY <3>1, <4>1, <4>2, <4>3 DEF Begun
      <3>6. QED
        BY <3>4, <3>5
    <2>3. QED
      BY <2>1, <2>2
  <1>5. QED
    BY <1>3, <1>4 DEF RowShape, Shows
-----------------------------------------------------------------------------
(* What the calls do to the mailbox *)

SeenIn(q) == {i \in DOMAIN q : q[i].visible}
WaitingOf(Q) == UNION {{Q[g][i].msg : i \in SeenIn(Q[g])} : g \in Group}
BeforeOf(Q) == {p \in Msg \X Msg : \E g \in Group : \E i, j \in SeenIn(Q[g]) :
                  i < j /\ p = <<Q[g][i].msg, Q[g][j].msg>>}

\* The rows of every group have their shape; those of all groups but one are as they were.
Neat(P, Q) == \A g \in Group : RowShape(P, g, Q[g])
Elsewhere(Q, Q2, g) == \A h \in Group : h # g => Q2[h] = Q[h]

LEMMA Views == /\ Waiting = WaitingOf(queue) /\ Waiting' = WaitingOf(queue')
               /\ Before = BeforeOf(queue) /\ Before' = BeforeOf(queue')
  BY DEF Waiting, Before, WaitingOf, BeforeOf, SeenIn, Messages, Visible

LEMMA WaitingIn ==
  ASSUME NEW P, NEW Q, Neat(P, Q), NEW m
  PROVE  /\ m \in WaitingOf(Q) <=> \E g \in Group : \E i \in SeenIn(Q[g]) : Q[g][i].msg = m
         /\ m \in WaitingOf(Q) => m \in Msg
         /\ m \in WaitingOf(Q) => GroupOf[m] \in Group /\ \E i \in SeenIn(Q[GroupOf[m]]) : Q[GroupOf[m]][i].msg = m
  <1>1. m \in WaitingOf(Q) <=> \E g \in Group : \E i \in SeenIn(Q[g]) : Q[g][i].msg = m
    BY DEF WaitingOf
  <1>2. \A g \in Group : \A i \in SeenIn(Q[g]) : Q[g][i].msg \in Msg /\ GroupOf[Q[g][i].msg] = g
    BY DEF SeenIn, Neat, RowShape, SlotShape, Slot
  <1>3. QED
    BY <1>1, <1>2

LEMMA BeforeIn ==
  ASSUME NEW P, NEW Q, Neat(P, Q), NEW m, NEW n
  PROVE  <<m, n>> \in BeforeOf(Q) <=> \E g \in Group : \E i, j \in SeenIn(Q[g]) :
                                        i < j /\ Q[g][i].msg = m /\ Q[g][j].msg = n
  <1>1. \A g \in Group : \A i \in SeenIn(Q[g]) : Q[g][i].msg \in Msg
    BY DEF SeenIn, Neat, RowShape, SlotShape, Slot
  <1>2. QED
    BY <1>1 DEF BeforeOf

\* Two sets of pairs of messages are equal if they have the same pairs.
LEMMA SamePairs ==
  ASSUME NEW A \in SUBSET (Msg \X Msg), NEW B \in SUBSET (Msg \X Msg),
         \A m, n \in Msg : <<m, n>> \in A <=> <<m, n>> \in B
  PROVE  A = B
  OBVIOUS

\* A message deleted from its group is deleted from the mailbox, and nothing else.
LEMMA Deleted ==
  ASSUME NEW P, NEW Q, Neat(P, Q),
         NEW Q2, Neat(P, Q2), NEW g \in Group,
         NEW m, Elsewhere(Q, Q2, g), GroupOf[m] = g,
         \/ Q2[g] = Q[g] /\ \A i \in DOMAIN Q[g] : Q[g][i].msg # m
         \/ \E k \in DOMAIN Q[g] : Q[g][k].msg = m /\ Cuts(Q[g], Q2[g], k)
  PROVE  /\ WaitingOf(Q2) = WaitingOf(Q) \ {m}
         /\ BeforeOf(Q2) = {p \in BeforeOf(Q) : m \notin {p[1], p[2]}}
  <1> USE DEF Neat, Elsewhere
  <1>1. \A h \in Group : \A i \in SeenIn(Q[h]) : i \in Nat /\ Q[h][i].msg \in Msg /\ GroupOf[Q[h][i].msg] = h
    BY DEF SeenIn, Neat, RowShape, SlotShape, Slot
  <1>2. \A h \in Group : \A i \in SeenIn(Q2[h]) : i \in Nat /\ Q2[h][i].msg \in Msg /\ GroupOf[Q2[h][i].msg] = h
    BY DEF SeenIn, Neat, RowShape, SlotShape, Slot
  <1>3. CASE Q2[g] = Q[g] /\ \A i \in DOMAIN Q[g] : Q[g][i].msg # m
    <2>1. \A h \in Group : Q2[h] = Q[h]
      BY <1>3
    <2>2. WaitingOf(Q2) = WaitingOf(Q) /\ BeforeOf(Q2) = BeforeOf(Q)
      BY <2>1 DEF WaitingOf, BeforeOf
    <2>3. \A h \in Group : \A i \in SeenIn(Q[h]) : Q[h][i].msg # m
      BY <1>1, <1>3 DEF SeenIn
    <2>4. m \notin WaitingOf(Q)
      BY <2>3 DEF WaitingOf
    <2>5. \A p \in BeforeOf(Q) : m \notin {p[1], p[2]}
      BY <2>3 DEF BeforeOf
    <2>6. QED
      BY <2>2, <2>4, <2>5
  <1>4. CASE \E k \in DOMAIN Q[g] : Q[g][k].msg = m /\ Cuts(Q[g], Q2[g], k)
    <2>1. PICK k \in DOMAIN Q[g] : Q[g][k].msg = m /\ Cuts(Q[g], Q2[g], k)
      BY <1>4
    <2> DEFINE from(i) == IF i < k THEN i ELSE i + 1
               to(i) == IF i < k THEN i ELSE i - 1
    <2>2. k \in Nat /\ \A i \in DOMAIN Q[g] : Q[g][i].msg = m => i = k
      <3>1. k \in Nat
        BY <2>1 DEF Cuts
      <3>2. RowShape(P, g, Q[g])
        OBVIOUS
      <3>3. QED
        BY <2>1, <3>1, <3>2, OnePlace
    <2>3. \A i \in SeenIn(Q2[g]) : from(i) \in SeenIn(Q[g]) /\ Q[g][from(i)].msg = Q2[g][i].msg /\ from(i) # k
      BY <1>2, <2>1, <2>2 DEF Cuts, SeenIn
    <2>4. \A i \in SeenIn(Q[g]) : i # k => to(i) \in SeenIn(Q2[g]) /\ Q2[g][to(i)].msg = Q[g][i].msg
      <3> SUFFICES ASSUME NEW i \in SeenIn(Q[g]), i # k
                   PROVE  to(i) \in SeenIn(Q2[g]) /\ Q2[g][to(i)].msg = Q[g][i].msg
        OBVIOUS
      <3>1. CASE i < k
        BY <2>1, <3>1 DEF Cuts, SeenIn
      <3>2. CASE i > k
        <4>1. i - 1 \in DOMAIN Q2[g] /\ ~(i - 1 < k) /\ (i - 1) + 1 = i
          BY <1>1, <2>1, <2>2, <3>2 DEF Cuts, SeenIn
        <4>2. Q2[g][i - 1] = Q[g][i]
          BY <2>1, <4>1 DEF Cuts
        <4>3. QED
          BY <1>1, <2>2, <3>2, <4>1, <4>2 DEF SeenIn
      <3>3. QED
        BY <1>1, <2>2, <3>1, <3>2
    <2>5. \A i, j \in SeenIn(Q2[g]) : i < j => from(i) < from(j)
      BY <1>2, <2>2
    <2>6. \A i, j \in SeenIn(Q[g]) : i # k /\ j # k /\ i < j => to(i) < to(j)
      BY <1>1, <2>2
    <2> HIDE DEF from, to
    <2>7. \A h \in Group : \A i \in SeenIn(Q2[h]) : Q2[h][i].msg # m
      BY <1>2, <2>2, <2>3 DEF SeenIn
    <2>8. WaitingOf(Q2) = WaitingOf(Q) \ {m}
      <3>1. ASSUME NEW n, n \in WaitingOf(Q2) PROVE n \in WaitingOf(Q) \ {m}
        <4>1. PICK h \in Group : \E i \in SeenIn(Q2[h]) : Q2[h][i].msg = n
          BY <3>1, WaitingIn
        <4>2. n # m
          BY <2>7, <4>1
        <4>3. \E i \in SeenIn(Q[h]) : Q[h][i].msg = n
          BY <2>3, <4>1
        <4>4. QED
          BY <4>2, <4>3, WaitingIn
      <3>2. ASSUME NEW n, n \in WaitingOf(Q) \ {m} PROVE n \in WaitingOf(Q2)
        <4>1. PICK h \in Group : \E i \in SeenIn(Q[h]) : Q[h][i].msg = n
          BY <3>2 DEF WaitingOf
        <4>2. \E i \in SeenIn(Q2[h]) : Q2[h][i].msg = n
          BY <2>1, <2>4, <3>2, <4>1
        <4>3. QED
          BY <4>2, WaitingIn
      <3>3. QED
        BY <3>1, <3>2
    <2>9. BeforeOf(Q2) = {p \in BeforeOf(Q) : m \notin {p[1], p[2]}}
      <3>1. ASSUME NEW a \in Msg, NEW b \in Msg
            PROVE  <<a, b>> \in BeforeOf(Q2) <=> <<a, b>> \in BeforeOf(Q) /\ m # a /\ m # b
        <4>1. ASSUME <<a, b>> \in BeforeOf(Q2) PROVE <<a, b>> \in BeforeOf(Q) /\ m # a /\ m # b
          <5>1. PICK h \in Group : \E i, j \in SeenIn(Q2[h]) : i < j /\ Q2[h][i].msg = a /\ Q2[h][j].msg = b
            <6>1. <<a, b>> \in BeforeOf(Q2)
              BY <4>1
            <6>2. QED
              BY <6>1 DEF BeforeOf
          <5>2. m # a /\ m # b
            BY <2>7, <5>1
          <5>3. \E i, j \in SeenIn(Q[h]) : i < j /\ Q[h][i].msg = a /\ Q[h][j].msg = b
            BY <2>3, <2>5, <5>1
          <5>4. QED
            BY <5>2, <5>3, BeforeIn
        <4>2. ASSUME <<a, b>> \in BeforeOf(Q), m # a, m # b PROVE <<a, b>> \in BeforeOf(Q2)
          <5>1. PICK h \in Group : \E i, j \in SeenIn(Q[h]) : i < j /\ Q[h][i].msg = a /\ Q[h][j].msg = b
            <6>1. <<a, b>> \in BeforeOf(Q)
              BY <4>2
            <6>2. QED
              BY <6>1 DEF BeforeOf
          <5>2. PICK i, j \in SeenIn(Q[h]) : i < j /\ Q[h][i].msg = a /\ Q[h][j].msg = b
            BY <5>1
          <5>3. CASE h = g
            <6>1. i # k /\ j # k
              BY <2>1, <4>2, <5>2, <5>3
            <6>2. to(i) < to(j) /\ to(i) \in SeenIn(Q2[g]) /\ to(j) \in SeenIn(Q2[g])
                  /\ Q2[g][to(i)].msg = a /\ Q2[g][to(j)].msg = b
              BY <2>4, <2>6, <5>2, <5>3, <6>1
            <6>3. QED
              BY <6>2, BeforeIn
          <5>4. CASE h # g
            BY <5>2, <5>4, BeforeIn
          <5>5. QED
            BY <5>3, <5>4
        <4>3. QED
          BY <4>1, <4>2
      <3>2. BeforeOf(Q2) \in SUBSET (Msg \X Msg) /\ BeforeOf(Q) \in SUBSET (Msg \X Msg)
        BY DEF BeforeOf
      <3>3. QED
        BY <3>1, <3>2, SamePairs
    <2>10. QED
      BY <2>8, <2>9
  <1>5. QED
    BY <1>3, <1>4

\* A row out of sight changes nothing of the mailbox.
LEMMA Reserved ==
  ASSUME NEW P, NEW Q, Neat(P, Q), NEW Q2, NEW g \in Group, NEW k, NEW x,
         Elsewhere(Q, Q2, g), Shows(Q[g], Q2[g], k, x), ~x.visible, k \notin DOMAIN Q[g]
  PROVE  WaitingOf(Q2) = WaitingOf(Q) /\ BeforeOf(Q2) = BeforeOf(Q)
  <1> USE DEF Elsewhere
  <1>1. SeenIn(Q2[g]) = SeenIn(Q[g]) /\ \A i \in SeenIn(Q[g]) : Q2[g][i] = Q[g][i]
    BY DEF Shows, SeenIn
  <1>2. \A h \in Group : SeenIn(Q2[h]) = SeenIn(Q[h]) /\ \A i \in SeenIn(Q[h]) : Q2[h][i] = Q[h][i]
    BY <1>1
  <1>3. \A n : n \in WaitingOf(Q2) <=> n \in WaitingOf(Q)
    BY <1>2 DEF WaitingOf
  <1>4. WaitingOf(Q2) = WaitingOf(Q)
    BY <1>3
  <1>5. BeforeOf(Q2) = BeforeOf(Q)
    BY <1>2 DEF BeforeOf
  <1>6. QED
    BY <1>4, <1>5

\* A row that comes into sight is published: it passes the rows behind it.
Passed(q, k) == {q[j].msg : j \in {j \in SeenIn(q) : k < j}}
RivalsIn(Q, m) == {n \in WaitingOf(Q) : GroupOf[n] = GroupOf[m]}

Comes(Q, Q2, g, k, m) ==
  /\ m \notin WaitingOf(Q) /\ GroupOf[m] = g /\ m \in Msg
  /\ Passed(Q[g], k) \in SUBSET RivalsIn(Q, m)
  /\ \A p \in BeforeOf(Q) : p[1] \in Passed(Q[g], k) => p[2] \in Passed(Q[g], k)
  /\ WaitingOf(Q2) = WaitingOf(Q) \cup {m}
  /\ BeforeOf(Q2) = BeforeOf(Q) \cup ((RivalsIn(Q, m) \ Passed(Q[g], k)) \X {m})
                                \cup ({m} \X Passed(Q[g], k))

LEMMA Shown ==
  ASSUME NEW P, NEW Q, Neat(P, Q), NEW P2, NEW Q2,
         Neat(P2, Q2), NEW g \in Group, NEW k, NEW x,
         Elsewhere(Q, Q2, g), Shows(Q[g], Q2[g], k, x), x.visible
  PROVE  Comes(Q, Q2, g, k, x.msg)
  <1> USE DEF Neat, Elsewhere
  <1>1. PICK m : m = x.msg
    OBVIOUS
  <1>2. k \in Nat /\ k \in SeenIn(Q2[g]) /\ Q2[g][k].msg = m /\ GroupOf[m] = g /\ m \in Msg
    BY <1>1 DEF Shows, SeenIn, Neat, RowShape, SlotShape, Slot
  <1>3. \A h \in Group : \A i \in SeenIn(Q[h]) : i \in Nat /\ Q[h][i].msg \in Msg /\ GroupOf[Q[h][i].msg] = h
    BY DEF SeenIn, Neat, RowShape, SlotShape, Slot
  <1>16. \A h \in Group : \A i \in SeenIn(Q2[h]) : i \in Nat
    BY DEF SeenIn, Neat, RowShape
  <1>17. \A a, b : <<a, b>> \in BeforeOf(Q2) <=> \E h \in Group : \E i, j \in SeenIn(Q2[h]) :
                                        i < j /\ Q2[h][i].msg = a /\ Q2[h][j].msg = b
    <2>1. \A h \in Group : \A i \in SeenIn(Q2[h]) : Q2[h][i].msg \in Msg
      BY DEF SeenIn, Neat, RowShape, SlotShape, Slot
    <2>2. QED
      BY <2>1 DEF BeforeOf
  <1>4. \A i \in SeenIn(Q[g]) : i # k /\ i \in SeenIn(Q2[g]) /\ Q2[g][i] = Q[g][i]
    BY DEF Shows, SeenIn
  <1>5. \A i \in SeenIn(Q2[g]) : i # k => i \in SeenIn(Q[g]) /\ Q2[g][i] = Q[g][i]
    BY DEF Shows, SeenIn
  <1>6. \A i \in SeenIn(Q[g]) : Q[g][i].msg # m
    <2> SUFFICES ASSUME NEW i \in SeenIn(Q[g]), Q[g][i].msg = m PROVE FALSE
      OBVIOUS
    <2>1. RowShape(P2, g, Q2[g]) /\ i \in DOMAIN Q2[g] /\ k \in DOMAIN Q2[g] /\ Q2[g][i].msg = Q2[g][k].msg
      BY <1>2, <1>4 DEF SeenIn
    <2>2. i = k
      BY <2>1, OnePlace
    <2>3. QED
      BY <1>4, <2>2
  <1>7. m \notin WaitingOf(Q)
    <2> SUFFICES ASSUME m \in WaitingOf(Q) PROVE FALSE
      OBVIOUS
    <2>1. PICK h \in Group : \E i \in SeenIn(Q[h]) : Q[h][i].msg = m
      BY DEF WaitingOf
    <2>2. h = g
      BY <1>2, <1>3, <2>1
    <2>3. QED
      BY <1>6, <2>1, <2>2
  <1>8. \A n : n \in RivalsIn(Q, m) <=> \E i \in SeenIn(Q[g]) : Q[g][i].msg = n
    <2> SUFFICES ASSUME NEW n PROVE n \in RivalsIn(Q, m) <=> \E i \in SeenIn(Q[g]) : Q[g][i].msg = n
      OBVIOUS
    <2>1. n \in RivalsIn(Q, m) <=> n \in WaitingOf(Q) /\ GroupOf[n] = g
      BY <1>2 DEF RivalsIn
    <2>2. n \in WaitingOf(Q) <=> \E h \in Group : \E i \in SeenIn(Q[h]) : Q[h][i].msg = n
      BY DEF WaitingOf
    <2>3. QED
      BY <1>3, <2>1, <2>2
  <1>9. \A n : n \in Passed(Q[g], k) <=> \E i \in SeenIn(Q[g]) : k < i /\ Q[g][i].msg = n
    BY DEF Passed
  <1>10. \A i, j \in SeenIn(Q[g]) : Q[g][i].msg = Q[g][j].msg => i = j
    <2>1. RowShape(P, g, Q[g])
      OBVIOUS
    <2>2. QED
      BY <2>1, OnePlace DEF SeenIn
  <1>11. Passed(Q[g], k) \in SUBSET RivalsIn(Q, m)
    BY <1>8, <1>9
  <1>12. \A p \in BeforeOf(Q) : p[1] \in Passed(Q[g], k) => p[2] \in Passed(Q[g], k)
    <2> SUFFICES ASSUME NEW p \in BeforeOf(Q), p[1] \in Passed(Q[g], k) PROVE p[2] \in Passed(Q[g], k)
      OBVIOUS
    <2>1. PICK h \in Group : \E i, j \in SeenIn(Q[h]) : i < j /\ p = <<Q[h][i].msg, Q[h][j].msg>>
      BY DEF BeforeOf
    <2>2. PICK i, j \in SeenIn(Q[h]) : i < j /\ p[1] = Q[h][i].msg /\ p[2] = Q[h][j].msg
      BY <2>1
    <2>3. PICK l \in SeenIn(Q[g]) : k < l /\ Q[g][l].msg = p[1]
      BY <1>9
    <2>4. h = g
      BY <1>3, <2>2, <2>3
    <2>5. i = l /\ k < j
      <3>1. i = l
        BY <1>10, <2>2, <2>3, <2>4
      <3>2. i \in Nat /\ j \in Nat /\ k \in Nat /\ i < j /\ k < i
        BY <1>2, <1>3, <2>2, <2>3, <3>1
      <3>3. QED
        BY <3>1, <3>2
    <2>6. QED
      BY <1>9, <2>2, <2>4, <2>5
  <1>13. WaitingOf(Q2) = WaitingOf(Q) \cup {m}
    <2>1. ASSUME NEW n, n \in WaitingOf(Q2) PROVE n \in WaitingOf(Q) \cup {m}
      <3>1. PICK h \in Group : \E i \in SeenIn(Q2[h]) : Q2[h][i].msg = n
        BY <2>1 DEF WaitingOf
      <3>2. n = m \/ \E i \in SeenIn(Q[h]) : Q[h][i].msg = n
        BY <1>2, <1>5, <3>1
      <3>3. QED
        BY <3>2 DEF WaitingOf
    <2>2. ASSUME NEW n, n \in WaitingOf(Q) \cup {m} PROVE n \in WaitingOf(Q2)
      <3>1. n = m \/ n \in WaitingOf(Q)
        BY <2>2
      <3>2. n = m \/ \E h \in Group : \E i \in SeenIn(Q[h]) : Q[h][i].msg = n
        BY <3>1 DEF WaitingOf
      <3>3. \E h \in Group : \E i \in SeenIn(Q2[h]) : Q2[h][i].msg = n
        <4>1. CASE n = m
          BY <1>2, <4>1
        <4>2. CASE \E h \in Group : \E i \in SeenIn(Q[h]) : Q[h][i].msg = n
          <5>1. PICK h \in Group : \E i \in SeenIn(Q[h]) : Q[h][i].msg = n
            BY <4>2
          <5>2. \E i \in SeenIn(Q2[h]) : Q2[h][i].msg = n
            BY <1>4, <5>1
          <5>3. QED
            BY <5>2
        <4>3. QED
          BY <3>2, <4>1, <4>2
      <3>4. QED
        BY <3>3 DEF WaitingOf
    <2>3. QED
      BY <2>1, <2>2
  <1>14. BeforeOf(Q2) = BeforeOf(Q) \cup ((RivalsIn(Q, m) \ Passed(Q[g], k)) \X {m}) \cup ({m} \X Passed(Q[g], k))
    <2> DEFINE all == BeforeOf(Q) \cup ((RivalsIn(Q, m) \ Passed(Q[g], k)) \X {m}) \cup ({m} \X Passed(Q[g], k))
    <2>1. RivalsIn(Q, m) \subseteq Msg /\ Passed(Q[g], k) \subseteq Msg
      BY <1>3, <1>8, <1>11
    <2>2. all \in SUBSET (Msg \X Msg) /\ BeforeOf(Q2) \in SUBSET (Msg \X Msg)
      BY <1>2, <2>1 DEF BeforeOf
    <2>3. ASSUME NEW a \in Msg, NEW b \in Msg
          PROVE  <<a, b>> \in all <=> \/ <<a, b>> \in BeforeOf(Q)
                                      \/ b = m /\ a \in RivalsIn(Q, m) \ Passed(Q[g], k)
                                      \/ a = m /\ b \in Passed(Q[g], k)
      OBVIOUS
    <2> HIDE DEF all
    <2>4. ASSUME NEW a \in Msg, NEW b \in Msg, <<a, b>> \in BeforeOf(Q2)
          PROVE  <<a, b>> \in all
      <3>1. PICK h \in Group : \E i, j \in SeenIn(Q2[h]) : i < j /\ Q2[h][i].msg = a /\ Q2[h][j].msg = b
        BY <2>4 DEF BeforeOf
      <3>2. PICK i, j \in SeenIn(Q2[h]) : i < j /\ Q2[h][i].msg = a /\ Q2[h][j].msg = b
        BY <3>1
      <3>3. CASE h = g /\ j = k
        <4>1. i # k /\ ~(k < i) /\ i \in SeenIn(Q[g]) /\ Q[g][i].msg = a
          <5>1. i \in Nat /\ k \in Nat /\ i < k
            BY <1>2, <1>16, <3>2, <3>3
          <5>2. i # k /\ ~(k < i)
            BY <5>1
          <5>3. QED
            BY <1>5, <3>2, <3>3, <5>2
        <4>2. a \notin Passed(Q[g], k) /\ a \in RivalsIn(Q, m)
          BY <1>8, <1>9, <1>10, <4>1
        <4>3. QED
          BY <1>2, <2>3, <3>2, <3>3, <4>2
      <3>4. CASE h = g /\ i = k
        <4>1. j # k /\ k < j /\ j \in SeenIn(Q[g]) /\ Q[g][j].msg = b
          BY <1>2, <1>5, <3>2, <3>4
        <4>2. QED
          BY <1>2, <1>9, <2>3, <3>2, <3>4, <4>1
      <3>5. CASE h # g \/ (i # k /\ j # k)
        <4>1. i \in SeenIn(Q[h]) /\ j \in SeenIn(Q[h]) /\ i < j /\ Q[h][i].msg = a /\ Q[h][j].msg = b
          BY <1>5, <3>2, <3>5
        <4>2. <<a, b>> \in BeforeOf(Q)
          BY <4>1, BeforeIn
        <4>3. QED
          BY <2>3, <4>2
      <3>6. QED
        BY <3>3, <3>4, <3>5
    <2>5. ASSUME NEW a \in Msg, NEW b \in Msg, <<a, b>> \in all
          PROVE  <<a, b>> \in BeforeOf(Q2)
      <3>1. CASE <<a, b>> \in BeforeOf(Q)
        <4>1. PICK h \in Group : \E i, j \in SeenIn(Q[h]) : i < j /\ Q[h][i].msg = a /\ Q[h][j].msg = b
          BY <3>1 DEF BeforeOf
        <4>2. \E i, j \in SeenIn(Q2[h]) : i < j /\ Q2[h][i].msg = a /\ Q2[h][j].msg = b
          BY <1>4, <4>1
        <4>3. QED
          BY <1>17, <4>2
      <3>2. CASE b = m /\ a \in RivalsIn(Q, m) \ Passed(Q[g], k)
        <4>1. PICK i \in SeenIn(Q[g]) : Q[g][i].msg = a
          BY <1>8, <3>2
        <4>2. ~(k < i) /\ i # k /\ i \in Nat
          BY <1>3, <1>4, <1>9, <3>2, <4>1
        <4>3. i < k /\ i \in SeenIn(Q2[g]) /\ Q2[g][i].msg = a
          BY <1>2, <1>4, <4>1, <4>2
        <4>4. QED
          BY <1>2, <1>17, <3>2, <4>3
      <3>3. CASE a = m /\ b \in Passed(Q[g], k)
        <4>1. PICK j \in SeenIn(Q[g]) : k < j /\ Q[g][j].msg = b
          BY <1>9, <3>3
        <4>2. j \in SeenIn(Q2[g]) /\ Q2[g][j].msg = b
          BY <1>4, <4>1
        <4>3. k \in SeenIn(Q2[g]) /\ k < j /\ Q2[g][k].msg = a /\ Q2[g][j].msg = b
          BY <1>2, <3>3, <4>1, <4>2
        <4>4. QED
          BY <1>17, <4>2, <4>3
      <3>4. QED
        BY <2>3, <2>5, <3>1, <3>2, <3>3
    <2>6. BeforeOf(Q2) = all
      BY <2>2, <2>4, <2>5, SamePairs
    <2>7. QED
      BY <2>6 DEF all
  <1>15. QED
    <2>1. Comes(Q, Q2, g, k, m)
      BY <1>2, <1>7, <1>11, <1>12, <1>13, <1>14 DEF Comes
    <2>2. QED
      BY <1>1, <2>1
-----------------------------------------------------------------------------
(* The workers' grip: which message a worker was handed, and that it still is the head of its  *)
(* group where a later call of the worker counts on it, as long as the lock has its name.      *)

Hands == {"touch", "work", "delete", "park", "return"}
HeadIs(g, m) == queue[g] # <<>> /\ queue[g][1].msg = m

Aims(w) == \/ backend = "rqlite" /\ worker[w].pc = "read"
           \/ backend = "redis" /\ worker[w].pc = "work"

Grip(w) ==
  /\ worker[w].pc = "touch" => backend = "rqlite"
  /\ worker[w].pc \in Hands \/ Aims(w) =>
       worker[w].msg \in Msg /\ GroupOf[worker[w].msg] = worker[w].group
  /\ Aims(w) /\ lock[worker[w].group].by = w =>
       lock[worker[w].group].msg = worker[w].msg /\ HeadIs(worker[w].group, worker[w].msg)

SentAtOnce == backend \in {"rqlite", "redis"} => \A s \in Sender : sender[s].pc = "idle"

Rows == SenderShape(sender) /\ QueueShape
FInv == Rows /\ SentAtOnce /\ \A w \in Worker : Grip(w)

hands == [w \in Worker |-> InHand(w)]
BoxStep == [Box!Next]_<<Waiting, Before, hands>>
-----------------------------------------------------------------------------
(* The calls of a sender *)

LEMMA RowsOf ==
  ASSUME Rows
  PROVE  \A g \in Group : RowShape(sender, g, queue[g])
  BY DEF Rows, QueueShape

\* What a worker holds does not change with the calls of the senders, which leave the heads.
LEMMA GripKept ==
  ASSUME FInv, IInv, UNCHANGED <<backend, worker, lock>>,
         backend \in {"rqlite", "redis"} => \A g \in Group : \A m : HeadIs(g, m) => HeadIs(g, m)'
  PROVE  /\ \A w \in Worker : Grip(w)'
         /\ hands' = hands
  <1>1. \A w \in Worker : Grip(w)'
    <2> SUFFICES ASSUME NEW w \in Worker PROVE Grip(w)'
      OBVIOUS
    <2>1. Aims(w)' <=> Aims(w)
      BY DEF Aims
    <2>2. Aims(w) => backend \in {"rqlite", "redis"} /\ worker[w].group \in Group
      BY LeaseOf DEF Aims, Lease
    <2>3. Grip(w)
      BY DEF FInv
    <2>4. ASSUME Aims(w), lock[worker[w].group].by = w
          PROVE  lock[worker[w].group].msg = worker[w].msg /\ HeadIs(worker[w].group, worker[w].msg)'
      <3>1. HeadIs(worker[w].group, worker[w].msg)
        BY <2>3, <2>4 DEF Grip
      <3>0. PICK g \in Group : g = worker[w].group
        BY <2>2, <2>4
      <3>2. PICK m : g = worker[w].group /\ m = worker[w].msg
        BY <3>0
      <3>3. HeadIs(g, m)'
        BY <2>2, <2>4, <3>1, <3>2
      <3>4. QED
        BY <2>3, <2>4, <3>2, <3>3 DEF Grip, HeadIs
    <2>5. QED
      BY <2>1, <2>3, <2>4 DEF Grip
  <1>2. hands' = hands
    BY DEF hands, InHand
  <1>3. QED
    BY <1>1, <1>2

LEMMA SenderMoves ==
  ASSUME Rows, NEW s \in Sender
  PROVE  /\ \A pc : SenderTo(s, pc) => sender' = [sender EXCEPT ![s] = [pc |-> pc, at |-> sender[s].at]]
         /\ Published(s) => sender' = [sender EXCEPT ![s] = [pc |-> "idle", at |-> sender[s].at + 1]]
         /\ \A pc : Publishing(s, pc) => sender[s].pc = pc /\ sender[s].at \in DOMAIN Script[s]
  <1>1. sender[s] = [pc |-> sender[s].pc, at |-> sender[s].at] /\ sender[s].at \in Nat \ {0}
    BY DEF Rows, SenderShape
  <1>2. \A pc : [sender[s] EXCEPT !.pc = pc] = [pc |-> pc, at |-> sender[s].at]
    <2> SUFFICES ASSUME NEW pc PROVE [sender[s] EXCEPT !.pc = pc] = [pc |-> pc, at |-> sender[s].at]
      OBVIOUS
    <2>1. PICK a, b : sender[s] = [pc |-> a, at |-> b]
      BY <1>1
    <2>2. QED
      BY <2>1
  <1>3. \A pc : Publishing(s, pc) => sender[s].pc = pc /\ sender[s].at \in DOMAIN Script[s]
    BY <1>1, ScriptType DEF Publishing
  <1>4. QED
    BY <1>2, <1>3 DEF SenderTo, Published

\* A message that comes into sight is published in the mailbox.
LEMMA Publishes ==
  ASSUME Rows, Rows', hands' = hands, NEW g \in Group, NEW k, NEW x,
         \A h \in Group : h # g => queue'[h] = queue[h], Shows(queue[g], queue'[g], k, x), x.visible
  PROVE  BoxStep
  <1>1. PICK P, Q : P = sender /\ Q = queue
    OBVIOUS
  <1>2. PICK P2, Q2 : P2 = sender' /\ Q2 = queue'
    OBVIOUS
  <1>3. PICK m : m = x.msg
    OBVIOUS
  <1>4. \A h \in Group : RowShape(P, h, Q[h]) /\ RowShape(P2, h, Q2[h])
    BY <1>1, <1>2 DEF Rows, QueueShape
  <1>5. /\ m \notin WaitingOf(Q) /\ GroupOf[m] = g /\ m \in Msg
        /\ Passed(Q[g], k) \in SUBSET RivalsIn(Q, m)
        /\ \A p \in BeforeOf(Q) : p[1] \in Passed(Q[g], k) => p[2] \in Passed(Q[g], k)
        /\ WaitingOf(Q2) = WaitingOf(Q) \cup {m}
        /\ BeforeOf(Q2) = BeforeOf(Q) \cup ((RivalsIn(Q, m) \ Passed(Q[g], k)) \X {m})
                                      \cup ({m} \X Passed(Q[g], k))
    <2>1. /\ Neat(P, Q)
          /\ Neat(P2, Q2)
          /\ Elsewhere(Q, Q2, g)
          /\ Shows(Q[g], Q2[g], k, x)
          /\ g \in Group /\ x.visible
      BY <1>1, <1>2, <1>4 DEF Neat, Elsewhere
    <2>2. Comes(Q, Q2, g, k, x.msg)
      BY <2>1, Shown
    <2>3. QED
      BY <1>3, <2>2 DEF Comes
  <1>6. \A n \in Passed(Q[g], k) : ~ \E s \in Sender : \E i, j \in DOMAIN Script[s] :
                                       i < j /\ Script[s][i] = n /\ Script[s][j] = m
    <2> SUFFICES ASSUME NEW n \in Passed(Q[g], k), NEW s \in Sender, NEW i \in DOMAIN Script[s],
                        NEW j \in DOMAIN Script[s], i < j, Script[s][i] = n, Script[s][j] = m
                 PROVE  FALSE
      OBVIOUS
    <2>1. PICK l \in DOMAIN Q[g] : k < l /\ Q[g][l].msg = n
      BY DEF Passed, SeenIn
    <2>2. k \in Nat /\ k \in DOMAIN Q2[g] /\ Q2[g][k].msg = m /\ l \in DOMAIN Q2[g] /\ l \in Nat
      BY <1>1, <1>2, <1>3, <1>4, <2>1 DEF Shows, RowShape
    <2>3. l # k
      BY <2>1, <2>2
    <2>4. Q2[g][l].msg = n
      BY <1>1, <1>2, <2>1, <2>3 DEF Shows
    <2>5. j < i
      BY <1>4, <2>1, <2>2, <2>4 DEF RowShape, InScriptOrder
    <2>6. QED
      BY <2>5, ScriptType
  <1>7. Box!Rivals(m) = RivalsIn(Q, m)
    BY <1>1, Views DEF Box!Rivals, RivalsIn
  <1>8. Passed(Q[g], k) \in SUBSET (Box!Rivals(m) \ {n \in Msg : \E s \in Sender : \E i, j \in DOMAIN Script[s] :
                                                      i < j /\ Script[s][i] = n /\ Script[s][j] = m})
    BY <1>5, <1>6, <1>7
  <1>9. /\ Waiting = WaitingOf(Q) /\ Waiting' = WaitingOf(Q2)
        /\ Before = BeforeOf(Q) /\ Before' = BeforeOf(Q2)
    BY <1>1, <1>2, Views
  <1>10. Box!Publish(m)
    BY <1>5, <1>7, <1>8, <1>9 DEF Box!Publish, hands
  <1>11. QED
    BY <1>5, <1>10 DEF BoxStep, Box!Next

LEMMA FirstKept ==
  ASSUME NEW q \in Seq(Slot), NEW x \in Slot, q # <<>>
  PROVE  Append(q, x) # <<>> /\ Append(q, x)[1] = q[1]
  OBVIOUS

\* A call that appends the message its sender publishes.
LEMMA Appends ==
  ASSUME IInv, FInv, NEW s \in Sender, sender[s].pc = "idle", sender[s].at \in DOMAIN Script[s],
         NEW v \in BOOLEAN, AddSlot(ToPublish(s), v), NEW r, sender' = [sender EXCEPT ![s] = r],
         r = [pc |-> r.pc, at |-> r.at], r.pc \in Unseen \cup {"idle", "register"}, v = (r.pc \notin Unseen),
         \/ r.at = sender[s].at /\ r.pc # "idle" /\ backend \notin {"rqlite", "redis"}
         \/ r.at = sender[s].at + 1 /\ r.pc = "idle",
         UNCHANGED <<backend, worker, lock>>
  PROVE  FInv' /\ BoxStep
  <1>1. PICK P, Q : P = sender /\ Q = queue
    OBVIOUS
  <1>2. PICK P2, Q2 : P2 = sender' /\ Q2 = queue'
    OBVIOUS
  <1>3. PICK m, g : m = Script[s][P[s].at] /\ g = GroupOf[m]
    OBVIOUS
  <1>4. PICK x : x = [msg |-> m, visible |-> v]
    OBVIOUS
  <1>5. m \in Msg /\ g \in Group /\ x \in Slot /\ x.msg = m /\ x.visible = v
    BY <1>1, <1>3, <1>4, ScriptType DEF Slot
  <1>6. SenderShape(P) /\ Neat(P, Q) /\ Q = [h \in Group |-> Q[h]]
    BY <1>1 DEF FInv, Rows, QueueShape, Neat
  <1>7. Q2 = [Q EXCEPT ![g] = Append(Q[g], x)]
    BY <1>1, <1>2, <1>3, <1>4 DEF AddSlot, ToPublish
  <1>8. Q2[g] = Append(Q[g], x) /\ Elsewhere(Q, Q2, g) /\ Q2 = [h \in Group |-> Q2[h]]
    BY <1>5, <1>6, <1>7 DEF Elsewhere
  <1>9. Q[g] \in Seq(Slot)
    BY <1>5, <1>6 DEF Neat, RowShape
  <1>10. PICK k : k = Len(Q[g]) + 1
    OBVIOUS
  <1>11. Shows(Q[g], Q2[g], k, x) /\ k \notin DOMAIN Q[g] /\ \A i \in DOMAIN Q[g] : i < k
    <2>1. Len(Q[g]) \in Nat /\ DOMAIN Q[g] = 1 .. Len(Q[g])
      BY <1>9
    <2>2. QED
      BY <1>5, <1>8, <1>9, <1>10, <2>1, Appended
  <1>12. /\ SenderShape(P2)
         /\ \A h, y : SlotShape(P, h, y) /\ y.msg # m => SlotShape(P2, h, y)
         /\ SlotShape(P2, g, x)
    <2>1. P2 = [P EXCEPT ![s] = r] /\ P[s].at \in DOMAIN Script[s]
      BY <1>1, <1>2
    <2>2. (r.at = P[s].at /\ r.pc # "idle") \/ (r.at = P[s].at + 1 /\ r.pc = "idle")
      BY <1>1
    <2>3. QED
      BY <1>3, <1>4, <1>6, <2>1, <2>2, SenderGoes
  <1>13. RowShape(P2, g, Q2[g])
    <2>1. RowShape(P, g, Q[g]) /\ P[s].pc = "idle" /\ P[s].at \in DOMAIN Script[s]
          /\ m = Script[s][P[s].at] /\ GroupOf[m] = g
      BY <1>1, <1>3, <1>5, <1>6 DEF Neat
    <2>3. \A y : SlotShape(P, g, y) /\ y.msg # m => SlotShape(P2, g, y)
      BY <1>12
    <2>2. QED
      <3>1. /\ Shows(Q[g], Q2[g], k, x) /\ x.msg = m /\ SlotShape(P2, g, x)
            /\ P[s].pc = "idle" => \A i \in DOMAIN Q[g] : i < k
            /\ P[s].pc # "idle" => k \in DOMAIN Q[g]
        BY <1>5, <1>11, <1>12, <2>1
      <3>2. QED
        BY <2>1, <2>3, <3>1, ShowShape
  <1>14. \A h \in Group : h # g => RowShape(P2, h, Q2[h])
    <2> SUFFICES ASSUME NEW h \in Group, h # g PROVE RowShape(P2, h, Q[h])
      BY <1>8 DEF Elsewhere
    <2>1. \A i \in DOMAIN Q[h] : Q[h][i].msg # m
      BY <1>3, <1>6 DEF Neat, RowShape, SlotShape
    <2>2. QED
      BY <1>6, <1>12, <2>1 DEF Neat, RowShape
  <1>15. Rows'
    BY <1>2, <1>8, <1>12, <1>13, <1>14 DEF Rows, QueueShape
  <1>16. \A h \in Group : \A n : HeadIs(h, n) => HeadIs(h, n)'
    <2> SUFFICES ASSUME NEW h \in Group, NEW n, HeadIs(h, n) PROVE HeadIs(h, n)'
      OBVIOUS
    <2>1. Q[h] # <<>> /\ Q[h][1].msg = n
      BY <1>1 DEF HeadIs
    <2>2. Q2[h] # <<>> /\ Q2[h][1] = Q[h][1]
      <3>1. CASE h = g
        BY <1>5, <1>8, <1>9, <2>1, <3>1, FirstKept
      <3>2. CASE h # g
        BY <1>8, <2>1, <3>2 DEF Elsewhere
      <3>3. QED
        BY <3>1, <3>2
    <2>3. QED
      BY <1>2, <2>1, <2>2 DEF HeadIs
  <1>17. (\A w \in Worker : Grip(w)') /\ hands' = hands
    BY <1>16, GripKept
  <1>18. SentAtOnce'
    BY <1>6, <1>1 DEF FInv, SentAtOnce, SenderShape
  <1>19. FInv'
    BY <1>15, <1>17, <1>18 DEF FInv
  <1>20. BoxStep
    <2>1. CASE v
      <3>1. Rows /\ \A h \in Group : h # g => queue'[h] = queue[h]
        BY <1>1, <1>2, <1>8 DEF Elsewhere, FInv
      <3>2. Shows(queue[g], queue'[g], k, x) /\ x.visible
        BY <1>1, <1>2, <1>5, <1>11, <2>1
      <3>3. QED
        BY <1>5, <1>15, <1>17, <3>1, <3>2, Publishes
    <2>2. CASE ~v
      <3>1. WaitingOf(Q2) = WaitingOf(Q) /\ BeforeOf(Q2) = BeforeOf(Q)
        BY <1>5, <1>6, <1>8, <1>11, <2>2, Reserved
      <3>2. QED
        BY <1>1, <1>2, <1>17, <3>1, Views DEF BoxStep
    <2>3. QED
      BY <2>1, <2>2
  <1>21. QED
    BY <1>19, <1>20

LEMMA Brought ==
  ASSUME NEW y \in Slot, NEW e
  PROVE  [y EXCEPT !.visible = e] = [msg |-> y.msg, visible |-> e]
  <1>1. y = [msg |-> y.msg, visible |-> y.visible]
    BY DEF Slot
  <1>2. PICK a, b : y = [msg |-> a, visible |-> b]
    BY <1>1
  <1>3. y.msg = a
    BY <1>2
  <1>4. [y EXCEPT !.visible = e] = [msg |-> a, visible |-> e]
    BY <1>2
  <1>5. QED
    BY <1>3, <1>4

\* Rows without the sender's present message keep their shape when it goes on.
LEMMA RowsGo ==
  ASSUME NEW P, NEW P2, NEW Q, Neat(P, Q), NEW m,
         \A h, y : SlotShape(P, h, y) /\ y.msg # m => SlotShape(P2, h, y),
         NEW h \in Group, \A i \in DOMAIN Q[h] : Q[h][i].msg # m
  PROVE  RowShape(P2, h, Q[h])
  BY DEF Neat, RowShape

\* A call that leaves the messages alone.
LEMMA SenderOnly ==
  ASSUME IInv, FInv, NEW s \in Sender, sender[s].pc # "idle", NEW r, sender' = [sender EXCEPT ![s] = r],
         r = [pc |-> r.pc, at |-> r.at], r.pc \in Unseen \cup {"idle", "register"},
         sender[s].pc \in Unseen <=> r.pc \in Unseen,
         \/ r.at = sender[s].at /\ r.pc # "idle"
         \/ r.at = sender[s].at + 1 /\ r.pc = "idle",
         UNCHANGED <<backend, queue, worker, lock>>
  PROVE  FInv' /\ BoxStep
  <1>1. PICK P, Q : P = sender /\ Q = queue
    OBVIOUS
  <1>2. PICK P2 : P2 = sender'
    OBVIOUS
  <1>3. SenderShape(P) /\ Neat(P, Q) /\ Q = [h \in Group |-> Q[h]]
    BY <1>1 DEF FInv, Rows, QueueShape, Neat
  <1>4. P[s].pc # "idle" /\ P[s].at \in DOMAIN Script[s] /\ P2 = [P EXCEPT ![s] = r]
    BY <1>1, <1>2, <1>3 DEF SenderShape
  <1>5. PICK m : m = Script[s][P[s].at]
    OBVIOUS
  <1>6. (r.at = P[s].at /\ r.pc # "idle") \/ (r.at = P[s].at + 1 /\ r.pc = "idle")
    BY <1>1
  <1>7. /\ SenderShape(P2)
        /\ \A h, y : SlotShape(P, h, y) /\ y.msg # m => SlotShape(P2, h, y)
        /\ \A v \in BOOLEAN : v = (r.pc \notin Unseen) =>
             SlotShape(P2, GroupOf[m], [msg |-> m, visible |-> v])
    BY <1>3, <1>4, <1>5, <1>6, SenderGoes
  <1>8. \A h, y : SlotShape(P, h, y) => SlotShape(P2, h, y)
    <2> SUFFICES ASSUME NEW h, NEW y, SlotShape(P, h, y), y.msg = m PROVE SlotShape(P2, h, y)
      BY <1>7
    <2>1. PICK t, a : Begun(P, t, a, y)
      BY DEF SlotShape
    <2>2. t = s /\ a = P[s].at
      BY <1>4, <1>5, <2>1, OneAuthor DEF Begun
    <2>3. y = [msg |-> m, visible |-> y.visible] /\ y.visible \in BOOLEAN /\ h = GroupOf[m]
      BY DEF SlotShape, Slot
    <2>4. y.visible = (P[s].pc \notin Unseen)
      BY <2>1, <2>2 DEF Begun
    <2>5. y.visible = (r.pc \notin Unseen)
      BY <1>1, <2>4
    <2>6. SlotShape(P2, GroupOf[m], [msg |-> m, visible |-> y.visible])
      BY <1>7, <2>3, <2>5
    <2>7. QED
      BY <2>3, <2>6
  <1>9. Rows'
    <2>1. \A h \in Group : RowShape(P2, h, Q[h])
      BY <1>3, <1>8 DEF Neat, RowShape
    <2>2. QED
      BY <1>1, <1>2, <1>3, <1>7, <2>1 DEF Rows, QueueShape
  <1>10. (\A w \in Worker : Grip(w)') /\ hands' = hands
    <2>1. \A h \in Group : \A n : HeadIs(h, n) => HeadIs(h, n)'
      BY DEF HeadIs
    <2>2. QED
      BY <2>1, GripKept
  <1>11. backend \notin {"rqlite", "redis"}
    BY DEF FInv, SentAtOnce
  <1>12. FInv'
    BY <1>9, <1>10, <1>11 DEF FInv, SentAtOnce
  <1>13. BoxStep
    BY <1>10, Views DEF BoxStep
  <1>14. QED
    BY <1>12, <1>13

\* A call after which the sender's message, out of sight till then, is seen.
LEMMA Reveals ==
  ASSUME IInv, FInv, NEW s \in Sender, sender[s].pc \in Unseen, Reveal(ToPublish(s)),
         NEW r, sender' = [sender EXCEPT ![s] = r],
         r = [pc |-> r.pc, at |-> r.at], r.pc \in {"idle", "register"},
         \/ r.at = sender[s].at /\ r.pc # "idle"
         \/ r.at = sender[s].at + 1 /\ r.pc = "idle",
         UNCHANGED <<backend, worker, lock>>
  PROVE  FInv' /\ BoxStep
  <1>1. PICK P, Q : P = sender /\ Q = queue
    OBVIOUS
  <1>2. PICK P2, Q2 : P2 = sender' /\ Q2 = queue'
    OBVIOUS
  <1>3. SenderShape(P) /\ Neat(P, Q) /\ Q = [h \in Group |-> Q[h]]
    BY <1>1 DEF FInv, Rows, QueueShape, Neat
  <1>4. P[s].pc # "idle" /\ P[s].at \in DOMAIN Script[s] /\ P2 = [P EXCEPT ![s] = r]
    BY <1>1, <1>2, <1>3 DEF SenderShape, Unseen
  <1>5. PICK m, g, x : m = Script[s][P[s].at] /\ g = GroupOf[m] /\ x = [msg |-> m, visible |-> TRUE]
    OBVIOUS
  <1>6. m \in Msg /\ g \in Group /\ x \in Slot /\ x.msg = m /\ x.visible
    BY <1>4, <1>5, ScriptType DEF Slot
  <1>7. (r.at = P[s].at /\ r.pc # "idle") \/ (r.at = P[s].at + 1 /\ r.pc = "idle")
    BY <1>1
  <1>8. /\ SenderShape(P2)
        /\ \A h, y : SlotShape(P, h, y) /\ y.msg # m => SlotShape(P2, h, y)
        /\ SlotShape(P2, g, x)
    <2>1. TRUE = (r.pc \notin Unseen) /\ r.pc \in Unseen \cup {"idle", "register"}
      BY DEF Unseen
    <2>2. QED
      BY <1>3, <1>4, <1>5, <1>7, <2>1, SenderGoes
  <1>9. Q2 = [Q EXCEPT ![g] = [i \in DOMAIN Q[g] |->
              IF Q[g][i].msg = m THEN [Q[g][i] EXCEPT !.visible = TRUE] ELSE Q[g][i]]]
    BY <1>1, <1>2, <1>5 DEF Reveal, ToPublish
  <1>10. /\ Elsewhere(Q, Q2, g) /\ Q2 = [h \in Group |-> Q2[h]]
         /\ Q2[g] = [i \in DOMAIN Q[g] |-> IF Q[g][i].msg = m THEN [Q[g][i] EXCEPT !.visible = TRUE] ELSE Q[g][i]]
    BY <1>3, <1>6, <1>9 DEF Elsewhere
  <1>11. RowShape(P, g, Q[g]) /\ Q[g] \in Seq(Slot)
    BY <1>3, <1>6 DEF Neat, RowShape
  <1>12. \A h \in Group : h # g => \A i \in DOMAIN Q[h] : Q[h][i].msg # m
    BY <1>3, <1>5 DEF Neat, RowShape, SlotShape
  <1>13. \A h \in Group : h # g => RowShape(P2, h, Q2[h])
    <2> SUFFICES ASSUME NEW h \in Group, h # g PROVE RowShape(P2, h, Q[h])
      BY <1>10 DEF Elsewhere
    <2>1. RowShape(P, h, Q[h]) /\ \A i \in DOMAIN Q[h] : Q[h][i].msg # m
      BY <1>3, <1>12 DEF Neat
    <2>2. QED
      BY <1>8, <2>1 DEF RowShape
  <1>14. (\A w \in Worker : Grip(w)') /\ hands' = hands
    <2>1. backend \notin {"rqlite", "redis"}
      BY <1>1, <1>4 DEF FInv, SentAtOnce
    <2>2. QED
      BY <2>1, GripKept
  <1>15. SentAtOnce'
    BY <1>1, <1>4 DEF FInv, SentAtOnce
  <1>16. CASE \A i \in DOMAIN Q[g] : Q[g][i].msg # m
    <2>1. Q2[g] = Q[g]
      <3>1. Q[g] = [i \in DOMAIN Q[g] |-> Q[g][i]]
        BY <1>11
      <3>2. Q2[g] = [i \in DOMAIN Q[g] |-> Q[g][i]]
        BY <1>10, <1>16
      <3>3. QED
        BY <3>1, <3>2
    <2>2. RowShape(P2, g, Q2[g])
      BY <1>8, <1>11, <1>16, <2>1 DEF RowShape
    <2>3. Rows'
      BY <1>2, <1>8, <1>10, <1>13, <2>2 DEF Rows, QueueShape
    <2>4. \A h \in Group : Q2[h] = Q[h]
      BY <1>10, <2>1 DEF Elsewhere
    <2>5. WaitingOf(Q2) = WaitingOf(Q) /\ BeforeOf(Q2) = BeforeOf(Q)
      BY <2>4 DEF WaitingOf, BeforeOf
    <2>6. QED
      BY <1>1, <1>2, <1>14, <1>15, <2>3, <2>5, Views DEF FInv, BoxStep
  <1>17. CASE \E k \in DOMAIN Q[g] : Q[g][k].msg = m
    <2>1. PICK k \in DOMAIN Q[g] : Q[g][k].msg = m
      BY <1>17
    <2>2. k \in Nat /\ Q[g][k] \in Slot
      BY <1>11
    <2>3. ~Q[g][k].visible
      <3>1. PICK t, a : Begun(P, t, a, Q[g][k])
        BY <1>11, <2>1 DEF RowShape, SlotShape
      <3>2. t = s /\ a = P[s].at
        <4>1. t \in Sender /\ a \in DOMAIN Script[t] /\ Script[t][a] = m
          BY <2>1, <3>1 DEF Begun
        <4>2. P[s].at \in DOMAIN Script[s] /\ Script[s][P[s].at] = m
          BY <1>4, <1>5
        <4>3. QED
          BY <4>1, <4>2, OneAuthor
      <3>3. QED
        BY <1>1, <3>1, <3>2 DEF Begun
    <2>4. \A i \in DOMAIN Q[g] : i # k => Q[g][i].msg # m
      BY <1>11, <2>1, OnePlace
    <2>5. [Q[g][k] EXCEPT !.visible = TRUE] = x
      <3>1. [Q[g][k] EXCEPT !.visible = TRUE] = [msg |-> Q[g][k].msg, visible |-> TRUE]
        BY <2>2, Brought
      <3>2. QED
        BY <1>5, <2>1, <3>1
    <2>6. DOMAIN Q2[g] = DOMAIN Q[g] /\ Q2[g][k] = x /\ \A i \in DOMAIN Q[g] : i # k => Q2[g][i] = Q[g][i]
      BY <1>10, <2>1, <2>4, <2>5
    <2>7. Q2[g] \in Seq(Slot)
      <3>1. PICK n \in Nat : DOMAIN Q[g] = 1 .. n
        BY <1>11
      <3>2. \A i \in 1 .. n : Q2[g][i] \in Slot
        BY <1>6, <1>11, <2>6, <3>1
      <3>3. Q2[g] = [i \in 1 .. n |-> Q2[g][i]]
        BY <1>10, <3>1
      <3>4. Q2[g] \in [1 .. n -> Slot]
        BY <3>2, <3>3
      <3>5. QED
        BY <3>4
    <2>8. Shows(Q[g], Q2[g], k, x)
      BY <1>6, <2>1, <2>2, <2>3, <2>6, <2>7 DEF Shows
    <2>9. RowShape(P2, g, Q2[g])
      <3>1. m = Script[s][P[s].at] /\ GroupOf[m] = g /\ \A y : SlotShape(P, g, y) /\ y.msg # m => SlotShape(P2, g, y)
        BY <1>5, <1>8
      <3>2. QED
        BY <1>4, <1>6, <1>8, <1>11, <2>1, <2>8, <3>1, ShowShape
    <2>10. Rows'
      BY <1>2, <1>8, <1>10, <1>13, <2>9 DEF Rows, QueueShape
    <2>11. Rows /\ (\A h \in Group : h # g => queue'[h] = queue[h]) /\ Shows(queue[g], queue'[g], k, x)
      BY <1>1, <1>2, <1>10, <2>8 DEF FInv, Elsewhere
    <2>12. BoxStep
      BY <1>6, <1>14, <2>10, <2>11, Publishes
    <2>13. QED
      BY <1>14, <1>15, <2>10, <2>12 DEF FInv
  <1>18. QED
    BY <1>16, <1>17

\* A sender that stops takes back the message it had not committed.
LEMMA TakesBack ==
  ASSUME IInv, FInv, NEW s \in Sender, sender[s].pc \in Unseen,
         Delete(GroupOf[ToPublish(s)], ToPublish(s)), Published(s), UNCHANGED <<backend, worker, lock>>
  PROVE  FInv' /\ BoxStep
  <1>1. PICK P, Q : P = sender /\ Q = queue
    OBVIOUS
  <1>2. PICK P2, Q2 : P2 = sender' /\ Q2 = queue'
    OBVIOUS
  <1>3. SenderShape(P) /\ Neat(P, Q) /\ Q = [h \in Group |-> Q[h]]
    BY <1>1 DEF FInv, Rows, QueueShape, Neat
  <1>4. PICK r : r = [pc |-> "idle", at |-> P[s].at + 1]
    OBVIOUS
  <1>5. P[s].pc # "idle" /\ P[s].at \in DOMAIN Script[s] /\ P2 = [P EXCEPT ![s] = r]
    <2>1. Rows
      BY DEF FInv
    <2>2. QED
      BY <1>1, <1>2, <1>3, <1>4, <2>1, SenderMoves DEF SenderShape, Unseen
  <1>6. PICK m, g : m = Script[s][P[s].at] /\ g = GroupOf[m]
    OBVIOUS
  <1>7. m \in Msg /\ g \in Group
    BY <1>5, <1>6, ScriptType
  <1>8. /\ SenderShape(P2)
        /\ \A h, y : SlotShape(P, h, y) /\ y.msg # m => SlotShape(P2, h, y)
    <2>1. r = [pc |-> r.pc, at |-> r.at] /\ r.pc \in Unseen \cup {"idle", "register"}
          /\ r.at = P[s].at + 1 /\ r.pc = "idle"
      BY <1>4
    <2>2. QED
      BY <1>3, <1>5, <1>6, <2>1, SenderGoes
  <1>9. Q2 = [Q EXCEPT ![g] = Without(Q[g], m)]
    BY <1>1, <1>2, <1>6 DEF Delete, ToPublish
  <1>10. Elsewhere(Q, Q2, g) /\ Q2 = [h \in Group |-> Q2[h]] /\ Q2[g] = Without(Q[g], m)
    BY <1>3, <1>7, <1>9 DEF Elsewhere
  <1>11. RowShape(P, g, Q[g])
    BY <1>3, <1>7 DEF Neat
  <1>12. \/ Q2[g] = Q[g] /\ \A i \in DOMAIN Q[g] : Q[g][i].msg # m
         \/ \E k \in DOMAIN Q[g] : Q[g][k].msg = m /\ Cuts(Q[g], Q2[g], k)
    BY <1>10, <1>11, CutWithout
  <1>13. RowShape(P, g, Q2[g]) /\ \A i \in DOMAIN Q2[g] : Q2[g][i].msg # m
    <2>1. CASE \E k \in DOMAIN Q[g] : Q[g][k].msg = m /\ Cuts(Q[g], Q2[g], k)
      <3>1. PICK k \in DOMAIN Q[g] : Q[g][k].msg = m /\ Cuts(Q[g], Q2[g], k)
        BY <2>1
      <3>2. RowShape(P, g, Q2[g])
        BY <1>11, <3>1, CutShape
      <3>3. \A i \in DOMAIN Q[g] : Q[g][i].msg = m => i = k
        BY <1>11, <3>1, OnePlace
      <3>4. k \in Nat /\ \A i \in DOMAIN Q2[g] : i \in Nat
        BY <3>1 DEF Cuts
      <3>5. \A i \in DOMAIN Q2[g] : Q2[g][i].msg # m
        BY <3>1, <3>3, <3>4 DEF Cuts
      <3>6. QED
        BY <3>2, <3>5
    <2>2. QED
      BY <1>11, <1>12, <2>1
  <1>14. Neat(P, Q2)
    BY <1>3, <1>10, <1>13 DEF Neat, Elsewhere
  <1>15. \A h \in Group : \A i \in DOMAIN Q2[h] : Q2[h][i].msg # m
    <2> SUFFICES ASSUME NEW h \in Group, h # g PROVE \A i \in DOMAIN Q2[h] : Q2[h][i].msg # m
      BY <1>13
    <2>1. RowShape(P, h, Q2[h])
      BY <1>14 DEF Neat
    <2>2. QED
      BY <1>6, <2>1 DEF RowShape, SlotShape
  <1>16. Rows'
    <2>1. \A h \in Group : RowShape(P2, h, Q2[h])
      BY <1>8, <1>14, <1>15, RowsGo
    <2>2. QED
      BY <1>2, <1>8, <1>10, <2>1 DEF Rows, QueueShape
  <1>17. (\A w \in Worker : Grip(w)') /\ hands' = hands /\ SentAtOnce'
    <2>1. backend \notin {"rqlite", "redis"}
      BY <1>1, <1>5 DEF FInv, SentAtOnce
    <2>2. QED
      BY <2>1, GripKept DEF SentAtOnce
  <1>18. WaitingOf(Q2) = WaitingOf(Q) /\ BeforeOf(Q2) = BeforeOf(Q)
    <2>1. /\ WaitingOf(Q2) = WaitingOf(Q) \ {m}
          /\ BeforeOf(Q2) = {p \in BeforeOf(Q) : m \notin {p[1], p[2]}}
      <3>1. Neat(P, Q) /\ Neat(P, Q2) /\ Elsewhere(Q, Q2, g) /\ GroupOf[m] = g
        BY <1>3, <1>6, <1>10, <1>14
      <3>2. QED
        BY <1>7, <1>12, <3>1, Deleted
    <2>2. \A h \in Group : \A i \in SeenIn(Q[h]) : Q[h][i].msg # m
      <3> SUFFICES ASSUME NEW h \in Group, NEW i \in SeenIn(Q[h]), Q[h][i].msg = m PROVE FALSE
        OBVIOUS
      <3>1. Q[h][i].visible /\ SlotShape(P, h, Q[h][i])
        BY <1>3 DEF SeenIn, Neat, RowShape
      <3>2. PICK t, a : Begun(P, t, a, Q[h][i])
        BY <3>1 DEF SlotShape
      <3>3. t = s /\ a = P[s].at
        BY <1>5, <1>6, <3>2, OneAuthor DEF Begun
      <3>4. QED
        BY <1>1, <3>1, <3>2, <3>3 DEF Begun
    <2>3. m \notin WaitingOf(Q)
      BY <2>2 DEF WaitingOf
    <2>4. \A p \in BeforeOf(Q) : m \notin {p[1], p[2]}
      BY <2>2 DEF BeforeOf
    <2>5. QED
      BY <2>1, <2>3, <2>4
  <1>19. QED
    BY <1>1, <1>2, <1>16, <1>17, <1>18, Views DEF FInv, BoxStep

LEMMA SendPromise ==
  ASSUME IInv, FInv, NEW s \in Sender, Send(s) \/ CrashSender(s)
  PROVE  FInv' /\ BoxStep
  <1>1. /\ Rows /\ SenderShape(sender)
        /\ \A pc : SenderTo(s, pc) => sender' = [sender EXCEPT ![s] = [pc |-> pc, at |-> sender[s].at]]
        /\ Published(s) => sender' = [sender EXCEPT ![s] = [pc |-> "idle", at |-> sender[s].at + 1]]
        /\ \A pc : Publishing(s, pc) => sender[s].pc = pc /\ sender[s].at \in DOMAIN Script[s]
    BY SenderMoves DEF FInv, Rows
  <1>2. PICK on : on = [pc |-> "idle", at |-> sender[s].at + 1]
    OBVIOUS
  <1>3. on = [pc |-> on.pc, at |-> on.at] /\ on.pc = "idle" /\ on.at = sender[s].at + 1
    BY <1>2
  <1>4. CASE PublishAtOnce(s)
    <2>1. sender[s].pc = "idle" /\ sender[s].at \in DOMAIN Script[s] /\ sender' = [sender EXCEPT ![s] = on]
          /\ AddSlot(ToPublish(s), TRUE) /\ UNCHANGED <<backend, worker, lock>>
      BY <1>1, <1>2, <1>4 DEF PublishAtOnce
    <2>2. PICK v \in BOOLEAN : v = TRUE
      OBVIOUS
    <2>3. AddSlot(ToPublish(s), v) /\ v = (on.pc \notin Unseen) /\ on.pc \in Unseen \cup {"idle", "register"}
      BY <1>3, <2>1, <2>2 DEF Unseen
    <2>4. QED
      BY <1>3, <2>1, <2>3, Appends
  <1>5. CASE InsertFirst(s) /\ backend \notin {"rqlite", "redis"}
    <2>1. PICK r : r = [pc |-> "register", at |-> sender[s].at]
      OBVIOUS
    <2>2. sender[s].pc = "idle" /\ sender[s].at \in DOMAIN Script[s] /\ sender' = [sender EXCEPT ![s] = r]
          /\ AddSlot(ToPublish(s), TRUE) /\ UNCHANGED <<backend, worker, lock>>
      BY <1>1, <1>5, <2>1 DEF InsertFirst
    <2>3. r = [pc |-> r.pc, at |-> r.at] /\ r.pc = "register" /\ r.at = sender[s].at
      BY <2>1
    <2>4. PICK v \in BOOLEAN : v = TRUE
      OBVIOUS
    <2>5. AddSlot(ToPublish(s), v) /\ v = (r.pc \notin Unseen) /\ r.pc \in Unseen \cup {"idle", "register"} /\ r.pc # "idle"
      BY <2>2, <2>3, <2>4 DEF Unseen
    <2>6. QED
      BY <1>5, <2>2, <2>3, <2>5, Appends
  <1>6. CASE Allocate(s) /\ backend \notin {"rqlite", "redis"}
    <2>1. PICK r : r = [pc |-> "insert", at |-> sender[s].at]
      OBVIOUS
    <2>2. sender[s].pc = "idle" /\ sender[s].at \in DOMAIN Script[s] /\ sender' = [sender EXCEPT ![s] = r]
          /\ AddSlot(ToPublish(s), FALSE) /\ UNCHANGED <<backend, worker, lock>>
      BY <1>1, <1>6, <2>1 DEF Allocate
    <2>3. r = [pc |-> r.pc, at |-> r.at] /\ r.pc = "insert" /\ r.at = sender[s].at
      BY <2>1
    <2>4. PICK v \in BOOLEAN : v = FALSE
      OBVIOUS
    <2>5. AddSlot(ToPublish(s), v) /\ v = (r.pc \notin Unseen) /\ r.pc \in Unseen \cup {"idle", "register"} /\ r.pc # "idle"
      BY <2>2, <2>3, <2>4 DEF Unseen
    <2>6. QED
      BY <1>6, <2>2, <2>3, <2>5, Appends
  <1>7. CASE RegisterNext(s) \/ (CrashSender(s) /\ sender[s].pc = "register")
    <2>1. sender[s].pc = "register" /\ sender' = [sender EXCEPT ![s] = on] /\ UNCHANGED <<backend, queue, worker, lock>>
      BY <1>1, <1>2, <1>7 DEF RegisterNext, CrashSender
    <2>2. sender[s].pc # "idle" /\ (sender[s].pc \in Unseen <=> on.pc \in Unseen)
          /\ on.pc \in Unseen \cup {"idle", "register"}
      BY <1>3, <2>1 DEF Unseen
    <2>3. QED
      BY <1>3, <2>1, <2>2, SenderOnly
  <1>8. CASE UpsertGroup(s)
    <2>1. PICK pc : pc \in {"create", "commit"} /\ SenderTo(s, pc)
      BY <1>8 DEF UpsertGroup
    <2>2. PICK r : r = [pc |-> pc, at |-> sender[s].at]
      OBVIOUS
    <2>3. sender[s].pc = "insert" /\ sender' = [sender EXCEPT ![s] = r] /\ UNCHANGED <<backend, queue, worker, lock>>
      BY <1>1, <1>8, <2>1, <2>2 DEF UpsertGroup
    <2>4. r = [pc |-> r.pc, at |-> r.at] /\ r.pc = pc /\ r.at = sender[s].at
      BY <2>2
    <2>5. sender[s].pc # "idle" /\ (sender[s].pc \in Unseen <=> r.pc \in Unseen)
          /\ r.pc \in Unseen \cup {"idle", "register"} /\ r.pc # "idle"
      BY <2>1, <2>3, <2>4 DEF Unseen
    <2>6. QED
      BY <2>3, <2>4, <2>5, SenderOnly
  <1>9. CASE InsertOne(s)
    <2>1. PICK r : r = [pc |-> "register", at |-> sender[s].at]
      OBVIOUS
    <2>2. sender[s].pc \in Unseen /\ sender' = [sender EXCEPT ![s] = r] /\ Reveal(ToPublish(s))
          /\ UNCHANGED <<backend, worker, lock>>
      BY <1>1, <1>9, <2>1 DEF InsertOne, Unseen
    <2>3. r = [pc |-> r.pc, at |-> r.at] /\ r.pc \in {"idle", "register"} /\ r.pc # "idle" /\ r.at = sender[s].at
      BY <2>1
    <2>4. QED
      BY <2>2, <2>3, Reveals
  <1>10. CASE CommitBoth(s)
    <2>1. sender[s].pc \in Unseen /\ sender' = [sender EXCEPT ![s] = on] /\ Reveal(ToPublish(s))
          /\ UNCHANGED <<backend, worker, lock>>
      BY <1>1, <1>2, <1>10 DEF CommitBoth, Unseen
    <2>2. QED
      BY <1>3, <2>1, Reveals
  <1>11. CASE CrashSender(s) /\ sender[s].pc # "register"
    <2>1. sender[s].pc \in Unseen
      BY <1>1, <1>11 DEF CrashSender, SenderShape
    <2>2. QED
      BY <1>11, <2>1, TakesBack DEF CrashSender
  <1>12. QED
    BY <1>4, <1>5, <1>6, <1>7, <1>8, <1>9, <1>10, <1>11 DEF Send, SqlitePublish, AioSqlitePublish, LibsqlPublish,
      AioLibsqlPublish, RqlitePublish, AioRqlitePublish, RedisPublish, AioRedisPublish, InMemoryPublish,
      AioInMemoryPublish, MongoPublish, AioMongoPublish, PostgresPublish, AioPostgresPublish, TwoStatements, On
-----------------------------------------------------------------------------
(* The calls of a worker *)

Holds(r) == IF r.pc \in Hands THEN r.msg ELSE NoMsg

\* Nobody else gets a lock, and nobody else's lock comes to another message.
LockYields(w) == \A v \in Worker, g \in Group :
  v # w /\ lock'[g].by = v => lock[g].by = v /\ lock'[g].msg = lock[g].msg

\* The heads that others count on stay while they have the lock.
HeadsStay(w) == backend \in {"rqlite", "redis"} => \A v \in Worker, g \in Group : \A m :
  v # w /\ HeadIs(g, m) /\ lock[g].by = v /\ lock[g].msg = m /\ lock'[g].by = v => HeadIs(g, m)'

LEMMA Yields ==
  ASSUME IInv, NEW w \in Worker,
         \/ UNCHANGED lock
         \/ \E g, x : SetLock(g, x) /\ x.by \in {w, NoWorker}
  PROVE  LockYields(w)
  <1>1. CASE UNCHANGED lock
    BY <1>1 DEF LockYields
  <1>2. CASE \E g, x : SetLock(g, x) /\ x.by \in {w, NoWorker}
    <2>1. PICK g, x : SetLock(g, x) /\ x.by \in {w, NoWorker}
      BY <1>2
    <2>2. \A h \in Group : lock'[h] = IF h = g THEN x ELSE lock[h]
      BY <2>1 DEF SetLock, IInv, Shape, LockShape
    <2>3. QED
      BY <2>1, <2>2, Apart DEF LockYields
  <1>3. QED
    BY <1>1, <1>2

LEMMA HandsOf ==
  ASSUME NEW w \in Worker, NEW r, \A v \in Worker : worker'[v] = IF v = w THEN r ELSE worker[v]
  PROVE  hands' = [hands EXCEPT ![w] = Holds(r)] /\ hands[w] = InHand(w)
  <1>1. \A v \in Worker : InHand(v)' = IF v = w THEN Holds(r) ELSE InHand(v)
    BY DEF InHand, Holds, Hands
  <1>2. hands' = [v \in Worker |-> InHand(v)']
    BY DEF hands
  <1>3. QED
    BY <1>1, <1>2 DEF hands

LEMMA OthersGrip ==
  ASSUME IInv, FInv, NEW w \in Worker, \A v \in Worker : v # w => worker'[v] = worker[v],
         UNCHANGED backend, LockYields(w), HeadsStay(w)
  PROVE  \A v \in Worker : v # w => Grip(v)'
  <1> SUFFICES ASSUME NEW v \in Worker, v # w PROVE Grip(v)'
    OBVIOUS
  <1>1. worker'[v] = worker[v] /\ (Aims(v)' <=> Aims(v)) /\ Grip(v)
    BY DEF Aims, FInv
  <1>2. ASSUME Aims(v), lock'[worker[v].group].by = v
        PROVE  lock'[worker[v].group].msg = worker[v].msg /\ HeadIs(worker[v].group, worker[v].msg)'
    <2>1. PICK g, m : g = worker[v].group /\ m = worker[v].msg
      OBVIOUS
    <2>2. g \in Group /\ backend \in {"rqlite", "redis"}
      BY <1>2, <2>1, LeaseOf DEF Aims, Lease
    <2>3. lock[g].by = v /\ lock'[g].msg = lock[g].msg
      BY <1>2, <2>1, <2>2 DEF LockYields
    <2>4. lock[g].msg = m /\ HeadIs(g, m)
      BY <1>1, <1>2, <2>1, <2>3 DEF Grip
    <2>5. HeadIs(g, m)'
      BY <1>2, <2>1, <2>2, <2>3, <2>4 DEF HeadsStay
    <2>6. worker'[v].group = g /\ worker'[v].msg = m
      BY <1>1, <2>1
    <2>7. QED
      BY <2>1, <2>3, <2>4, <2>5, <2>6 DEF HeadIs
  <1>3. QED
    BY <1>1, <1>2 DEF Grip, HeadIs

\* A call that leaves the messages alone: the worker keeps what it was handed, or gives it back.
LEMMA Stays ==
  ASSUME IInv, FInv, NEW w \in Worker, NEW r, Become(w, r), UNCHANGED <<backend, sender, queue>>,
         LockYields(w), Grip(w)', Holds(r) \in {InHand(w), NoMsg}
  PROVE  FInv' /\ BoxStep
  <1>1. \A v \in Worker : worker'[v] = IF v = w THEN r ELSE worker[v]
    BY DEF Become, IInv, Shape, WorkerShape
  <1>2. HeadsStay(w)
    BY DEF HeadsStay, HeadIs
  <1>3. \A v \in Worker : Grip(v)'
    BY <1>1, <1>2, OthersGrip
  <1>4. FInv'
    BY <1>3 DEF FInv, Rows, QueueShape, SentAtOnce
  <1>5. hands' = [hands EXCEPT ![w] = Holds(r)] /\ hands[w] = InHand(w)
    BY <1>1, HandsOf
  <1>6. Waiting' = Waiting /\ Before' = Before
    BY Views
  <1>7. CASE Holds(r) = InHand(w)
    <2>1. hands' = hands
      BY <1>5, <1>7 DEF hands
    <2>2. QED
      BY <1>4, <1>6, <2>1 DEF BoxStep
  <1>8. CASE Holds(r) = NoMsg
    <2>1. Box!Release(w)
      BY <1>5, <1>6, <1>8 DEF Box!Release, hands
    <2>2. QED
      BY <1>4, <2>1 DEF BoxStep, Box!Next
  <1>9. QED
    BY <1>7, <1>8

\* The oldest message of a group that has one waits, and none is before it.
LEMMA OldestFirst ==
  ASSUME Rows, NEW g \in Group, Messages(g) # {}
  PROVE  /\ Oldest(g) \in Waiting /\ Oldest(g) \in Msg /\ GroupOf[Oldest(g)] = g
         /\ \A p \in Before : p[2] # Oldest(g)
         /\ \E i \in Visible(g) : Oldest(g) = queue[g][i].msg /\ \A j \in Visible(g) : i <= j
  <1>1. \A h \in Group : RowShape(sender, h, queue[h])
    BY RowsOf
  <1>2. Visible(g) # {} /\ Visible(g) \in SUBSET Nat
    BY <1>1 DEF Messages, Visible, RowShape
  <1>3. PICK i \in Visible(g) : \A j \in Visible(g) : i <= j
    <2>1. PICK i \in Visible(g) : \A j \in Visible(g) : <<j, i>> \notin OpToRel(<, Nat)
      BY <1>2, NatLessThanWellFounded, WFMin
    <2>2. \A j \in Visible(g) : ~ (j < i)
      BY <1>2, <2>1 DEF OpToRel
    <2>3. QED
      BY <1>2, <2>2
  <1>4. Min(Visible(g)) = i
    <2>1. \A j \in Visible(g) : (\A l \in Visible(g) : j <= l) => j = i
      BY <1>2, <1>3
    <2>2. QED
      BY <1>3, <2>1 DEF Min
  <1>5. Oldest(g) = queue[g][i].msg
    BY <1>4 DEF Oldest
  <1>6. Oldest(g) \in Waiting
    BY <1>3, <1>5 DEF Waiting, Messages
  <1>7. Oldest(g) \in Msg /\ GroupOf[Oldest(g)] = g
    BY <1>1, <1>3, <1>5 DEF Visible, RowShape, SlotShape, Slot
  <1>8. ASSUME NEW p \in Before, p[2] = Oldest(g) PROVE FALSE
    <2>1. PICK h \in Group : \E a, b \in Visible(h) : a < b /\ p = <<queue[h][a].msg, queue[h][b].msg>>
      BY <1>8 DEF Before
    <2>2. PICK a, b \in Visible(h) : a < b /\ p[2] = queue[h][b].msg
      BY <2>1
    <2>3. h = g
      BY <1>1, <1>7, <1>8, <2>2 DEF Visible, RowShape, SlotShape
    <2>4. RowShape(sender, g, queue[g]) /\ b \in DOMAIN queue[g] /\ i \in DOMAIN queue[g]
          /\ queue[g][b].msg = queue[g][i].msg
      BY <1>1, <1>3, <1>5, <1>8, <2>2, <2>3 DEF Visible
    <2>5. b = i
      BY <2>4, OnePlace
    <2>6. QED
      BY <1>2, <1>3, <2>2, <2>3, <2>5
  <1>9. QED
    BY <1>3, <1>5, <1>6, <1>7, <1>8

\* A worker that holds nothing is handed the oldest message of a group.
LEMMA Receives ==
  ASSUME IInv, FInv, NEW w \in Worker, NEW r, Become(w, r), UNCHANGED <<backend, sender, queue>>,
         LockYields(w), Grip(w)', InHand(w) = NoMsg, NEW g \in Group, Messages(g) # {}, Holds(r) = Oldest(g)
  PROVE  FInv' /\ BoxStep
  <1>1. \A v \in Worker : worker'[v] = IF v = w THEN r ELSE worker[v]
    BY DEF Become, IInv, Shape, WorkerShape
  <1>2. HeadsStay(w)
    BY DEF HeadsStay, HeadIs
  <1>3. \A v \in Worker : Grip(v)'
    BY <1>1, <1>2, OthersGrip
  <1>4. FInv'
    BY <1>3 DEF FInv, Rows, QueueShape, SentAtOnce
  <1>5. hands' = [hands EXCEPT ![w] = Oldest(g)] /\ hands[w] = NoMsg
    BY <1>1, HandsOf
  <1>6. Waiting' = Waiting /\ Before' = Before
    BY Views
  <1>7. Oldest(g) \in Waiting /\ Oldest(g) \in Msg /\ \A p \in Before : p[2] # Oldest(g)
    BY OldestFirst DEF FInv
  <1>8. Box!Hand(w, Oldest(g))
    BY <1>5, <1>6, <1>7 DEF Box!Hand, hands
  <1>9. QED
    BY <1>4, <1>7, <1>8 DEF BoxStep, Box!Next

\* A worker settles the message it holds: the message, and no other, leaves the mailbox.
LEMMA Settles ==
  ASSUME IInv, FInv, NEW w \in Worker, NEW r, Become(w, r), UNCHANGED <<backend, sender>>,
         LockYields(w), HeadsStay(w), Grip(w)', Holds(r) = NoMsg,
         InHand(w) \in Msg, NEW g \in Group, GroupOf[InHand(w)] = g,
         NEW q2, queue' = [queue EXCEPT ![g] = q2],
         \/ q2 = queue[g] /\ \A i \in DOMAIN queue[g] : queue[g][i].msg # InHand(w)
         \/ \E k \in DOMAIN queue[g] : queue[g][k].msg = InHand(w) /\ Cuts(queue[g], q2, k)
  PROVE  FInv' /\ BoxStep
  <1>1. \A v \in Worker : worker'[v] = IF v = w THEN r ELSE worker[v]
    BY DEF Become, IInv, Shape, WorkerShape
  <1>2. \A v \in Worker : Grip(v)'
    BY <1>1, OthersGrip
  <1>3. PICK P, Q, m : P = sender /\ Q = queue /\ m = InHand(w)
    OBVIOUS
  <1>4. PICK Q2 : Q2 = queue'
    OBVIOUS
  <1>5. Neat(P, Q) /\ Q = [h \in Group |-> Q[h]] /\ m \in Msg /\ GroupOf[m] = g
    BY <1>3 DEF FInv, Rows, QueueShape, Neat
  <1>6. Q2 = [Q EXCEPT ![g] = q2]
    BY <1>3, <1>4
  <1>7. Q2[g] = q2 /\ Elsewhere(Q, Q2, g) /\ Q2 = [h \in Group |-> Q2[h]]
    BY <1>5, <1>6 DEF Elsewhere
  <1>8. \/ Q2[g] = Q[g] /\ \A i \in DOMAIN Q[g] : Q[g][i].msg # m
        \/ \E k \in DOMAIN Q[g] : Q[g][k].msg = m /\ Cuts(Q[g], Q2[g], k)
    BY <1>3, <1>7
  <1>9. RowShape(P, g, Q2[g])
    <2>1. RowShape(P, g, Q[g])
      BY <1>5 DEF Neat
    <2>2. QED
      BY <1>8, <2>1, CutShape
  <1>10. Neat(P, Q2)
    BY <1>5, <1>7, <1>9 DEF Neat, Elsewhere
  <1>11. FInv'
    BY <1>2, <1>3, <1>4, <1>7, <1>10 DEF FInv, Rows, QueueShape, SentAtOnce, Neat
  <1>12. /\ WaitingOf(Q2) = WaitingOf(Q) \ {m}
         /\ BeforeOf(Q2) = {p \in BeforeOf(Q) : m \notin {p[1], p[2]}}
    BY <1>5, <1>7, <1>8, <1>10, Deleted
  <1>13. hands' = [hands EXCEPT ![w] = NoMsg] /\ hands[w] = m
    BY <1>1, <1>3, HandsOf
  <1>14. Waiting' = Waiting \ {m} /\ Before' = {p \in Before : m \notin {p[1], p[2]}}
    BY <1>3, <1>4, <1>12, Views
  <1>15. m # NoMsg
    BY <1>5, TransportAssumption
  <1>16. Box!Settle(w)
    BY <1>13, <1>14, <1>15 DEF Box!Settle, hands
  <1>17. QED
    BY <1>11, <1>16 DEF BoxStep, Box!Next

\* A worker whose call ends without settling what it held.
LEMMA Ends ==
  ASSUME IInv, FInv, NEW w \in Worker, Become(w, Idle), UNCHANGED <<backend, sender, queue>>, LockYields(w)
  PROVE  FInv' /\ BoxStep
  <1>1. worker'[w] = Idle
    BY DEF Become, IInv, Shape, WorkerShape
  <1>2. Grip(w)' /\ Holds(Idle) = NoMsg
    BY <1>1 DEF Grip, Aims, Idle, Hands, Holds
  <1>3. QED
    BY <1>2, Stays

LEMMA ToOf ==
  ASSUME IInv, NEW w \in Worker, NEW pc, WorkerTo(w, pc)
  PROVE  \E r : /\ Become(w, r) /\ r.pc = pc /\ r.group = worker[w].group /\ r.msg = worker[w].msg
                /\ worker'[w] = r
  <1> DEFINE r == [pc |-> pc, group |-> worker[w].group, msg |-> worker[w].msg, timely |-> worker[w].timely]
  <1>1. r = [worker[w] EXCEPT !.pc = pc]
    <2>1. worker[w] = [pc |-> worker[w].pc, group |-> worker[w].group,
                       msg |-> worker[w].msg, timely |-> worker[w].timely]
      BY LeaseOf DEF Lease
    <2>2. QED
      BY <2>1
  <1>2. Become(w, r) /\ worker'[w] = r
    BY <1>1 DEF Become, WorkerTo, IInv, Shape, WorkerShape
  <1>3. r.pc = pc /\ r.group = worker[w].group /\ r.msg = worker[w].msg
    OBVIOUS
  <1> HIDE DEF r
  <1>4. QED
    BY <1>2, <1>3

\* A worker that goes on to a call that no longer counts on the head.
LEMMA Goes ==
  ASSUME IInv, FInv, NEW w \in Worker, NEW pc, WorkerTo(w, pc), UNCHANGED <<backend, sender, queue>>, LockYields(w),
         pc \in Hands => worker[w].pc \in Hands, pc = "touch" => backend = "rqlite",
         ~(backend = "redis" /\ pc = "work"), ~(backend = "rqlite" /\ pc = "read")
  PROVE  FInv' /\ BoxStep
  <1>1. PICK r : Become(w, r) /\ r.pc = pc /\ r.group = worker[w].group /\ r.msg = worker[w].msg /\ worker'[w] = r
    BY ToOf
  <1>2. ~Aims(w)'
    BY <1>1 DEF Aims
  <1>3. Grip(w)
    BY DEF FInv
  <1>4. Grip(w)'
    BY <1>1, <1>2, <1>3 DEF Grip
  <1>5. Holds(r) \in {InHand(w), NoMsg}
    BY <1>1 DEF Holds, InHand, Hands
  <1>6. QED
    BY <1>1, <1>4, <1>5, Stays

\* Where publishes are one call, the head of a group is its oldest message.
LEMMA HeadOldest ==
  ASSUME FInv, backend \in {"rqlite", "redis"}, NEW g \in Group
  PROVE  /\ Messages(g) # {} => HeadIs(g, Oldest(g))
         /\ \A m : HeadIs(g, m) => Messages(g) # {} /\ m = Oldest(g)
  <1>1. RowShape(sender, g, queue[g]) /\ Rows
    BY RowsOf DEF FInv
  <1>2. \A s \in Sender : sender[s].pc \notin Unseen
    BY DEF FInv, SentAtOnce, Unseen
  <1>3. Visible(g) = DOMAIN queue[g]
    BY <1>1, <1>2 DEF Visible, RowShape, SlotShape, Begun
  <1>4. PICK n \in Nat : n = Len(queue[g])
    BY <1>1 DEF RowShape
  <1>5. DOMAIN queue[g] = 1 .. n /\ (queue[g] # <<>> <=> n > 0)
    BY <1>1, <1>4 DEF RowShape
  <1>6. Messages(g) # {} <=> n > 0
    <2>1. CASE n > 0
      <3>1. 1 \in Visible(g)
        BY <1>3, <1>4, <1>5, <2>1
      <3>2. QED
        BY <2>1, <3>1 DEF Messages
    <2>2. CASE ~(n > 0)
      <3>1. Visible(g) = {}
        BY <1>3, <1>4, <1>5, <2>2
      <3>2. QED
        BY <2>2, <3>1 DEF Messages
    <2>3. QED
      BY <2>1, <2>2
  <1>7. Messages(g) # {} => Oldest(g) = queue[g][1].msg
    <2> SUFFICES ASSUME Messages(g) # {} PROVE Oldest(g) = queue[g][1].msg
      OBVIOUS
    <2>1. PICK i \in Visible(g) : Oldest(g) = queue[g][i].msg /\ \A j \in Visible(g) : i <= j
      BY <1>1, OldestFirst
    <2>2. i \in 1 .. n /\ i <= 1
      BY <1>3, <1>5, <1>6, <2>1
    <2>3. i = 1
      BY <1>4, <2>2
    <2>4. QED
      BY <2>1, <2>3
  <1>8. QED
    BY <1>5, <1>6, <1>7 DEF HeadIs

\* A call that touches neither messages nor leases.
LEMMA Idles ==
  ASSUME IInv, FInv, UNCHANGED <<backend, queue, lock, worker, sender>>
  PROVE  FInv' /\ BoxStep
  <1>1. \A g \in Group : \A m : HeadIs(g, m) => HeadIs(g, m)'
    BY DEF HeadIs
  <1>2. (\A w \in Worker : Grip(w)') /\ hands' = hands
    BY <1>1, GripKept
  <1>3. FInv'
    BY <1>2 DEF FInv, Rows, QueueShape, SentAtOnce
  <1>4. QED
    BY <1>2, <1>3, Views DEF BoxStep

LEMMA Sets ==
  ASSUME IInv, NEW g \in Group, NEW x, SetLock(g, x)
  PROVE  \A h \in Group : lock'[h] = IF h = g THEN x ELSE lock[h]
  BY DEF SetLock, IInv, Shape, LockShape

LEMMA Becomes ==
  ASSUME IInv, NEW w \in Worker, NEW r, Become(w, r)
  PROVE  \A v \in Worker : worker'[v] = IF v = w THEN r ELSE worker[v]
  BY DEF Become, IInv, Shape, WorkerShape

\* claim: the oldest message of a group is handed out, on rqlite a call later.
LEMMA TakeHeadPromise ==
  ASSUME IInv, FInv, NEW w \in Worker, NEW g \in Group, NEW pc, TakeHead(w, g, pc),
         \/ pc = "work"
         \/ pc = "read" /\ backend = "rqlite"
  PROVE  FInv' /\ BoxStep
  <1>1. Messages(g) # {} /\ worker[w] = Idle /\ UNCHANGED <<backend, queue, sender>>
    BY DEF TakeHead, Foremost, First, Claimable
  <1>2. PICK m : m = Oldest(g)
    OBVIOUS
  <1>3. m \in Msg /\ GroupOf[m] = g
    BY <1>1, <1>2, OldestFirst DEF FInv
  <1>4. PICK r : r = Leased(pc, g, m)
    OBVIOUS
  <1>5. r.pc = pc /\ r.group = g /\ r.msg = m
    BY <1>4 DEF Leased
  <1>6. Become(w, r) /\ SetLock(g, HeldBy(w, m))
    BY <1>2, <1>4 DEF TakeHead
  <1>7. worker'[w] = r
    BY <1>6, Becomes
  <1>8. lock'[g].by = w /\ lock'[g].msg = m /\ LockYields(w)
    <2>1. HeldBy(w, m).by = w /\ HeldBy(w, m).msg = m
      BY DEF HeldBy
    <2>2. QED
      BY <1>6, <2>1, Sets, Yields
  <1>9. backend \in {"rqlite", "redis"} => HeadIs(g, m)'
    <2>1. backend \in {"rqlite", "redis"} => HeadIs(g, m)
      BY <1>1, <1>2, HeadOldest
    <2>2. QED
      BY <1>1, <2>1 DEF HeadIs
  <1>10. Grip(w)'
    <2>1. worker'[w].pc = pc /\ worker'[w].group = g /\ worker'[w].msg = m
      BY <1>5, <1>7
    <2>2. Aims(w)' => HeadIs(g, m)'
      BY <1>1, <1>9 DEF Aims
    <2>3. QED
      BY <1>3, <1>8, <2>1, <2>2 DEF Grip, HeadIs
  <1>11. InHand(w) = NoMsg
    BY <1>1 DEF InHand, Idle
  <1>12. CASE pc = "work"
    <2>1. Holds(r) = Oldest(g)
      BY <1>2, <1>5, <1>12 DEF Holds, Hands
    <2>2. QED
      BY <1>1, <1>6, <1>8, <1>10, <1>11, <2>1, Receives
  <1>13. CASE pc = "read"
    <2>1. Holds(r) = NoMsg
      BY <1>5, <1>13 DEF Holds, Hands
    <2>2. QED
      BY <1>1, <1>6, <1>8, <1>10, <2>1, Stays
  <1>14. QED
    BY <1>12, <1>13

LEMMA LeaseDocumentPromise ==
  ASSUME IInv, FInv, NEW w \in Worker, NEW g \in Group, LeaseDocument(w, g), backend = "mongo"
  PROVE  FInv' /\ BoxStep
  <1>1. PICK r : r = Leased("read", g, NoMsg)
    OBVIOUS
  <1>2. r.pc = "read"
    BY <1>1 DEF Leased
  <1>3. Become(w, r) /\ SetLock(g, HeldBy(w, NoMsg)) /\ UNCHANGED <<backend, queue, sender>>
    BY <1>1 DEF LeaseDocument
  <1>4. worker'[w] = r
    BY <1>3, Becomes
  <1>5. LockYields(w)
    <2>1. HeldBy(w, NoMsg).by = w
      BY DEF HeldBy
    <2>2. QED
      BY <1>3, <2>1, Yields
  <1>6. Grip(w)'
    BY <1>2, <1>3, <1>4 DEF Grip, Aims, Hands
  <1>7. Holds(r) = NoMsg
    BY <1>2 DEF Holds, Hands
  <1>8. QED
    BY <1>3, <1>5, <1>6, <1>7, Stays

LEMMA ClaimPromise ==
  ASSUME IInv, FInv, NEW w \in Worker, Claim(w)
  PROVE  FInv' /\ BoxStep
  <1>1. CASE ScriptNothing(w)
    BY <1>1, Idles DEF ScriptNothing
  <1>2. ASSUME NEW g \in Group, TakeHead(w, g, "work") \/ (TakeHead(w, g, "read") /\ backend = "rqlite")
        PROVE  FInv' /\ BoxStep
    BY <1>2, TakeHeadPromise
  <1>3. ASSUME NEW g \in Group, LeaseDocument(w, g), backend = "mongo"
        PROVE  FInv' /\ BoxStep
    BY <1>3, LeaseDocumentPromise
  <1>4. \/ ScriptNothing(w)
        \/ \E g \in Group : \/ TakeHead(w, g, "work")
                            \/ TakeHead(w, g, "read") /\ backend = "rqlite"
                            \/ LeaseDocument(w, g) /\ backend = "mongo"
    BY DEF Claim, SqliteClaim, AioSqliteClaim, LibsqlClaim, AioLibsqlClaim,
      InMemoryClaim, AioInMemoryClaim, RqliteClaim, AioRqliteClaim, PostgresClaim, AioPostgresClaim,
      RedisClaim, AioRedisClaim, MongoClaim, AioMongoClaim, ClaimInOne, LeaseMessage, FunctionClaim, ScriptClaim, On
  <1>5. QED
    BY <1>1, <1>2, <1>3, <1>4

\* The second call of a claim finds the row the first one leased, if the lock still has its name.
LEMMA ReadLeasedPromise ==
  ASSUME IInv, FInv, NEW w \in Worker, ReadLeased(w), backend = "rqlite"
  PROVE  FInv' /\ BoxStep
  <1>1. worker[w].pc = "read" /\ UNCHANGED <<backend, queue, sender, lock>>
    BY DEF ReadLeased
  <1>2. LockYields(w)
    BY <1>1, Yields
  <1>3. CASE lock[worker[w].group].by # w
    BY <1>1, <1>2, <1>3, Ends DEF ReadLeased
  <1>4. CASE lock[worker[w].group].by = w
    <2>1. PICK r : Become(w, r) /\ r.pc = "touch" /\ r.group = worker[w].group /\ r.msg = worker[w].msg /\ worker'[w] = r
      BY <1>4, ToOf DEF ReadLeased
    <2>0. PICK g \in Group : g = worker[w].group
      BY <1>1, LeaseOf DEF Lease
    <2>2. PICK m : g = worker[w].group /\ m = worker[w].msg
      BY <2>0
    <2>3. HeadIs(g, m) /\ m \in Msg /\ GroupOf[m] = g
      BY <1>1, <1>4, <2>2 DEF FInv, Grip, Aims
    <2>4. Messages(g) # {} /\ m = Oldest(g)
      BY <2>3, HeadOldest
    <2>5. Grip(w)'
      BY <1>1, <2>1, <2>2, <2>3 DEF Grip, Aims
    <2>6. InHand(w) = NoMsg /\ Holds(r) = Oldest(g)
      BY <1>1, <2>1, <2>2, <2>4 DEF InHand, Holds, Hands
    <2>7. QED
      BY <1>1, <1>2, <2>1, <2>4, <2>5, <2>6, Receives
  <1>5. QED
    BY <1>3, <1>4

LEMMA ReadOldestPromise ==
  ASSUME IInv, FInv, NEW w \in Worker, ReadOldest(w), backend = "mongo"
  PROVE  FInv' /\ BoxStep
  <1>1. worker[w].pc = "read" /\ UNCHANGED <<backend, queue, sender, lock>>
    BY DEF ReadOldest
  <1>2. LockYields(w)
    BY <1>1, Yields
  <1>3. PICK g \in Group : g = worker[w].group
    BY <1>1, LeaseOf DEF Lease
  <1>4. PICK r : Become(w, r) /\ r = IF Messages(g) = {} THEN [worker[w] EXCEPT !.pc = "drop"]
                                     ELSE [worker[w] EXCEPT !.pc = "work", !.msg = Oldest(g)]
    BY <1>3 DEF ReadOldest
  <1>5. worker'[w] = r
    BY <1>4, Becomes
  <1>6. worker[w] = [pc |-> worker[w].pc, group |-> g, msg |-> worker[w].msg, timely |-> worker[w].timely]
    BY <1>3, LeaseOf DEF Lease
  <1>7. InHand(w) = NoMsg
    BY <1>1 DEF InHand
  <1>8. CASE Messages(g) = {}
    <2>1. r.pc = "drop"
      BY <1>4, <1>6, <1>8
    <2>2. Grip(w)' /\ Holds(r) = NoMsg
      BY <1>1, <1>5, <2>1 DEF Grip, Aims, Hands, Holds
    <2>3. QED
      BY <1>1, <1>2, <1>4, <2>2, Stays
  <1>9. CASE Messages(g) # {}
    <2>1. PICK m : m = Oldest(g)
      OBVIOUS
    <2>2. m \in Msg /\ GroupOf[m] = g
      BY <1>9, <2>1, OldestFirst DEF FInv
    <2>3. r.pc = "work" /\ r.msg = m /\ r.group = g
      BY <1>4, <1>6, <1>9, <2>1
    <2>4. Grip(w)'
      BY <1>1, <1>5, <2>2, <2>3 DEF Grip, Aims
    <2>5. Holds(r) = Oldest(g)
      BY <2>1, <2>3 DEF Holds, Hands
    <2>6. QED
      BY <1>1, <1>2, <1>4, <1>7, <1>9, <2>4, <2>5, Receives
  <1>10. QED
    BY <1>8, <1>9

\* A delete of another row leaves the head.
LEMMA HeadCut ==
  ASSUME NEW q \in Seq(Slot), q # <<>>, NEW q2, NEW k, Cuts(q, q2, k), k # 1
  PROVE  q2 # <<>> /\ q2[1] = q[1]
  <1>1. PICK n \in Nat : n = Len(q)
    OBVIOUS
  <1>2. DOMAIN q = 1 .. n /\ n > 0 /\ 1 \in DOMAIN q
    BY <1>1
  <1>3. 1 < k
    BY <1>2 DEF Cuts
  <1>4. 1 \in DOMAIN q2 /\ q2[1] = q[1] /\ q2 \in Seq(Slot)
    BY <1>2, <1>3 DEF Cuts
  <1>5. QED
    BY <1>4

\* ack by seq or by token: the row of the message the worker was handed goes.
LEMMA Removes ==
  ASSUME IInv, FInv, NEW w \in Worker, NEW r, Become(w, r), r.pc \in {"idle", "remain"},
         UNCHANGED <<backend, sender>>, worker[w].pc \in Hands,
         Delete(worker[w].group, worker[w].msg), LockYields(w),
         backend \in {"rqlite", "redis"} /\ lock[worker[w].group].msg = worker[w].msg
           => lock'[worker[w].group].by = NoWorker
  PROVE  FInv' /\ BoxStep
  <1>0. PICK g \in Group : g = worker[w].group
    BY LeaseOf DEF Lease, Hands
  <1>1. PICK m : g = worker[w].group /\ m = worker[w].msg
    BY <1>0
  <1>2. m \in Msg /\ GroupOf[m] = g /\ InHand(w) = m
    BY <1>1 DEF FInv, Grip, InHand, Hands
  <1>3. PICK q2 : q2 = Without(queue[g], m)
    OBVIOUS
  <1>4. queue' = [queue EXCEPT ![g] = q2]
    BY <1>1, <1>3 DEF Delete
  <1>5. RowShape(sender, g, queue[g])
    BY RowsOf DEF FInv
  <1>6. \/ q2 = queue[g] /\ \A i \in DOMAIN queue[g] : queue[g][i].msg # m
        \/ \E k \in DOMAIN queue[g] : queue[g][k].msg = m /\ Cuts(queue[g], q2, k)
    BY <1>3, <1>5, CutWithout
  <1>7. HeadsStay(w)
    <2> SUFFICES ASSUME backend \in {"rqlite", "redis"}, NEW v \in Worker, NEW h \in Group, NEW n,
                        HeadIs(h, n), lock[h].msg = n, lock'[h].by = v
                 PROVE  HeadIs(h, n)'
      BY DEF HeadsStay
    <2>1. queue'[g] = q2 /\ \A l \in Group : l # g => queue'[l] = queue[l]
      BY <1>4 DEF FInv, Rows, QueueShape
    <2>2. CASE h # g
      BY <2>1, <2>2 DEF HeadIs
    <2>3. CASE h = g
      <3>1. n # m
        BY <1>1, <2>3, Apart
      <3>2. queue[g] # <<>> /\ queue[g][1].msg = n /\ queue[g] \in Seq(Slot)
        BY <1>5, <2>3 DEF HeadIs, RowShape
      <3>3. CASE q2 = queue[g]
        BY <2>1, <2>3, <3>2, <3>3 DEF HeadIs
      <3>4. CASE \E k \in DOMAIN queue[g] : queue[g][k].msg = m /\ Cuts(queue[g], q2, k)
        <4>1. PICK k \in DOMAIN queue[g] : queue[g][k].msg = m /\ Cuts(queue[g], q2, k)
          BY <3>4
        <4>2. k # 1
          BY <3>1, <3>2, <4>1
        <4>3. q2 # <<>> /\ q2[1] = queue[g][1]
          BY <3>2, <4>1, <4>2, HeadCut
        <4>4. QED
          BY <2>1, <2>3, <3>2, <4>3 DEF HeadIs
      <3>5. QED
        BY <1>6, <3>3, <3>4
    <2>4. QED
      BY <2>2, <2>3
  <1>8. worker'[w] = r
    BY Becomes
  <1>9. Grip(w)' /\ Holds(r) = NoMsg
    BY <1>8 DEF Grip, Aims, Hands, Holds
  <1>10. QED
    BY <1>2, <1>4, <1>6, <1>7, <1>9, Settles

LEMMA AckBySeqPromise ==
  ASSUME IInv, FInv, NEW w \in Worker, AckBySeq(w)
  PROVE  FInv' /\ BoxStep
  <1>0. PICK g \in Group : g = worker[w].group
    BY LeaseOf DEF AckBySeq, Lease
  <1>1. PICK m : g = worker[w].group /\ m = worker[w].msg
    BY <1>0
  <1>2. /\ worker[w].pc \in Hands /\ Become(w, Idle) /\ UNCHANGED <<backend, sender>> /\ Delete(g, m)
        /\ IF lock[g].msg = m THEN SetLock(g, Free) ELSE UNCHANGED lock
    BY <1>1 DEF AckBySeq, Hands, SetLock
  <1>3. Free.by = NoWorker /\ Idle.pc = "idle"
    BY DEF Free, Idle
  <1>4. LockYields(w)
    BY <1>2, <1>3, Yields
  <1>5. lock[g].msg = m => lock'[g].by = NoWorker
    BY <1>2, <1>3, Sets
  <1>6. QED
    BY <1>1, <1>2, <1>3, <1>4, <1>5, Removes

LEMMA FunctionAckPromise ==
  ASSUME IInv, FInv, NEW w \in Worker, FunctionAck(w), backend = "postgres"
  PROVE  FInv' /\ BoxStep
  <1>1. worker[w].pc \in Hands /\ Become(w, Idle) /\ UNCHANGED <<backend, sender>>
    BY DEF FunctionAck, Hands
  <1>2. Free.by = NoWorker /\ Idle.pc = "idle"
    BY DEF Free, Idle
  <1>3. LockYields(w)
    BY <1>2, Yields DEF FunctionAck
  <1>4. CASE Owns(w)
    <2>1. Delete(worker[w].group, worker[w].msg)
      BY <1>4 DEF FunctionAck
    <2>2. QED
      BY <1>1, <1>2, <1>3, <2>1, Removes
  <1>5. CASE ~Owns(w)
    BY <1>1, <1>3, <1>5, Ends DEF FunctionAck
  <1>6. QED
    BY <1>4, <1>5

\* The script pops the head, which is the message of the worker whose lock it checks.
LEMMA ScriptAckPromise ==
  ASSUME IInv, FInv, NEW w \in Worker, ScriptAck(w), backend = "redis"
  PROVE  FInv' /\ BoxStep
  <1>0. PICK g \in Group : g = worker[w].group
    BY LeaseOf DEF ScriptAck, Lease
  <1>1. PICK m : g = worker[w].group /\ m = worker[w].msg
    BY <1>0
  <1>2. worker[w].pc = "work" /\ Become(w, Idle) /\ UNCHANGED <<backend, sender>>
    BY DEF ScriptAck
  <1>3. Free.by = NoWorker /\ Idle.pc = "idle"
    BY DEF Free, Idle
  <1>4. LockYields(w)
    BY <1>3, Yields DEF ScriptAck
  <1>5. CASE lock[g].by # w
    <2>1. UNCHANGED queue
      BY <1>1, <1>5 DEF ScriptAck
    <2>2. QED
      BY <1>2, <1>4, <2>1, Ends
  <1>6. CASE lock[g].by = w
    <2>1. PICK q2 : q2 = Tail(queue[g])
      OBVIOUS
    <2>2. queue' = [queue EXCEPT ![g] = q2] /\ SetLock(g, Free)
      BY <1>1, <1>6, <2>1 DEF ScriptAck
    <2>3. m \in Msg /\ GroupOf[m] = g /\ InHand(w) = m /\ HeadIs(g, m)
      BY <1>1, <1>2, <1>6 DEF FInv, Grip, Aims, InHand, Hands
    <2>4. queue[g] \in Seq(Slot)
      BY RowsOf DEF FInv, RowShape
    <2>5. 1 \in DOMAIN queue[g] /\ queue[g][1].msg = m /\ Cuts(queue[g], q2, 1)
      BY <2>1, <2>3, <2>4, CutTail DEF HeadIs
    <2>6. HeadsStay(w)
      <3> SUFFICES ASSUME NEW v \in Worker, NEW h \in Group, NEW n, HeadIs(h, n), lock'[h].by = v, v # w
                   PROVE  HeadIs(h, n)'
        BY DEF HeadsStay
      <3>1. h # g
        BY <1>3, <2>2, Sets, Apart
      <3>2. queue'[h] = queue[h]
        BY <2>2, <3>1 DEF FInv, Rows, QueueShape
      <3>3. QED
        BY <3>2 DEF HeadIs
    <2>7. worker'[w] = Idle
      BY <1>2, Becomes
    <2>8. Grip(w)' /\ Holds(Idle) = NoMsg
      BY <1>3, <2>7 DEF Grip, Aims, Hands, Holds
    <2>9. \E k \in DOMAIN queue[g] : queue[g][k].msg = m /\ Cuts(queue[g], q2, k)
      BY <2>5
    <2>10. QED
      BY <1>2, <1>4, <2>2, <2>3, <2>6, <2>8, <2>9, Settles
  <1>7. QED
    BY <1>5, <1>6

LEMMA MongoPromise ==
  ASSUME IInv, FInv, NEW w \in Worker, AckCallByCall(w) \/ DropGroup(w) \/ LookAgain(w) \/ ReadyAgain(w),
         backend = "mongo"
  PROVE  FInv' /\ BoxStep
  <1>1. Free.by = NoWorker
    BY DEF Free
  <1>2. CASE DeleteMessage(w)
    <2>1. PICK r : Become(w, r) /\ r.pc = "remain"
      BY <1>2, ToOf DEF DeleteMessage
    <2>2. worker[w].pc \in Hands /\ UNCHANGED <<backend, sender, lock>> /\ Delete(worker[w].group, worker[w].msg)
      BY <1>2 DEF DeleteMessage, Hands
    <2>3. LockYields(w)
      BY <2>2, Yields
    <2>4. QED
      BY <2>1, <2>2, <2>3, Removes
  <1>3. CASE ~DeleteMessage(w)
    <2>1. UNCHANGED <<backend, sender, queue>>
      BY <1>3 DEF AckCallByCall, AskToken, LookRemaining, FreeGroup, DropGroup, LookAgain, ReadyAgain
    <2>2. LockYields(w)
      <3>1. UNCHANGED lock \/ SetLock(worker[w].group, Free)
        BY <1>3 DEF AckCallByCall, AskToken, LookRemaining, FreeGroup, DropGroup, LookAgain, ReadyAgain
      <3>2. QED
        BY <1>1, <3>1, Yields
    <2>3. CASE Become(w, Idle)
      BY <2>1, <2>2, <2>3, Ends
    <2>4. CASE \E pc : WorkerTo(w, pc) /\ pc \in {"delete", "drop", "free", "recheck", "ready"}
                       /\ (pc = "delete" => worker[w].pc = "work")
      <3>1. PICK pc : WorkerTo(w, pc) /\ pc \in {"delete", "drop", "free", "recheck", "ready"}
                      /\ (pc = "delete" => worker[w].pc = "work")
        BY <2>4
      <3>2. pc \in Hands => worker[w].pc \in Hands
        BY <3>1 DEF Hands
      <3>3. QED
        BY <2>1, <2>2, <3>1, <3>2, Goes
    <2>5. QED
      BY <1>3, <2>3, <2>4 DEF AckCallByCall, AskToken, LookRemaining, FreeGroup, DropGroup, LookAgain, ReadyAgain
  <1>4. QED
    BY <1>2, <1>3

LEMMA GoPromise ==
  ASSUME IInv, FInv, NEW w \in Worker, Go(w)
  PROVE  FInv' /\ BoxStep
  <1>1. CASE TouchGroup(w)
    <2>1. WorkerTo(w, "work") /\ worker[w].pc = "touch" /\ UNCHANGED <<backend, sender, queue, lock>>
      BY <1>1 DEF TouchGroup
    <2>2. backend = "rqlite" /\ LockYields(w) /\ "touch" \in Hands
      BY <2>1, Yields DEF FInv, Grip, Hands
    <2>3. QED
      BY <2>1, <2>2, Goes
  <1>2. CASE SetScoreAndKey(w)
    <2>1. Free.by = NoWorker /\ Parked.by = NoWorker
      BY DEF Free, Parked
    <2>2. SetLock(worker[w].group, Free) \/ SetLock(worker[w].group, Parked)
      BY <1>2 DEF SetScoreAndKey
    <2>3. LockYields(w)
      BY <2>1, <2>2, Yields
    <2>4. QED
      BY <1>2, <2>3, Ends DEF SetScoreAndKey
  <1>3. QED
    BY <1>1, <1>2, ReadLeasedPromise, ReadOldestPromise, AckBySeqPromise, FunctionAckPromise, ScriptAckPromise,
       MongoPromise
     DEF Go, SqliteAck, AioSqliteAck, LibsqlAck, AioLibsqlAck, InMemoryAck, AioInMemoryAck, RqliteAck,
         AioRqliteAck, PostgresAck, AioPostgresAck, RedisAck, AioRedisAck, MongoAck, AioMongoAck,
         MongoDropGroup, AioMongoDropGroup, On

LEMMA NackPromise ==
  ASSUME IInv, FInv, NEW w \in Worker, Nack(w)
  PROVE  FInv' /\ BoxStep
  <1>1. ASSUME NEW parks \in BOOLEAN, NackBySeq(w, parks) \/ TokenNack(w, parks)
        PROVE  FInv' /\ BoxStep
    <2>1. Free.by = NoWorker /\ Parked.by = NoWorker
      BY DEF Free, Parked
    <2>2. \A m : [Parked EXCEPT !.msg = m].by = NoWorker
      <3> SUFFICES ASSUME NEW m PROVE [Parked EXCEPT !.msg = m].by = NoWorker
        OBVIOUS
      <3>1. Parked = [by |-> Parked.by, msg |-> Parked.msg, live |-> Parked.live]
        BY LockValues
      <3>2. [Parked EXCEPT !.msg = m] = [by |-> Parked.by, msg |-> m, live |-> Parked.live]
        BY <3>1, LockFields, Zenon
      <3>3. QED
        BY <2>1, <3>2
    <2>3. \/ UNCHANGED lock
          \/ \E x : SetLock(worker[w].group, x) /\ x.by = NoWorker
      <3>1. CASE NackBySeq(w, parks)
        BY <2>1, <2>2, <3>1 DEF NackBySeq
      <3>2. CASE TokenNack(w, parks)
        BY <2>1, <3>2 DEF TokenNack
      <3>3. QED
        BY <1>1, <3>1, <3>2
    <2>4. LockYields(w)
      BY <2>3, Yields
    <2>5. Become(w, Idle) /\ UNCHANGED <<backend, sender, queue>>
      BY <1>1 DEF NackBySeq, TokenNack
    <2>6. QED
      BY <2>4, <2>5, Ends
  <1>2. ASSUME NEW parks \in BOOLEAN, AskKey(w, parks)
        PROVE  FInv' /\ BoxStep
    <2>1. worker[w].pc \in Hands /\ UNCHANGED <<backend, sender, queue, lock>>
      BY <1>2 DEF AskKey, Nacks, Hands
    <2>2. LockYields(w)
      BY <2>1, Yields
    <2>3. Become(w, Idle) \/ WorkerTo(w, "park") \/ WorkerTo(w, "return")
      BY <1>2 DEF AskKey
    <2>4. QED
      BY <2>1, <2>2, <2>3, Ends, Goes
  <1>3. QED
    BY <1>1, <1>2 DEF Nack, SqliteNack, AioSqliteNack, LibsqlNack, AioLibsqlNack, InMemoryNack,
      AioInMemoryNack, RqliteNack, AioRqliteNack, PostgresNack, AioPostgresNack, MongoNack, AioMongoNack,
      RedisNack, AioRedisNack

LEMMA OverstayPromise ==
  ASSUME IInv, FInv, NEW w \in Worker, Overstay(w)
  PROVE  FInv' /\ BoxStep
  <1>1. PICK r : r = [pc |-> worker[w].pc, group |-> worker[w].group, msg |-> worker[w].msg, timely |-> FALSE]
    OBVIOUS
  <1>2. worker[w] = [pc |-> worker[w].pc, group |-> worker[w].group, msg |-> worker[w].msg,
                     timely |-> worker[w].timely]
    BY LeaseOf DEF Lease
  <1>3. r = [worker[w] EXCEPT !.timely = FALSE]
    BY <1>1, <1>2, Timely, Zenon
  <1>4. Become(w, r) /\ UNCHANGED <<backend, sender, queue, lock>>
    BY <1>3 DEF Overstay, Become, IInv, Shape, WorkerShape
  <1>5. worker'[w] = r /\ LockYields(w)
    BY <1>4, Becomes, Yields
  <1>6. r.pc = worker[w].pc /\ r.group = worker[w].group /\ r.msg = worker[w].msg
    BY <1>1
  <1>7. Grip(w)'
    BY <1>4, <1>5, <1>6 DEF FInv, Grip, Aims, HeadIs
  <1>8. Holds(r) = InHand(w)
    BY <1>6 DEF Holds, InHand, Hands
  <1>9. QED
    BY <1>4, <1>5, <1>7, <1>8, Stays

\* A lock that runs out leaves its name, or is forgotten: nobody new counts on a head.
LEMMA LapsePromise ==
  ASSUME IInv, FInv, NEW g \in Group, Lapse(g)
  PROVE  FInv' /\ BoxStep
  <1>1. UNCHANGED <<backend, sender, queue>>
    BY DEF Lapse
  <1>2. PICK x : /\ SetLock(g, x)
                 /\ x.by = NoWorker \/ (x.by = lock[g].by /\ x.msg = lock[g].msg)
    <2>1. lock[g] = [by |-> lock[g].by, msg |-> lock[g].msg, live |-> lock[g].live]
      BY DEF IInv, Shape, LockShape
    <2>2. [lock[g] EXCEPT !.live = FALSE] = [by |-> lock[g].by, msg |-> lock[g].msg, live |-> FALSE]
      BY <2>1, LockFields, Zenon
    <2>3. Free.by = NoWorker
      BY DEF Free
    <2>4. SetLock(g, Free) \/ SetLock(g, [lock[g] EXCEPT !.live = FALSE])
      BY DEF Lapse
    <2>5. QED
      BY <2>2, <2>3, <2>4
  <1>3. \A v \in Worker, h \in Group : lock'[h].by = v => lock[h].by = v /\ lock'[h].msg = lock[h].msg
    BY <1>2, Sets, Apart
  <1>4. \A v \in Worker : worker'[v].pc = worker[v].pc /\ worker'[v].group = worker[v].group
                          /\ worker'[v].msg = worker[v].msg
    <2> SUFFICES ASSUME NEW v \in Worker
                 PROVE  worker'[v].pc = worker[v].pc /\ worker'[v].group = worker[v].group
                        /\ worker'[v].msg = worker[v].msg
      OBVIOUS
    <2>1. PICK u : u = lock[g].by
      OBVIOUS
    <2>2. worker' = worker \/ worker' = [worker EXCEPT ![u].timely = FALSE]
      BY <2>1 DEF Lapse
    <2>3. worker[v] = [pc |-> worker[v].pc, group |-> worker[v].group, msg |-> worker[v].msg,
                       timely |-> worker[v].timely]
      BY LeaseOf DEF Lease
    <2>4. worker'[v] = worker[v] \/ worker'[v] = [worker[v] EXCEPT !.timely = FALSE]
      BY <2>2 DEF IInv, Shape, WorkerShape
    <2>5. [worker[v] EXCEPT !.timely = FALSE] = [pc |-> worker[v].pc, group |-> worker[v].group,
                                                 msg |-> worker[v].msg, timely |-> FALSE]
      BY <2>3, Timely, Zenon
    <2>6. QED
      BY <2>4, <2>5
  <1>5. ASSUME NEW v \in Worker
        PROVE  Grip(v)'
    <2>1. Grip(v) /\ (Aims(v)' <=> Aims(v))
      BY <1>1, <1>4 DEF FInv, Aims
    <2>2. ASSUME Aims(v), lock'[worker[v].group].by = v
          PROVE  lock'[worker[v].group].msg = worker[v].msg /\ HeadIs(worker[v].group, worker[v].msg)
      <3>1. worker[v].group \in Group
        BY <2>2, LeaseOf DEF Aims, Lease
      <3>2. QED
        BY <1>3, <2>1, <2>2, <3>1 DEF Grip
    <2>3. QED
      BY <1>1, <1>4, <2>1, <2>2 DEF Grip, HeadIs
  <1>6. hands' = hands
    BY <1>4 DEF hands, InHand
  <1>7. FInv'
    BY <1>1, <1>5 DEF FInv, Rows, QueueShape, SentAtOnce
  <1>8. BoxStep
    BY <1>1, <1>6, Views DEF BoxStep
  <1>9. QED
    BY <1>7, <1>8

LEMMA StepPromise ==
  ASSUME IInv, FInv, [Next]_vars
  PROVE  FInv' /\ BoxStep
  <1>1. CASE UNCHANGED vars
    BY <1>1, Idles DEF vars
  <1>2. ASSUME NEW w \in Worker, CrashWorker(w)
        PROVE  FInv' /\ BoxStep
    <2>1. Become(w, Idle) /\ UNCHANGED <<backend, sender, queue, lock>>
      BY <1>2 DEF CrashWorker
    <2>2. LockYields(w)
      BY <2>1, Yields
    <2>3. QED
      BY <2>1, <2>2, Ends
  <1>3. QED
    BY <1>1, <1>2, SendPromise, ClaimPromise, GoPromise, NackPromise, OverstayPromise, LapsePromise DEF Next

LEMMA InitPromise == Init => FInv /\ Box!Init
  <1> SUFFICES ASSUME Init PROVE FInv /\ Box!Init
    OBVIOUS
  <1>1. \A g \in Group : queue[g] = <<>>
    BY DEF Init
  <1>2. SenderShape(sender)
    <2>1. PICK P : P = sender
      OBVIOUS
    <2>2. P = [s \in Sender |-> [pc |-> "idle", at |-> 1]]
      BY <2>1 DEF Init
    <2>3. \A s \in Sender : P[s].pc = "idle" /\ P[s].at = 1 /\ P[s] = [pc |-> P[s].pc, at |-> P[s].at]
      BY <2>2
    <2>4. P = [s \in Sender |-> [pc |-> P[s].pc, at |-> P[s].at]]
      BY <2>2, <2>3
    <2>5. QED
      BY <2>1, <2>3, <2>4 DEF SenderShape
  <1>3. QueueShape
    <2>1. queue = [g \in Group |-> queue[g]]
      BY DEF Init
    <2>2. \A g \in Group : RowShape(sender, g, queue[g])
      <3>1. \A P, g : RowShape(P, g, <<>>)
        BY DEF RowShape, InScriptOrder
      <3>2. QED
        BY <1>1, <3>1
    <2>3. QED
      BY <2>1, <2>2 DEF QueueShape
  <1>4. SentAtOnce
    BY DEF Init, SentAtOnce
  <1>5. \A w \in Worker : worker[w].pc = "idle"
    BY DEF Init, Idle
  <1>6. FInv
    BY <1>2, <1>3, <1>4, <1>5 DEF FInv, Rows, Grip, Aims, Hands
  <1>7. \A g \in Group : Visible(g) = {} /\ Messages(g) = {}
    BY <1>1 DEF Visible, Messages
  <1>8. Waiting = {} /\ Before = {}
    BY <1>7 DEF Waiting, Before
  <1>9. [w \in Worker |-> InHand(w)] = [w \in Worker |-> NoMsg]
    BY <1>5 DEF InHand
  <1>10. QED
    BY <1>6, <1>8, <1>9 DEF Box!Init

\* Every backend keeps the mailbox's promise, call by call, for any number of groups, messages,
\* senders and workers: a group is served first in first out, an ack takes out the message that was
\* handed to the worker that acks and no other, and a message nobody acked stays.
THEOREM KeepsTheMailbox == Spec => KeepsPromise
  <1>1. IInv /\ FInv /\ [Next]_vars => IInv' /\ FInv' /\ BoxStep
    BY StepKeeps, StepPromise
  <1>2. Init => IInv /\ FInv /\ Box!Init
    BY InitKeeps, InitPromise
  <1>3. QED
    BY <1>1, <1>2, PTL DEF Spec, KeepsPromise, Box!Spec, BoxStep, hands
=============================================================================
