------------------------------ MODULE Control -------------------------------
(***************************************************************************)
(* The control plane: cancel, terminate, suspend, resume, redrive, purge   *)
(* and purge_finished, over a store that workers write at the same time.   *)
(*                                                                         *)
(* A command is a flow of store calls: every load and every commit is a    *)
(* step of its own, a commit is a CAS on the version loaded, and a lost    *)
(* one is tried again, Retries times in all.  A worker's load, engine run  *)
(* and commit are one step, since a worker that loses its CAS leaves       *)
(* nothing behind.  A machine is what the commands tell apart: a leaf with *)
(* and one without an `on Cancel`, a fork, a composite a hook failed in.   *)
(* A fork has one region, a child of its own id per entry.                 *)
(*                                                                         *)
(* A definition marked "A mistake" is one the code could have made.        *)
(***************************************************************************)
EXTENDS Integers

CONSTANTS
  Exec,       \* execution ids
  Root,       \* those no other execution spawned
  NoExec,
  RegionOf,   \* root -> entry -> the id of the region that entry spawns
  MaxEntries, \* bound: entries into a fork
  Caller,     \* callers of the control plane
  Retries,    \* CAS attempts of a command (the code's 5)
  MaxWrites,  \* bound: commits of workers
  MaxCommands,\* bound: commands
  MaxCrashes  \* bound: callers that stop half-way

Statuses == {"PENDING", "RUNNING", "SUSPENDED", "CANCELLING", "DONE", "CANCELLED", "FAILED"}
Finished == {"DONE", "CANCELLED"}

\* Where an execution is: "guarded" models `on Cancel`, "plain" does not.
Leaf == {"guarded", "plain"}
Place == Leaf \cup {"fork", "composite", "end"}
Digest == {"old", "new"}

ASSUME ControlAssumption ==
  /\ Root \subseteq Exec /\ NoExec \notin Exec
  /\ {MaxEntries, MaxWrites, MaxCommands, MaxCrashes} \subseteq Nat
  /\ Retries \in Nat \ {0}
  /\ RegionOf \in [Root -> [1..MaxEntries -> Exec \ Root]]
  /\ \A x, y \in Root : \A m, n \in 1..MaxEntries :
       RegionOf[x][m] = RegionOf[y][n] => x = y /\ m = n
  /\ \A c \in Exec \ Root : \E x \in Root : \E n \in 1..MaxEntries : RegionOf[x][n] = c

VARIABLES
  exe,      \* id -> its record; version 0: none stored
  step,     \* id -> what its last commit was for (the commit's Step)
  spawns,   \* children a commit enqueued and no relay created
  creating, \* children a relay has read and is about to create
  cancels,  \* executions a Cancel is queued for
  reports,  \* regions whose Finished is on its way
  proc,     \* caller -> its command's flow
  archived, \* history: <<id, version>> handed to an archiver that took it
  count     \* how often each bounded thing happened

queues == <<spawns, creating, cancels, reports>>
vars == <<exe, step, queues, proc, archived, count>>

Causes == {"none", "start", "event", "Reset", "cancel", "terminate", "suspend", "resume", "redrive"}
Record == [status : Statuses, version : Nat, place : Place, error : BOOLEAN, digest : Digest,
           children : SUBSET Exec, finished : SUBSET Exec, entry : Nat \ {0}]
Absent == [status |-> "PENDING", version |-> 0, place |-> "plain", error |-> FALSE, digest |-> "new",
           children |-> {}, finished |-> {}, entry |-> 1]
Started == [Absent EXCEPT !.status = "RUNNING"]
DeadLetter == [Absent EXCEPT !.status = "FAILED", !.place = "composite", !.error = TRUE]

Exists(x) == exe[x].version > 0
Unfinished(r) == r.children \ r.finished
ParentOf(c) == CHOOSE x \in Root : \E n \in 1..MaxEntries : RegionOf[x][n] = c
IsRegion(c) == c \in Exec \ Root
Descendants(x) == {c \in Exec \ Root : ParentOf(c) = x}
-----------------------------------------------------------------------------
(* The store *)

Commit(x, r, cause) ==
  /\ exe' = [exe EXCEPT ![x] = [r EXCEPT !.version = exe[x].version + 1]]
  /\ step' = [step EXCEPT ![x] = cause]

\* purge(): the row, if it is still at this version, and what is stored under its id.
Delete(x) ==
  /\ exe' = [exe EXCEPT ![x] = Absent]
  /\ step' = [step EXCEPT ![x] = "none"]
  /\ cancels' = cancels \ {x}
  /\ spawns' = {c \in spawns : ParentOf(c) # x}
-----------------------------------------------------------------------------
(* Workers and relays *)

Work(x) == Exists(x) /\ count.writes < MaxWrites /\ count' = [count EXCEPT !.writes = @ + 1]

\* definition_problem: an execution that runs, on a source that is no longer the machine's.
Changed(r) == r.digest = "old" /\ r.status \in {"RUNNING", "CANCELLING"}
Runs(x) == exe[x].status = "RUNNING" /\ ~Changed(exe[x])

\* _leave_regions: out of a fork the entry counter moves on, and each region not finished
\* is sent a Cancel.
Left(r) == IF r.place = "fork" THEN [r EXCEPT !.entry = @ + 1] ELSE r
Told(r) == IF r.place = "fork" THEN Unfinished(r) ELSE {}

\* What a raise leaves of a record: the execution where it was, or on its way elsewhere
\* ("composite", wherever that is), out of the fork it was in.
Broken(r) ==
  LET failed == [r EXCEPT !.status = "FAILED", !.error = TRUE]
  IN {failed, [Left(failed) EXCEPT !.place = "composite"]}

Moves(x) ==
  /\ Work(x) /\ Runs(x)
  /\ \E place \in Leaf : Commit(x, [Left(exe[x]) EXCEPT !.place = place], "event")
  /\ cancels' = cancels \cup Told(exe[x])
  /\ UNCHANGED <<spawns, creating, reports, proc, archived>>

Forks(x) ==
  /\ Work(x) /\ Runs(x)
  /\ x \in Root /\ exe[x].place \in Leaf /\ exe[x].entry <= MaxEntries
  /\ LET c == RegionOf[x][exe[x].entry] IN
     /\ Commit(x, [exe[x] EXCEPT !.place = "fork", !.children = {c}, !.finished = {}], "event")
     /\ spawns' = spawns \cup {c}
  /\ UNCHANGED <<creating, cancels, reports, proc, archived>>

Finishes(x) ==
  /\ Work(x) /\ Runs(x)
  /\ Commit(x, [Left(exe[x]) EXCEPT !.status = "DONE", !.place = "end"], "event")
  /\ cancels' = cancels \cup Told(exe[x])
  /\ reports' = IF IsRegion(x) THEN reports \cup {x} ELSE reports
  /\ UNCHANGED <<spawns, creating, proc, archived>>

\* A hook raises, or the machine's source changed: what the step emitted is dropped.
Fails(x) ==
  /\ Work(x) /\ exe[x].status = "RUNNING"
  /\ \E r \in Broken(exe[x]) : (Changed(exe[x]) => r.place = exe[x].place) /\ Commit(x, r, "event")
  /\ UNCHANGED <<queues, proc, archived>>

\* An event that changes nothing is still a commit.
Ignores(x) ==
  /\ Work(x)
  /\ Commit(x, exe[x], "event")
  /\ UNCHANGED <<queues, proc, archived>>

\* Reset starts over from any status but CANCELLING.
Resets(x) ==
  /\ Work(x)
  /\ exe[x].status # "CANCELLING" /\ ~Changed(exe[x])
  /\ \E first \in {Started, DeadLetter} :
       /\ Commit(x, [first EXCEPT !.digest = exe[x].digest, !.entry = Left(exe[x]).entry], "Reset")
       /\ cancels' = IF first = Started THEN cancels \cup Told(exe[x]) ELSE cancels
  /\ UNCHANGED <<spawns, creating, reports, proc, archived>>

\* A queued Cancel: the model's cleanup from where it is, else CANCELLED; nothing if finished.
TakesCancel(x) ==
  /\ Work(x)
  /\ x \in cancels /\ cancels' = cancels \ {x}
  /\ LET r == exe[x]
         cleans == r.status \in {"RUNNING", "CANCELLING"} /\ r.place = "guarded"
         after == IF r.status \in Finished THEN {r}
                  ELSE IF Changed(r) THEN {[r EXCEPT !.status = "FAILED", !.error = TRUE]}
                  ELSE IF cleans THEN Broken(r) \cup {[r EXCEPT !.status = "DONE", !.place = "end"]}
                  ELSE {[r EXCEPT !.status = "CANCELLED"]}
     IN \E s \in after : Commit(x, s, "event")
  /\ UNCHANGED <<spawns, creating, reports, proc, archived>>

\* A region's Finished counts in whatever status its parent is; a join that is complete
\* leaves the fork.
TakesReport(c) ==
  /\ c \in reports /\ Work(ParentOf(c))
  /\ reports' = reports \ {c}
  /\ LET x == ParentOf(c)
         r == [exe[x] EXCEPT !.finished = @ \cup (exe[x].children \cap {c})]
         joined == Runs(x) /\ r.place = "fork" /\ Unfinished(r) = {}
         after == IF joined THEN Broken(r) \cup {[Left(r) EXCEPT !.place = "plain"]} ELSE {r}
     IN \E s \in after : Commit(x, s, "event")
  /\ UNCHANGED <<spawns, creating, cancels, proc, archived>>

\* _create_spawn_flow: the relay reads the row, and creates the child unless it is there.
RelayReads(c) ==
  /\ c \in spawns /\ c \notin creating
  /\ creating' = creating \cup {c}
  /\ UNCHANGED <<exe, step, spawns, cancels, reports, proc, archived, count>>

RelayCreates(c) ==
  /\ c \in creating
  /\ creating' = creating \ {c} /\ spawns' = spawns \ {c}
  /\ IF Exists(c) THEN UNCHANGED <<exe, step>>
     ELSE \E r \in {Started, DeadLetter} : Commit(c, r, "start")
  /\ UNCHANGED <<cancels, reports, proc, archived, count>>
-----------------------------------------------------------------------------
(* Callers: one CAS loop per execution a command writes *)

\* What each command writes, and whether it then follows the children of what it wrote.
To == [terminate |-> "CANCELLED", cancel |-> "CANCELLED", suspend |-> "SUSPENDED",
       resume |-> "RUNNING", redrive |-> "RUNNING"]
Follows == {"terminate", "cancel", "suspend", "resume"}

\* A job writes one execution: it checks, loads, commits, and follows the children.  A
\* cooperative job is cancel()'s own loop, before it falls back on terminate()'s.
Job == [x : Exec, at : {"check", "load", "commit", "follow", "look"}, attempt : 1..Retries,
        cooperative : BOOLEAN, rec : Record]
NewJob(x, at) == [x |-> x, at |-> at, attempt |-> 1, cooperative |-> FALSE, rec |-> Absent]

\* A command's flow; a purge's has the ids to look at, what it found of a tree, and the roots left.
Flow == [command : {"none", "purge", "terminate", "cancel", "suspend", "resume", "redrive"},
         jobs : SUBSET Job, target : Place, at : {"none", "root", "ids", "collect", "delete"},
         root : Exec \cup {NoExec}, todo : SUBSET Exec, tree : SUBSET [x : Exec, rec : Record],
         missing : SUBSET Exec, queue : SUBSET Exec]
Idle == [command |-> "none", jobs |-> {}, target |-> "plain",
         at |-> "none", root |-> NoExec, todo |-> {}, tree |-> {}, missing |-> {}, queue |-> {}]

Become(p, local) == proc' = [proc EXCEPT ![p] = local]
Rest(p, j) == proc[p].jobs \ {j}
Replace(p, j, jobs) == [proc[p] EXCEPT !.jobs = Rest(p, j) \cup jobs]

Begin(p, command, job) ==
  /\ proc[p] = Idle /\ count.commands < MaxCommands
  /\ Become(p, [Idle EXCEPT !.command = command, !.jobs = {job}])
  /\ count' = [count EXCEPT !.commands = @ + 1]
  /\ UNCHANGED <<exe, step, queues, archived>>

Terminate(p, x) == Begin(p, "terminate", NewJob(x, "load"))
Cancel(p, x) == Begin(p, "cancel", [NewJob(x, "load") EXCEPT !.cooperative = TRUE])
Suspend(p, x) == Begin(p, "suspend", NewJob(x, "check"))
Resume(p, x) == Begin(p, "resume", NewJob(x, "check"))

\* A target that is no leaf of the execution's own branch is refused.
Redrive(p, x, target) ==
  /\ target \in Leaf
  /\ proc[p] = Idle /\ count.commands < MaxCommands
  /\ Become(p, [Idle EXCEPT !.command = "redrive", !.jobs = {NewJob(x, "check")}, !.target = target])
  /\ count' = [count EXCEPT !.commands = @ + 1]
  /\ UNCHANGED <<exe, step, queues, archived>>

Moved(p, local) == Become(p, local) /\ UNCHANGED <<exe, step, queues, archived, count>>

\* What a raise leaves of a command: nothing where it runs in the caller's thread, its other
\* jobs where each is a coroutine.
Raises(p, j) == \E jobs \in {{}, Rest(p, j)} :
  Moved(p, IF jobs = {} THEN Idle ELSE [proc[p] EXCEPT !.jobs = jobs])

\* _validate_redrive_target, on the record just loaded.
RedrivableOnce(r) == TRUE    \* A mistake: only checked before the loop.
Redrivable(r) == Unfinished(r) = {}

\* suspend, resume and redrive look at the status once, before their loop.
Expects == [suspend |-> "RUNNING", resume |-> "SUSPENDED", redrive |-> "FAILED"]

Checks(p, j) ==
  /\ j \in proc[p].jobs /\ j.at = "check"
  /\ IF Exists(j.x) /\ exe[j.x].status = Expects[proc[p].command]
        /\ (proc[p].command = "redrive" => Unfinished(exe[j.x]) = {})
     THEN Moved(p, Replace(p, j, {[j EXCEPT !.at = "load"]}))
     ELSE Moved(p, Idle)

\* cancel() takes the model's own cleanup only of an execution that is where the model has one.
Cooperative(r) == r.status # "FAILED" /\ ~Changed(r) /\ r.place = "guarded"

\* A job that is over follows the children, if its command does.
After(p, j) == IF proc[p].command \in Follows /\ ~j.cooperative THEN {[j EXCEPT !.at = "follow"]} ELSE {}

\* The statuses a command's write leaves alone; redrive wants FAILED on every attempt.
LeavesNothing(command, r) == command = "redrive" /\ r.status # "FAILED"    \* A mistake.
Leaves(command, r) == r.status \in Finished \/ (command = "redrive" /\ r.status # "FAILED")

Loads(p, j) ==
  /\ j \in proc[p].jobs /\ j.at = "load"
  /\ LET r == exe[j.x]
         command == proc[p].command
     IN IF ~Exists(j.x) THEN Raises(p, j)
        ELSE IF Leaves(command, r) THEN Moved(p, Replace(p, j, After(p, j)))
        ELSE IF command = "redrive" /\ ~Redrivable(r) THEN Raises(p, j)
        ELSE IF j.cooperative /\ ~Cooperative(r) THEN Moved(p, Replace(p, j, {NewJob(j.x, "load")}))
        ELSE Moved(p, Replace(p, j, {[j EXCEPT !.at = "commit", !.rec = r]}))

\* The record a command commits: a redrive also adopts the machine's source, and clears what
\* the failure left.
Commanded(p, j) ==
  IF j.cooperative THEN [j.rec EXCEPT !.status = "CANCELLING"]
  ELSE IF proc[p].command = "redrive"
  THEN [j.rec EXCEPT !.status = "RUNNING", !.place = proc[p].target, !.error = FALSE, !.digest = "new"]
  ELSE [j.rec EXCEPT !.status = To[proc[p].command]]

\* The decision is taken again on what the next attempt loads.
Again(j) == [j EXCEPT !.attempt = @ + 1, !.at = "load"]

Commits(p, j) ==
  /\ j \in proc[p].jobs /\ j.at = "commit"
  /\ exe[j.x].version = j.rec.version
  /\ Commit(j.x, Commanded(p, j), proc[p].command)
  /\ cancels' = IF j.cooperative THEN cancels \cup {j.x} ELSE cancels
  /\ Become(p, Replace(p, j, After(p, [j EXCEPT !.cooperative = FALSE])))
  /\ UNCHANGED <<spawns, creating, reports, archived, count>>

\* A lost CAS is tried again; after the last attempt the command goes on as if it had won.
Conflicts(p, j) ==
  /\ j \in proc[p].jobs /\ j.at = "commit"
  /\ exe[j.x].version # j.rec.version
  /\ Moved(p, Replace(p, j, IF j.attempt < Retries THEN {Again(j)} ELSE After(p, j)))

\* _propagate_flow: the children in the record now, then each of them that is stored.
FollowsChildren(p, j) ==
  /\ j \in proc[p].jobs /\ j.at = "follow"
  /\ Moved(p, Replace(p, j, {NewJob(c, "look") : c \in exe[j.x].children}))

LooksAtChild(p, j) ==
  /\ j \in proc[p].jobs /\ j.at = "look"
  /\ Moved(p, Replace(p, j, IF Exists(j.x) THEN {[j EXCEPT !.at = "load"]} ELSE {}))

Returns(p) ==
  /\ proc[p].command \in DOMAIN To /\ proc[p].jobs = {}
  /\ Moved(p, Idle)
-----------------------------------------------------------------------------
(* Callers: purge and purge_finished *)

Member(x) == [x |-> x, rec |-> exe[x]]
Found(p) == {m.x : m \in proc[p].tree}

\* The next root of a purge_finished, which goes on whatever became of the last one.
NextTree(p) == IF proc[p].queue = {} THEN Idle
            ELSE [Idle EXCEPT !.command = "purge", !.at = "root", !.queue = proc[p].queue]

Purge(p, x) ==
  /\ proc[p] = Idle /\ count.commands < MaxCommands
  /\ Become(p, [Idle EXCEPT !.command = "purge", !.at = "root", !.queue = {x}])
  /\ count' = [count EXCEPT !.commands = @ + 1]
  /\ UNCHANGED <<exe, step, queues, archived>>

\* All candidates are listed before any is deleted.
PurgeFinished(p) ==
  /\ proc[p] = Idle /\ count.commands < MaxCommands
  /\ Become(p, [Idle EXCEPT !.command = "purge", !.at = "root",
                            !.queue = {x \in Root : Exists(x) /\ exe[x].status \in Finished}])
  /\ proc'[p].queue # {}
  /\ count' = [count EXCEPT !.commands = @ + 1]
  /\ UNCHANGED <<exe, step, queues, archived>>

\* A root that is gone was purged already, and a child is refused.
LoadsRoot(p, x) ==
  /\ proc[p].at = "root" /\ x \in proc[p].queue
  /\ LET next == [proc[p] EXCEPT !.queue = @ \ {x}] IN
     IF Exists(x)
     THEN Moved(p, [next EXCEPT !.at = "ids", !.root = x, !.tree = {Member(x)}])
     ELSE Moved(p, IF next.queue = {} THEN Idle ELSE next)

\* ids_with_prefix, and the children the root lists.
ListsIds(p) ==
  /\ proc[p].at = "ids"
  /\ LET x == proc[p].root
         listed == UNION {m.rec.children : m \in proc[p].tree}
     IN Moved(p, [proc[p] EXCEPT !.at = "collect", !.todo = {c \in Descendants(x) : Exists(c)} \cup listed])

\* Each id is loaded in turn; those the records list and the store does not have are missing.
Collects(p, c) ==
  /\ proc[p].at = "collect" /\ c \in proc[p].todo
  /\ Moved(p, IF Exists(c) THEN [proc[p] EXCEPT !.todo = @ \ {c}, !.tree = @ \cup {Member(c)}]
              ELSE [proc[p] EXCEPT !.todo = @ \ {c}, !.missing = @ \cup {c}])

\* _check_purgeable, then the archiver, which may raise.
Refuses(p) ==
  /\ proc[p].at = "collect" /\ proc[p].todo = {}
  /\ proc[p].root \notin Root \/ \E m \in proc[p].tree : m.rec.status \notin Finished
  /\ Moved(p, NextTree(p))

ArchiverRaises(p) ==
  /\ proc[p].at = "collect" /\ proc[p].todo = {}
  /\ proc[p].root \in Root /\ \A m \in proc[p].tree : m.rec.status \in Finished
  /\ Moved(p, Idle)

Archives(p) ==
  /\ proc[p].at = "collect" /\ proc[p].todo = {}
  /\ proc[p].root \in Root /\ \A m \in proc[p].tree : m.rec.status \in Finished
  /\ archived' = archived \cup {<<m.x, m.rec.version>> : m \in proc[p].tree}
  /\ Become(p, [proc[p] EXCEPT !.at = "delete"])
  /\ UNCHANGED <<exe, step, queues, count>>

\* Descendants first, then what the missing ones left, then the root.
Deletable(p, m) == m.x = proc[p].root => proc[p].tree = {m} /\ proc[p].missing = {}

\* purge(id, version) of the store deletes nothing that moved on.
AsFoundOnce(m) == Exists(m.x)    \* A mistake: the version is not compared.
AsFound(m) == exe[m.x].version = m.rec.version

Deletes(p, m) ==
  /\ proc[p].at = "delete" /\ m \in proc[p].tree /\ Deletable(p, m)
  /\ AsFound(m)
  /\ Delete(m.x)
  /\ Become(p, IF proc[p].tree = {m} THEN NextTree(p) ELSE [proc[p] EXCEPT !.tree = @ \ {m}])
  /\ UNCHANGED <<creating, reports, archived, count>>

\* A member that moved on, or is gone, stops the purge of this tree.
DeleteConflicts(p, m) ==
  /\ proc[p].at = "delete" /\ m \in proc[p].tree /\ Deletable(p, m)
  /\ ~AsFound(m)
  /\ Moved(p, NextTree(p))

\* A missing child that is stored by now is left as it is.
Sweeps(p, c) ==
  /\ proc[p].at = "delete" /\ c \in proc[p].missing
  /\ Found(p) = {proc[p].root}
  /\ IF Exists(c) THEN UNCHANGED <<exe, step, cancels, spawns>> ELSE Delete(c)
  /\ Become(p, [proc[p] EXCEPT !.missing = @ \ {c}])
  /\ UNCHANGED <<creating, reports, archived, count>>

CallerStops(p) ==
  /\ proc[p] # Idle /\ count.crashes < MaxCrashes
  /\ Become(p, Idle)
  /\ count' = [count EXCEPT !.crashes = @ + 1]
  /\ UNCHANGED <<exe, step, queues, archived>>
-----------------------------------------------------------------------------
\* Each root has started, on this source or on one edited since, or has failed.
Init ==
  /\ \E r \in {[Started EXCEPT !.digest = d] : d \in Digest} \cup {DeadLetter} :
       exe = [x \in Exec |-> IF x \in Root THEN [r EXCEPT !.version = 1] ELSE Absent]
  /\ step = [x \in Exec |-> IF x \in Root THEN "start" ELSE "none"]
  /\ spawns = {} /\ creating = {} /\ cancels = {} /\ reports = {}
  /\ proc = [p \in Caller |-> Idle]
  /\ archived = {}
  /\ count = [writes |-> 0, commands |-> 0, crashes |-> 0]

WorkerStep == \E x \in Exec :
  Moves(x) \/ Forks(x) \/ Finishes(x) \/ Fails(x) \/ Ignores(x) \/ Resets(x) \/ TakesCancel(x)
    \/ TakesReport(x) \/ RelayReads(x) \/ RelayCreates(x)

JobStep(p) == \E j \in proc[p].jobs :
  Checks(p, j) \/ Loads(p, j) \/ Commits(p, j) \/ Conflicts(p, j) \/ FollowsChildren(p, j)
    \/ LooksAtChild(p, j)

PurgeStep(p) ==
  \/ \E x \in Exec : LoadsRoot(p, x) \/ Collects(p, x) \/ Sweeps(p, x)
  \/ ListsIds(p) \/ Refuses(p) \/ ArchiverRaises(p) \/ Archives(p)
  \/ \E m \in proc[p].tree : Deletes(p, m) \/ DeleteConflicts(p, m)

CallerStep(p) ==
  \/ \E x \in Exec : \/ Terminate(p, x) \/ Cancel(p, x) \/ Suspend(p, x) \/ Resume(p, x) \/ Purge(p, x)
                     \/ \E target \in Place : Redrive(p, x, target)
  \/ PurgeFinished(p) \/ JobStep(p) \/ Returns(p) \/ PurgeStep(p) \/ CallerStops(p)

Next == WorkerStep \/ \E p \in Caller : CallerStep(p)
Spec == Init /\ [][Next]_vars
-----------------------------------------------------------------------------
(* Properties *)

TypeOK ==
  /\ exe \in [Exec -> Record]
  /\ step \in [Exec -> Causes]
  /\ spawns \subseteq Exec \ Root /\ creating \subseteq Exec \ Root
  /\ cancels \subseteq Exec /\ reports \subseteq Exec \ Root
  /\ proc \in [Caller -> Flow]
  /\ archived \subseteq Exec \X Nat

Written(x) == exe'[x].version = exe[x].version + 1
By(x, cause) == Written(x) /\ step'[x] = cause

\* No id gets a second life: what is created was never purged.  A stale relay can break it,
\* for a child of a purged root.
OneLifeOf(ids) == \A x \in ids : ~Exists(x) /\ Exists(x)' => x \notin {a[1] : a \in archived}
OneLife == [][OneLifeOf(Exec)]_vars

\* What is finished stays so, however late the command that meant to write it: only a Reset
\* revives it.
KeepsFinished(ids) == \A x \in ids :
  exe[x].status \in Finished /\ Exists(x) /\ Written(x)
    => exe'[x].status = exe[x].status \/ step'[x] = "Reset"
FinishedForGood == [][KeepsFinished(Exec)]_vars

\* A redrive revives a dead letter only, with no region of its own still unfinished, however
\* the execution changed between the check and the write.
RedrivesDeadLetters(ids) == \A x \in ids :
  By(x, "redrive") => exe[x].status = "FAILED" /\ Unfinished(exe[x]) = {}
RedriveOrphansNobody == [][RedrivesDeadLetters(Exec)]_vars

\* What a purge deletes is finished, and is what its archiver was given: a Reset between the
\* check and the delete saves the record.
PurgesArchived(ids) == \A x \in ids :
  Exists(x) /\ exe'[x].version = 0
    => exe[x].status \in Finished /\ <<x, exe[x].version>> \in archived
PurgedAsArchived == [][PurgesArchived(Exec)]_vars

\* Each entry into a fork spawns regions of its own: what is spawned is not there already.
\* Refuted: a redrive away from a fork whose regions have finished does not move the entry
\* counter on, and the next entry waits for regions that reported long ago.
SpawnsAreNew == [][\A c \in spawns' \ spawns : ~Exists(c)]_vars

\* A dead letter waits for a redrive, a Reset, or to be abandoned: nothing else revives it.
\* Refuted: resume writes over a failure that came after its check.
DeadLetterWaits == [][\A x \in Exec :
  exe[x].status = "FAILED" /\ Written(x) /\ exe'[x].status \in {"RUNNING", "SUSPENDED"}
    => step'[x] \in {"redrive", "Reset"}]_vars

=============================================================================
