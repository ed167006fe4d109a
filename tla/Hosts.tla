-------------------------------- MODULE Hosts --------------------------------
(***************************************************************************)
(* Executions driven in the callers' own processes, with no queue and no   *)
(* worker: a call of a DurableRunner (or of a bare Driver) takes its event *)
(* through the engine, then drains the whole spawn and outbox tables of    *)
(* the store, which every other caller drains too.  One orthogonal machine *)
(* (a root with a ttl, whose regions end on a domain event) is enough for  *)
(* every path of that code.                                                *)
(*                                                                         *)
(* A caller is of a kind: "loop" runs the flows on an event loop, their    *)
(* parallel parts side by side; "inline" runs them in its own thread, one  *)
(* part after the other; "sync" is the hand-written driver kept as the     *)
(* oracle of the others.                                                   *)
(***************************************************************************)
EXTENDS Naturals, Sequences, FiniteSets, SequencesExt

CONSTANTS Caller, Kind, Policy,
          Does,             \* what each caller calls
          Region, Root,
          Event, Ending,    \* the domain events; those that end a region
          NoId,
          MaxCalls,
          MaxFaults         \* bounds: calls; crashes, actions that raise and suspensions together

ASSUME HostsAssumption ==
    /\ Kind \in [Caller -> {"loop", "inline", "sync"}]
    /\ Does \in [Caller -> SUBSET {"create", "process", "sweep", "recover"}]
    /\ Policy \in {"fail", "raise"}
    /\ Root \notin Region /\ IsFiniteSet(Region)
    /\ Ending \subseteq Event /\ Event \cap {"Start", "Finished", "Cancel", "Timeout"} = {}
    /\ MaxCalls \in Nat /\ MaxFaults \in Nat

Exec == {Root} \cup Region

VARIABLES exe,        \* the records
          processed,  \* execution -> ids of the events it has processed
          again,      \* what was processed once more (a history)
          outbox,     \* the rows emitted and not yet delivered, oldest first
          spawns,     \* the children committed and not yet created
          timer,      \* the arming of the root's ttl in the store, 0 if none
          caller,     \* what each caller is doing
          jobs,       \* the events and creations in flight, each a sub-flow of a call
          calls, faults

store == <<exe, processed, again, outbox, spawns, timer>>
bounds == <<calls, faults>>
vars == <<exe, processed, again, outbox, spawns, timer, caller, jobs, calls, faults>>

Absent == [status |-> "absent", ver |-> 0, done |-> {}, expires |-> 0]
Id(kind, of, n) == [kind |-> kind, of |-> of, n |-> n]
Domain(e) == Id(e, Root, 0)
Row(to, id, p) == [to |-> to, id |-> id, by |-> p]
Idle == [op |-> "none", at |-> "idle", id |-> NoId, rec |-> Absent, left |-> {},
              kids |-> {}, batch |-> {}, rows |-> <<>>, found |-> FALSE, timer |-> NoId]

Init == /\ exe = [x \in Exec |-> Absent]
        /\ processed = [x \in Exec |-> {}]
        /\ again = {}
        /\ outbox = <<>> /\ spawns = {}
        /\ timer = 0
        /\ caller = [p \in Caller |-> Idle]
        /\ jobs = {}
        /\ calls = 0 /\ faults = 0

-----------------------------------------------------------------------------
(* One step of the machine: the record it leaves, the events it emits, and *)
(* whether it arms its ttl.                                                *)

Running(r) == r.status = "RUNNING"
Stay(r) == [rec |-> r, emits |-> <<>>, arms |-> FALSE]

Finished(x) == <<[to |-> Root, id |-> Id("Finished", x, 0)]>>
Cancels(r) == SetToSeq({[to |-> x, id |-> Id("Cancel", x, 0)] : x \in Region \ r.done})

Rearmed(r) == [rec |-> [r EXCEPT !.expires = @ + 1], emits |-> <<>>, arms |-> TRUE]

Joined(r) == IF r.done = Region THEN [r EXCEPT !.status = "DONE"] ELSE r

RootStep(r, id) ==
  CASE id.kind = "Finished" ->
         LET told == [r EXCEPT !.done = @ \cup {id.of}]
         IN Stay(IF Running(r) THEN Joined(told) ELSE told)
    [] id.kind \in Event /\ Running(r) ->
         IF Running(Joined(r)) THEN Rearmed(r) ELSE Stay(Joined(r))
    [] id.kind = "Timeout" /\ Running(r) /\ id.n = r.expires ->
         [rec |-> [r EXCEPT !.status = "CANCELLED"], emits |-> Cancels(r), arms |-> FALSE]
    [] OTHER -> Stay(r)

RegionStep(x, r, id) ==
  CASE Running(r) /\ id.kind \in Ending ->
         [rec |-> [r EXCEPT !.status = "DONE"], emits |-> Finished(x), arms |-> FALSE]
    [] id.kind = "Cancel" /\ r.status \notin {"DONE", "CANCELLED"} ->
         Stay([r EXCEPT !.status = "CANCELLED"])
    [] OTHER -> Stay(r)

StartStep(x) ==
  [rec |-> [Absent EXCEPT !.status = "RUNNING", !.expires = IF x = Root THEN 1 ELSE 0],
   emits |-> <<>>, arms |-> x = Root]

Step(x, r, id) ==
  IF id.kind = "Start" THEN StartStep(x) ELSE IF x = Root THEN RootStep(r, id) ELSE RegionStep(x, r, id)

\* An action the step runs raises, and the policy is to fail the execution.
Failed(r) == Stay([r EXCEPT !.status = "FAILED"])

(* The store's commit, all of it or (when the record moved on) none. *)
Wins(x, r) == exe[x].ver = r.ver

Commit(p, x, id, s) ==
  /\ exe' = [exe EXCEPT ![x] = [s.rec EXCEPT !.ver = exe[x].ver + 1]]
  /\ processed' = [processed EXCEPT ![x] = @ \cup ({id} \ {Id("Start", x, 0)})]
  /\ again' = again \cup IF id \in processed[x] THEN {<<x, id>>} ELSE {}
  /\ outbox' = outbox \o [i \in DOMAIN s.emits |-> Row(s.emits[i].to, s.emits[i].id, p)]
  /\ spawns' = spawns \cup IF x = Root /\ id.kind = "Start" THEN {[child |-> c, by |-> p] : c \in Region} ELSE {}
  /\ timer' = IF s.arms THEN s.rec.expires ELSE timer

-----------------------------------------------------------------------------
(* The calls. *)

Own(p) == {j \in jobs : j.by = p /\ ~j.stray}
Job(p, x, id, at, r) == [by |-> p, x |-> x, id |-> id, at |-> at, rec |-> r, stray |-> FALSE]

Goes(p, at) == caller' = [caller EXCEPT ![p].at = at]
Ends(p) == caller' = [caller EXCEPT ![p] = Idle]

Flushes(p) == caller' = [caller EXCEPT ![p] = [Idle EXCEPT !.op = caller[p].op, !.at = "spawns"]]

Begins(p, call) == /\ caller[p].at = "idle" /\ call.op \in Does[p]
                   /\ caller' = [caller EXCEPT ![p] = call]

Counted == calls < MaxCalls /\ calls' = calls + 1
Faulty == faults < MaxFaults /\ faults' = faults + 1

\* create: an id already there is refused before anything runs.
Create(p) ==
  /\ Counted
  /\ exe[Root] = Absent
  /\ Begins(p, [Idle EXCEPT !.op = "create", !.at = "spawns"])
  /\ jobs' = jobs \cup {Job(p, Root, Id("Start", Root, 0), "commit", Absent)}
  /\ UNCHANGED <<store, faults>>

\* process, or a Driver's inject: the regions an event goes to are read off the root's record.
Process(p, e) ==
  /\ Counted
  /\ exe[Root] # Absent
  /\ Begins(p, [Idle EXCEPT !.op = "process", !.at = "targets", !.id = Domain(e), !.rec = exe[Root],
                            !.left = Region \ exe[Root].done])
  /\ UNCHANGED <<store, jobs, faults>>

\* With nothing pending, a recovery would read two empty tables.
Recover(p) ==
  /\ outbox # <<>> \/ spawns # {}
  /\ Begins(p, [Idle EXCEPT !.op = "recover", !.at = "spawns"])
  /\ UNCHANGED <<store, jobs, bounds>>

\* due_timers: what is armed may be due.
FireDueTimers(p) ==
  /\ Counted
  /\ timer > 0
  /\ Begins(p, [Idle EXCEPT !.op = "sweep", !.at = "sweep", !.left = {Id("Timeout", Root, timer)}])
  /\ UNCHANGED <<store, jobs, faults>>

LoadTarget(p, x) ==
  /\ caller[p].at = "targets" /\ x \in caller[p].left
  /\ caller' = [caller EXCEPT ![p].left = @ \ {x}, ![p].found = @ \/ exe[x] # Absent]
  /\ jobs' = IF exe[x] = Absent THEN jobs ELSE jobs \cup {Job(p, x, caller[p].id, "check", exe[x])}
  /\ UNCHANGED <<store, bounds>>

\* With no region alive the event is the root's own.
NoRegionAlive(p) ==
  LET c == caller[p] IN
  /\ c.at = "targets" /\ c.left = {} /\ ~c.found
  /\ jobs' = jobs \cup {Job(p, Root, c.id, "check", c.rec)}
  /\ Flushes(p)
  /\ UNCHANGED <<store, bounds>>

\* _rearm_ttl: the root's own record, as the call first read it, restarts its budget.
Rearm(p) ==
  LET c == caller[p] IN
  /\ c.at = "targets" /\ c.left = {} /\ c.found /\ Own(p) = {}
  /\ jobs' = IF ~Running(c.rec) \/ c.id \in processed[Root] THEN jobs
             ELSE jobs \cup {Job(p, Root, c.id, "rearm", c.rec)}
  /\ Flushes(p)
  /\ UNCHANGED <<store, bounds>>

-----------------------------------------------------------------------------
(* _flush: whatever is pending, whoever left it. *)

ReadSpawns(p) ==
  /\ caller[p].at = "spawns" /\ Own(p) = {}
  /\ caller' = [caller EXCEPT ![p].kids = spawns, ![p].found = spawns # {},
                  ![p].at = IF Kind[p] = "sync" /\ spawns # {} THEN "create" ELSE "outbox"]
  /\ UNCHANGED <<store, jobs, bounds>>

\* A mistake: a round ends the flush when either read came back empty.
ReadOutboxEither(p) ==
  LET c == caller[p] IN
  /\ c.at = "outbox"
  /\ IF outbox = <<>> \/ ~c.found
     THEN IF c.op = "sweep" THEN Goes(p, "delete") ELSE Ends(p)
     ELSE caller' = [caller EXCEPT ![p].rows = outbox, ![p].at = IF c.kids # {} THEN "create" ELSE "rows"]
  /\ UNCHANGED <<store, jobs, bounds>>

\* The flow leaves when both reads came back empty, the sync driver when a round did nothing.
ReadOutbox(p) ==
  LET c == caller[p] IN
  /\ c.at = "outbox"
  /\ IF outbox = <<>> /\ ~c.found
     THEN IF c.op = "sweep" THEN Goes(p, "delete") ELSE Ends(p)
     ELSE caller' = [caller EXCEPT ![p].rows = outbox, ![p].found = FALSE,
                      ![p].at = IF c.kids # {} THEN "create" ELSE IF outbox = <<>> THEN "spawns" ELSE "rows"]
  /\ UNCHANGED <<store, jobs, bounds>>

\* The flow creates every child it read before it acks the first; the sync driver one by one.
CreateChildren(p) ==
  /\ caller[p].at = "create"
  /\ \E batch \in (IF Kind[p] = "sync" THEN {{k} : k \in caller[p].kids} ELSE {caller[p].kids}) :
       /\ jobs' = jobs \cup {Job(p, k.child, Id("Start", k.child, 0), "load", Absent) : k \in batch}
       /\ caller' = [caller EXCEPT ![p].batch = batch, ![p].at = "ack"]
  /\ UNCHANGED <<store, bounds>>

AckSpawn(p) ==
  LET c == caller[p] IN
  /\ c.at = "ack" /\ Own(p) = {}
  /\ \E k \in c.batch :
       /\ spawns' = spawns \ {k}
       /\ caller' = [caller EXCEPT ![p].kids = @ \ {k}, ![p].batch = @ \ {k},
            ![p].at = IF c.batch # {k} THEN "ack"
                      ELSE IF c.kids # {k} THEN "create"
                      ELSE IF Kind[p] = "sync" THEN "outbox"
                      ELSE IF c.rows = <<>> THEN "spawns" ELSE "rows"]
  /\ UNCHANGED <<exe, processed, again, outbox, timer, jobs, bounds>>

DeliverRow(p) ==
  LET c == caller[p]  row == Head(c.rows) IN
  /\ c.at = "rows"
  /\ jobs' = IF exe[row.to] = Absent THEN jobs ELSE jobs \cup {Job(p, row.to, row.id, "check", exe[row.to])}
  /\ Goes(p, "row")
  /\ UNCHANGED <<store, bounds>>

AckOutbox(p) ==
  LET c == caller[p] IN
  /\ c.at = "row" /\ Own(p) = {}
  /\ IF Head(c.rows) \in Range(outbox)
     THEN \E i \in DOMAIN outbox : outbox[i] = Head(c.rows) /\ outbox' = RemoveAt(outbox, i)
     ELSE UNCHANGED outbox
  /\ caller' = [caller EXCEPT ![p].rows = Tail(@), ![p].at = IF Len(c.rows) = 1 THEN "spawns" ELSE "rows"]
  /\ UNCHANGED <<exe, processed, again, spawns, timer, jobs, bounds>>

-----------------------------------------------------------------------------
(* fire_due_timers: one timer after the other. *)

\* A mistake: the timer goes before its event is taken.
SweepDeletes(p) ==
  /\ caller[p].at = "sweep"
  /\ IF caller[p].left = {} THEN Ends(p)
     ELSE \E t \in caller[p].left :
            caller' = [caller EXCEPT ![p].left = @ \ {t}, ![p].timer = t, ![p].at = "delete"]
  /\ UNCHANGED <<store, jobs, bounds>>

SweepNext(p) ==
  LET c == caller[p] IN
  /\ c.at = "sweep"
  /\ IF c.left = {} THEN Ends(p) /\ UNCHANGED jobs
     ELSE \E t \in c.left :
       LET next == [c EXCEPT !.left = @ \ {t}, !.timer = t] IN
       CASE exe[t.of].status = "SUSPENDED" ->
              caller' = [caller EXCEPT ![p] = next] /\ UNCHANGED jobs
         [] exe[t.of] = Absent ->
              caller' = [caller EXCEPT ![p] = [next EXCEPT !.at = "delete"]] /\ UNCHANGED jobs
         [] OTHER -> /\ caller' = [caller EXCEPT ![p] = [next EXCEPT !.at = "fired"]]
                     /\ jobs' = jobs \cup {Job(p, t.of, t, "load", Absent)}
  /\ UNCHANGED <<store, bounds>>

\* delete_timer: only the arming that was read.
DeleteTimer(p) ==
  LET t == caller[p].timer IN
  /\ caller[p].at = "delete"
  /\ timer' = IF timer = t.n THEN 0 ELSE timer
  /\ caller' = [caller EXCEPT ![p].at = "sweep", ![p].timer = NoId]
  /\ UNCHANGED <<exe, processed, again, outbox, spawns, jobs, bounds>>

-----------------------------------------------------------------------------
(* The sub-flows: load, is_processed, drive and commit.  A caller's thread takes them one *)
(* after the other.                                                                       *)

Turn(j) == /\ j.stray \/ caller[j.by].at # "targets" \/ caller[j.by].left = {}
           /\ Kind[j.by] = "loop" \/ \A k \in Own(j.by) \ {j} : k.at # "commit"
Becomes(j, new) == jobs' = (jobs \ {j}) \cup new

\* A timer's flow flushes only what its event left.
Over(j, ran) == IF caller[j.by].at = "fired" /\ ~j.stray THEN Goes(j.by, IF ran THEN "spawns" ELSE "delete")
                ELSE UNCHANGED caller

JobLoad(j) ==
  /\ j.at = "load" /\ Turn(j)
  /\ IF (j.id.kind = "Start") = (exe[j.x] = Absent)
     THEN /\ Becomes(j, {[j EXCEPT !.at = IF j.id.kind = "Start" THEN "commit" ELSE "check",
                                   !.rec = exe[j.x]]})
          /\ UNCHANGED caller
     ELSE Becomes(j, {}) /\ Over(j, FALSE)
  /\ UNCHANGED <<store, bounds>>

\* A mistake: a repeated event is not looked up.
IsProcessedNever(j) ==
  /\ j.at = "check" /\ Turn(j)
  /\ Becomes(j, {[j EXCEPT !.at = "commit"]})
  /\ UNCHANGED <<store, caller, bounds>>

IsProcessed(j) ==
  /\ j.at = "check" /\ Turn(j)
  /\ IF j.id \in processed[j.x] THEN Becomes(j, {}) /\ Over(j, FALSE)
     ELSE Becomes(j, {[j EXCEPT !.at = "commit"]}) /\ UNCHANGED caller
  /\ UNCHANGED <<store, bounds>>

JobCommit(j) ==
  /\ j.at = "commit" /\ Wins(j.x, j.rec)
  /\ Commit(j.by, j.x, j.id, Step(j.x, j.rec, j.id))
  /\ Becomes(j, {}) /\ Over(j, TRUE)
  /\ UNCHANGED bounds

JobRearm(j) ==
  /\ j.at = "rearm" /\ Wins(j.x, j.rec)
  /\ Commit(j.by, j.x, j.id, Rearmed(j.rec))
  /\ Becomes(j, {})
  /\ UNCHANGED <<caller, bounds>>

\* What is raised ends the call; on an event loop its parallel flows still run to their end.
Raises(j) ==
  IF j.stray THEN Becomes(j, {}) /\ UNCHANGED caller
  ELSE /\ Ends(j.by)
       /\ jobs' = (jobs \ Own(j.by)) \cup
            {[k EXCEPT !.stray = TRUE] : k \in IF Kind[j.by] = "loop" THEN Own(j.by) \ {j} ELSE {}}

StoreConflict(j) ==
  /\ j.at \in {"commit", "rearm"} /\ ~Wins(j.x, j.rec)
  /\ Raises(j)
  /\ UNCHANGED <<store, bounds>>

\* A region's action raises; the sync driver always lets it through.
ActionRaises(j) ==
  /\ Faulty
  /\ j.at = "commit" /\ j.x \in Region
  /\ j.id.kind = "Start" \/ (Running(j.rec) /\ j.id.kind \in Event)
  /\ IF Policy = "fail" /\ Kind[j.by] # "sync"
     THEN /\ Wins(j.x, j.rec)
          /\ Commit(j.by, j.x, j.id, Failed(j.rec))
          /\ Becomes(j, {}) /\ Over(j, TRUE)
     ELSE Raises(j) /\ UNCHANGED store
  /\ UNCHANGED <<calls>>

-----------------------------------------------------------------------------
(* Around the callers. *)

Crash(p) ==
  /\ Faulty
  /\ caller[p].at # "idle" \/ \E j \in jobs : j.by = p
  /\ Ends(p)
  /\ jobs' = {j \in jobs : j.by # p}
  /\ UNCHANGED <<store, calls>>

\* The control plane's suspend and resume, which take the regions along (Control has their commits).
Turned(from, to) ==
  exe' = [x \in Exec |-> IF exe[x].status = from
                         THEN [exe[x] EXCEPT !.status = to, !.ver = @ + 1] ELSE exe[x]]

Suspend ==
  /\ Faulty
  /\ Running(exe[Root]) /\ Turned("RUNNING", "SUSPENDED")
  /\ UNCHANGED <<processed, again, outbox, spawns, timer, caller, jobs, calls>>

Resume ==
  /\ exe[Root].status = "SUSPENDED" /\ Turned("SUSPENDED", "RUNNING")
  /\ UNCHANGED <<processed, again, outbox, spawns, timer, caller, jobs, calls, faults>>

Flush(p) == ReadSpawns(p) \/ ReadOutbox(p) \/ CreateChildren(p) \/ AckSpawn(p)
            \/ DeliverRow(p) \/ AckOutbox(p)

SubFlow(j) == JobLoad(j) \/ IsProcessed(j) \/ JobCommit(j) \/ JobRearm(j) \/ StoreConflict(j)

Works(p) == \/ \E x \in Region : LoadTarget(p, x)
            \/ NoRegionAlive(p) \/ Rearm(p) \/ Flush(p) \/ SweepNext(p) \/ DeleteTimer(p)
            \/ \E j \in jobs : j.by = p /\ SubFlow(j)

Next == \/ \E p \in Caller : \/ Create(p) \/ Recover(p) \/ FireDueTimers(p) \/ Crash(p) \/ Works(p)
                             \/ \E e \in Event : Process(p, e)
        \/ \E j \in jobs : ActionRaises(j)
        \/ Suspend \/ Resume

Spec == Init /\ [][Next]_vars

-----------------------------------------------------------------------------
(* Properties. *)

Statuses == {"absent", "RUNNING", "SUSPENDED", "FAILED", "DONE", "CANCELLED"}
Places == {"idle", "targets", "spawns", "outbox", "create", "ack", "rows", "row", "sweep", "fired", "delete"}
Record == [status : Statuses, ver : Nat, done : SUBSET Region, expires : Nat]
EventId == [kind : {"Start", "Cancel", "Timeout"} \cup Event, of : Exec, n : Nat]
           \cup [kind : {"Finished"}, of : Region, n : Nat]
Spawn == [child : Region, by : Caller]
Rows == [to : Exec, id : EventId, by : Caller]

CallState == [op : {"none", "create", "process", "sweep", "recover"}, at : Places,
              id : EventId \cup {NoId}, rec : Record, left : SUBSET (Exec \cup EventId),
              kids : SUBSET Spawn, batch : SUBSET Spawn, rows : Seq(Rows), found : BOOLEAN,
              timer : EventId \cup {NoId}]
JobState == [by : Caller, x : Exec, id : EventId, at : {"load", "check", "commit", "rearm"},
             rec : Record, stray : BOOLEAN]

TypeOK ==
  /\ exe \in [Exec -> Record] /\ processed \in [Exec -> SUBSET EventId] /\ again \subseteq Exec \X EventId
  /\ outbox \in Seq(Rows) /\ spawns \subseteq Spawn /\ timer \in Nat
  /\ caller \in [Caller -> CallState] /\ jobs \subseteq JobState
  /\ calls \in Nat /\ faults \in Nat

\* An event takes effect once on each execution, whatever calls overlap, raise or are repeated.
TakenOnce == again = {}

Returns(p) == caller[p].at = "outbox" /\ caller'[p] = Idle /\ faults' = faults
Pending(p) == {r \in Range(outbox) : r.by = p} \cup {k \in spawns : k.by = p}

\* A call that returns leaves nothing of its own behind: the children of its fork exist, and
\* every region that ended by then has been counted in its root's join.
ReturnsSettled ==
  [][\A p \in Caller : Returns(p) =>
       /\ Pending(p) = {}
       /\ caller[p].op = "create" => \A x \in Exec : exe[x] # Absent
       /\ \A x \in Region : exe[x].status = "DONE" => x \in exe[Root].done]_vars

\* A sweep forgets a timer only once its execution took the Timeout.
TimeoutNotLost ==
  [][\A p \in Caller : caller[p].at = "delete" /\ timer' # timer =>
       caller[p].timer \in processed[caller[p].timer.of]]_vars

\* Suspending and resuming loses nothing that was queued meanwhile: a running root with all its
\* regions told has taken its join (the guide's "the queued backlog is preserved").  Refuted: a
\* caller's flush hands a suspended root its Finished, which is recorded and opens no join.
JoinNotMissed == exe[Root].done = Region => ~Running(exe[Root])
=============================================================================
