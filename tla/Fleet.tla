------------------------------- MODULE Fleet -------------------------------
(***************************************************************************)
(* The workers of a deployment and the machine versions they run: a worker *)
(* process publishes the machines of its files before it takes work, the   *)
(* store keeps the first source published for a release (a machine and its *)
(* version), an execution is pinned to the source it starts on, and a      *)
(* worker that meets it looks the source up in its own files, then in the  *)
(* store.  Around that, the worker's loop: permits, claims by routing key, *)
(* timers swept when nothing is claimable, and the relay, which has to     *)
(* find the definition of every parent whose children are pending.         *)
(*                                                                         *)
(* The protocol of the messages themselves is module Delivery's: here a    *)
(* creation publishes its Start at once, and a group has a single worker.  *)
(***************************************************************************)
EXTENDS Integers, FiniteSets, Sequences

CONSTANTS
    Workers,        \* worker processes
    Publishing,     \* those started by `harel.worker`, which publish at start;
                    \* the others are built in code, by `runner.worker()`
    Filter,         \* Filter[w]: the routing keys w claims, NoKey if it claims all
    Permits,        \* concurrency of a worker
    Images,         \* what a process can be deployed with
    Deploys,        \* Deploys[w]: the images w may be started with
    Senders,        \* the images of the processes that create and send
    Own,            \* Own[i]: the sources in the files of image i
    Code,           \* Code[i]: the action modules image i can import
    Extra,          \* Extra[i]: the action modules it is told to allow
    Sources, Machines, Modules,
    MachineOf, VersionOf, Needs,    \* of each source; the modules its actions are in
    Executions,
    Legacy,         \* Legacy[e]: NoSource, or e is there from before versions existed and
                    \* runs the machine of this source
    NoKey, NoSource, NoWorker,
    MaxBoots, MaxFaults     \* bounds: process starts; crashes and outages together

ASSUME FleetAssumption ==
    /\ Publishing \subseteq Workers
    /\ Filter \in [Workers -> SUBSET (Machines \cup {NoKey})]
    /\ Deploys \in [Workers -> SUBSET Images]
    /\ Senders \subseteq Images
    /\ Own \in [Images -> SUBSET Sources]
    /\ Code \in [Images -> SUBSET Modules] /\ Extra \in [Images -> SUBSET Modules]
    /\ MachineOf \in [Sources -> Machines]
    /\ VersionOf \in [Sources -> Nat \ {0}]
    /\ Needs \in [Sources -> SUBSET Modules]
    /\ Legacy \in [Executions -> Sources \cup {NoSource}]
    /\ NoSource \notin Sources /\ NoKey \notin Machines /\ NoWorker \notin Workers
    /\ Permits \in Nat \ {0}
    /\ MaxBoots \in Nat /\ MaxFaults \in Nat

SameRelease(s, t) == MachineOf[s] = MachineOf[t] /\ VersionOf[s] = VersionOf[t]

(* load_definitions refuses a release that two files declare differently. *)
ASSUME ImagesAssumption ==
    \A i \in Images : \A s, t \in Own[i] : SameRelease(s, t) => s = t

VARIABLES
    published,  \* the sources in the store's definitions
    phase,      \* of each worker: "down", "publishing", "up" or "stopping"
    image,      \* what it runs
    todo,       \* the records it still has to publish
    clash,      \* whether one was published with other content
    free,       \* its permits
    sweep,      \* the timers its sweep took, and what is left to do with each
    exe,        \* the executions' records
    processed,  \* the events each has processed
    spawn,      \* its fork in the spawn outbox: "none", "pending" or "acked"
    child,      \* whether the forked child exists
    timer,      \* whether its timer is in the store
    queue,      \* the messages of its group
    route,      \* the group's routing key
    parked,     \* whether the group waits for a delayed retry
    task,       \* the worker on the group's first message, and how far it is
    boots, faults

store == <<published, exe, processed, spawn, child, timer>>
group == <<queue, route, parked>>
process == <<phase, image, todo, clash>>
bounds == <<boots, faults>>
vars == <<published, phase, image, todo, clash, free, sweep, exe, processed, spawn, child,
          timer, queue, route, parked, task, boots, faults>>

Absent == [machine |-> NoKey, version |-> 0, digest |-> NoSource, status |-> "absent",
           at |-> "none", ran |-> {}]
Idle == [by |-> NoWorker, at |-> "idle", first |-> NoSource, saw |-> {}]

Kinds == {"Start", "Go", "Timeout"}
Records == [machine : Machines \cup {NoKey}, version : Nat, digest : Sources \cup {NoSource},
            status : {"absent", "PENDING", "RUNNING", "DONE", "FAILED"},
            at : {"none", "waiting", "forked", "ended"}, ran : SUBSET Sources]
Tasks == [by : Workers \cup {NoWorker},
          at : {"idle", "load", "run", "relay", "create", "ack", "lost"},
          first : Sources \cup {NoSource}, saw : SUBSET Executions]

TypeOK ==
    /\ published \subseteq Sources
    /\ phase \in [Workers -> {"down", "publishing", "up", "stopping"}]
    /\ image \in [Workers -> Images]
    /\ todo \in [Workers -> SUBSET Sources]
    /\ clash \in [Workers -> BOOLEAN]
    /\ free \in [Workers -> 0..Permits]
    /\ sweep \in [Workers -> SUBSET (Executions \X {"publish", "delete"})]
    /\ exe \in [Executions -> Records]
    /\ processed \in [Executions -> SUBSET Kinds]
    /\ spawn \in [Executions -> {"none", "pending", "acked"}]
    /\ child \in [Executions -> BOOLEAN]
    /\ timer \in [Executions -> BOOLEAN]
    /\ queue \in [Executions -> Seq(Kinds)]
    /\ route \in [Executions -> Machines \cup {NoKey}]
    /\ parked \in [Executions -> BOOLEAN]
    /\ task \in [Executions -> Tasks]
    /\ boots \in Nat /\ faults \in Nat

Init ==
    /\ published = {}
    /\ phase = [w \in Workers |-> "down"]
    /\ image \in [Workers -> Images] /\ \A w \in Workers : image[w] \in Deploys[w]
    /\ todo = [w \in Workers |-> {}]
    /\ clash = [w \in Workers |-> FALSE]
    /\ free = [w \in Workers |-> 0]
    /\ sweep = [w \in Workers |-> {}]
    /\ exe = [e \in Executions |->
                IF Legacy[e] = NoSource THEN Absent
                ELSE [machine |-> MachineOf[Legacy[e]], version |-> 1, digest |-> NoSource,
                      status |-> "RUNNING", at |-> "forked", ran |-> {}]]
    /\ processed = [e \in Executions |-> {}]
    /\ spawn = [e \in Executions |-> IF Legacy[e] = NoSource THEN "none" ELSE "pending"]
    /\ child = [e \in Executions |-> FALSE]
    /\ timer = [e \in Executions |-> FALSE]
    /\ queue = [e \in Executions |-> <<>>]
    /\ route = [e \in Executions |-> NoKey]
    /\ parked = [e \in Executions |-> FALSE]
    /\ task = [e \in Executions |-> Idle]
    /\ boots = 0 /\ faults = 0

-----------------------------------------------------------------------------
(* Finding the definition of an execution. *)

Started(x) == x.at # "none"

OfRelease(S, x) == {s \in S : MachineOf[s] = x.machine /\ VersionOf[s] = x.version}

(* An execution without a digest takes any source of its release. *)
Fits(x, s) == x.digest \in {NoSource, s}

(* What a record of the store may call: the modules the image's own machines call and those
   it is told to allow, if it can import them. *)
Usable(i, s) == Needs[s] \subseteq (UNION {Needs[t] : t \in Own[i]} \cup Extra[i]) \cap Code[i]

(* The source image i drives x with: its own when x runs on it, else the published one when
   x runs on that, else its own, although it is another.  A published record is built, and
   may be refused, before its digest is compared.  Empty: DefinitionNotLoaded. *)
Lookup(i, x) ==
    LET mine == OfRelease(Own[i], x)
        stored == OfRelease(published, x)
    IN  IF \E s \in mine : Fits(x, s) THEN mine
        ELSE IF \E s \in stored : ~Usable(i, s) THEN {}
        ELSE IF \E s \in stored : Fits(x, s) THEN stored
        ELSE mine

(* A started, running execution is not driven with another source than its own. *)
DefinitionProblem(x, s) == Started(x) /\ x.status = "RUNNING" /\ x.digest # s

(* The record as the step leaves it before it runs: one that has not run, or has no digest,
   is pinned to the source found. *)
Pinned(x, s) ==
    IF x.digest = NoSource \/ ~Started(x)
    THEN [x EXCEPT !.version = VersionOf[s], !.digest = s] ELSE x

-----------------------------------------------------------------------------
(* A worker process: started with an image, it publishes the image's machines one by one. *)

Boot(w, i) ==
    /\ phase[w] = "down" /\ boots < MaxBoots
    /\ image' = [image EXCEPT ![w] = i]
    /\ IF w \in Publishing
       THEN /\ phase' = [phase EXCEPT ![w] = "publishing"]
            /\ todo' = [todo EXCEPT ![w] = Own[i]]
            /\ UNCHANGED free
       ELSE /\ phase' = [phase EXCEPT ![w] = "up"]
            /\ free' = [free EXCEPT ![w] = Permits]
            /\ UNCHANGED todo
    /\ clash' = [clash EXCEPT ![w] = FALSE]
    /\ boots' = boots + 1
    /\ UNCHANGED <<store, group, task, sweep, faults>>

(* publish_definition of every store: the first source of a release stays, and is answered. *)
Stored(s) ==
    LET there == {t \in published : SameRelease(s, t)} IN IF there = {} THEN {s} ELSE there

\* A mistake: the last source published of a release stays.
PublishLast(w, s) ==
    /\ phase[w] = "publishing" /\ s \in todo[w]
    /\ published' = {t \in published : ~SameRelease(s, t)} \cup {s}
    /\ todo' = [todo EXCEPT ![w] = @ \ {s}]
    /\ UNCHANGED <<phase, image, clash, free, sweep, exe, processed, spawn, child, timer, group,
                   task, bounds>>

(* A source that fails to be the stored one is a conflict; the others are published all the
   same. *)
Publish(w, s) ==
    /\ phase[w] = "publishing" /\ s \in todo[w]
    /\ published' = published \cup Stored(s)
    /\ clash' = [clash EXCEPT ![w] = @ \/ s \notin Stored(s)]
    /\ todo' = [todo EXCEPT ![w] = @ \ {s}]
    /\ UNCHANGED <<phase, image, free, sweep, exe, processed, spawn, child, timer, group, task,
                   bounds>>

\* A mistake: a conflict does not stop the process.
ReadyAnyway(w) ==
    /\ phase[w] = "publishing" /\ todo[w] = {}
    /\ phase' = [phase EXCEPT ![w] = "up"]
    /\ free' = [free EXCEPT ![w] = Permits]
    /\ UNCHANGED <<image, todo, clash, sweep, store, group, task, bounds>>

(* A conflict stops the process before it takes any work. *)
Ready(w) ==
    /\ phase[w] = "publishing" /\ todo[w] = {}
    /\ phase' = [phase EXCEPT ![w] = IF clash[w] THEN "down" ELSE "up"]
    /\ free' = [free EXCEPT ![w] = IF clash[w] THEN 0 ELSE Permits]
    /\ UNCHANGED <<image, todo, clash, sweep, store, group, task, bounds>>

(* The process dies: its tasks with it, and their leases run out. *)
Crash(w) ==
    /\ phase[w] # "down" /\ faults < MaxFaults
    /\ faults' = faults + 1
    /\ phase' = [phase EXCEPT ![w] = "down"]
    /\ todo' = [todo EXCEPT ![w] = {}]
    /\ free' = [free EXCEPT ![w] = 0]
    /\ sweep' = [sweep EXCEPT ![w] = {}]
    /\ task' = [e \in Executions |->
                  IF task[e].by = w THEN [task[e] EXCEPT !.at = "lost", !.saw = {}] ELSE task[e]]
    /\ UNCHANGED <<image, clash, store, group, boots>>

(* SIGTERM: no more claims, the tasks in flight are awaited, then the loop ends. *)
Stop(w) ==
    /\ phase[w] = "up" /\ boots < MaxBoots
    /\ phase' = [phase EXCEPT ![w] = "stopping"]
    /\ UNCHANGED <<image, todo, clash, free, sweep, store, group, task, bounds>>

Stopped(w) ==
    /\ phase[w] = "stopping" /\ sweep[w] = {}
    /\ \A e \in Executions : task[e].by = w => task[e].at = "lost"
    /\ phase' = [phase EXCEPT ![w] = "down"]
    /\ free' = [free EXCEPT ![w] = 0]
    /\ UNCHANGED <<image, todo, clash, sweep, store, group, task, bounds>>

-----------------------------------------------------------------------------
(* The sending side. *)

(* A publish: the first one of a group fixes its routing key. *)
Enqueue(e, kind, key) ==
    /\ queue' = [queue EXCEPT ![e] = Append(@, kind)]
    /\ route' = [route EXCEPT ![e] = IF queue[e] = <<>> THEN key ELSE @]

(* A creation takes the highest version its process has. *)
Create(e, i, s) ==
    /\ exe[e] = Absent
    /\ s \in Own[i]
    /\ \A t \in Own[i] : MachineOf[t] = MachineOf[s] => VersionOf[t] <= VersionOf[s]
    /\ exe' = [exe EXCEPT ![e] = [Absent EXCEPT !.machine = MachineOf[s], !.version = VersionOf[s],
                                                !.digest = s, !.status = "PENDING"]]
    /\ Enqueue(e, "Start", MachineOf[s])
    /\ UNCHANGED <<published, process, free, sweep, processed, spawn, child, timer, parked, task,
                   bounds>>

(* A send checks the event against the definition, of an execution that exists: one sent
   before has no routing key. *)
Send(e, i) ==
    /\ "Go" \notin processed[e] /\ \A n \in 1..Len(queue[e]) : queue[e][n] # "Go"
    /\ exe[e] # Absent => Lookup(i, exe[e]) # {}
    /\ Enqueue(e, "Go", exe[e].machine)
    /\ UNCHANGED <<store, process, free, sweep, parked, task, bounds>>

-----------------------------------------------------------------------------
(* The worker's loop. *)

Claimable(w, e) ==
    /\ queue[e] # <<>> /\ ~parked[e] /\ task[e] = Idle
    /\ route[e] \in Filter[w] \/ NoKey \in Filter[w]

(* One message of a group is in flight; a permit is held until it is handled. *)
Claim(w, e) ==
    /\ phase[w] = "up" /\ free[w] > 0 /\ sweep[w] = {}
    /\ Claimable(w, e)
    /\ task' = [task EXCEPT ![e] = [Idle EXCEPT !.by = w, !.at = "load"]]
    /\ free' = [free EXCEPT ![w] = @ - 1]
    /\ UNCHANGED <<process, sweep, store, group, bounds>>

\* A mistake: a claim that raises keeps its permit.
ClaimFailsHolding(w) ==
    /\ phase[w] = "up" /\ free[w] > 0 /\ sweep[w] = {} /\ faults < MaxFaults
    /\ faults' = faults + 1
    /\ free' = [free EXCEPT ![w] = @ - 1]
    /\ UNCHANGED <<process, sweep, store, group, task, boots>>

(* A claim that raises gives its permit back, and the loop carries on. *)
ClaimFails(w) ==
    /\ phase[w] = "up" /\ free[w] > 0 /\ sweep[w] = {} /\ faults < MaxFaults
    /\ faults' = faults + 1
    /\ UNCHANGED <<process, free, sweep, store, group, task, boots>>

(* With nothing to claim, the loop sweeps the timers that are due, of every execution,
   whatever machines its worker is for.  The time a timer has left is any. *)
Sweep(w, due) ==
    /\ phase[w] = "up" /\ free[w] > 0 /\ sweep[w] = {}
    /\ \A e \in Executions : ~Claimable(w, e)
    /\ due # {} /\ \A e \in due : timer[e]
    /\ sweep' = [sweep EXCEPT ![w] = due \X {"publish"}]
    /\ UNCHANGED <<process, free, store, group, task, bounds>>

(* A Timeout is published, then its timer is deleted: an outage or a crash in between
   leaves the timer for the next sweep. *)
SweepPublish(w, e) ==
    /\ <<e, "publish">> \in sweep[w]
    /\ Enqueue(e, "Timeout", exe[e].machine)
    /\ sweep' = [sweep EXCEPT ![w] = (@ \ {<<e, "publish">>}) \cup {<<e, "delete">>}]
    /\ UNCHANGED <<process, free, store, parked, task, bounds>>

SweepDelete(w, e) ==
    /\ <<e, "delete">> \in sweep[w]
    /\ timer' = [timer EXCEPT ![e] = FALSE]
    /\ sweep' = [sweep EXCEPT ![w] = @ \ {<<e, "delete">>}]
    /\ UNCHANGED <<process, free, published, exe, processed, spawn, child, group, task, bounds>>

SweepFails(w) ==
    /\ sweep[w] # {} /\ faults < MaxFaults
    /\ faults' = faults + 1
    /\ sweep' = [sweep EXCEPT ![w] = {}]
    /\ UNCHANGED <<process, free, store, group, task, boots>>

-----------------------------------------------------------------------------
(* Handling the first message of a group. *)

Alive(e) == task[e].by \in Workers /\ phase[task[e].by] \in {"up", "stopping"}
At(e, place) == Alive(e) /\ task[e].at = place
Move(e, place) == task' = [task EXCEPT ![e].at = place]

(* Consumed without running: no such execution, an event processed before (a Timeout of an
   earlier sweep, a step whose relay failed), or one that comes before its Start. *)
Dropped(e) ==
    LET kind == Head(queue[e])
    IN  \/ exe[e] = Absent
        \/ kind \in processed[e]
        \/ exe[e].status = "PENDING" /\ kind # "Start"

(* ack: the message is removed, a drained group goes with its routing key. *)
Finish(e) ==
    /\ queue' = [queue EXCEPT ![e] = Tail(@)]
    /\ task' = [task EXCEPT ![e] = Idle]
    /\ free' = [free EXCEPT ![task[e].by] = @ + 1]

(* The handling raised: a nack, and the group waits `suspend_recheck` for another try. *)
PutBack(e) ==
    /\ parked' = [parked EXCEPT ![e] = TRUE]
    /\ task' = [task EXCEPT ![e] = Idle]
    /\ free' = [free EXCEPT ![task[e].by] = @ + 1]

Discard(e) ==
    /\ At(e, "load") /\ Dropped(e)
    /\ Finish(e)
    /\ UNCHANGED <<process, sweep, store, route, parked, bounds>>

(* The first lookup: what the engine's step is built from. *)
Look(e) ==
    /\ At(e, "load") /\ ~Dropped(e)
    /\ \E s \in Lookup(image[task[e].by], exe[e]) :
         task' = [task EXCEPT ![e].at = "run", ![e].first = s]
    /\ UNCHANGED <<process, free, sweep, store, group, bounds>>

(* Either lookup may find nothing: DefinitionNotLoaded, the message is for another worker. *)
NotLoaded(e) ==
    /\ \/ At(e, "load") /\ ~Dropped(e)
       \/ At(e, "run")
    /\ Lookup(image[task[e].by], exe[e]) = {}
    /\ PutBack(e)
    /\ UNCHANGED <<process, sweep, store, queue, route, bounds>>

(* The author's machine: it waits under a timeout, forks a child on Go, and ends on a
   Timeout; anything else is consumed. *)
Forks(x, kind) == x.status = "RUNNING" /\ x.at = "waiting" /\ kind = "Go"
Ends(x, kind) == x.status = "RUNNING" /\ x.at = "waiting" /\ kind = "Timeout"
Stepped(x, kind) ==
    CASE x.status = "PENDING" -> [x EXCEPT !.status = "RUNNING", !.at = "waiting"]
      [] Forks(x, kind) -> [x EXCEPT !.at = "forked"]
      [] Ends(x, kind) -> [x EXCEPT !.status = "DONE", !.at = "ended"]
      [] OTHER -> x

(* The record after a step: one whose definition has changed is failed, any other ran the
   source of the first lookup, pinned by the second. *)
Outcome(x, s, first, kind) ==
    IF DefinitionProblem(Pinned(x, s), s) THEN [Pinned(x, s) EXCEPT !.status = "FAILED"]
    ELSE [Stepped(Pinned(x, s), kind) EXCEPT !.ran = @ \cup {first}]

(* The second lookup, the step and its commit. *)
Run(e) ==
    LET kind == Head(queue[e])
        x == exe[e]
    IN  /\ At(e, "run")
        /\ \E s \in Lookup(image[task[e].by], x) :
             LET y == Outcome(x, s, task[e].first, kind)
                 forks == y.status # "FAILED" /\ Forks(x, kind)
             IN  /\ exe' = [exe EXCEPT ![e] = y]
                 /\ spawn' = [spawn EXCEPT ![e] = IF forks THEN "pending" ELSE @]
                 /\ timer' = [timer EXCEPT ![e] = IF y.status = "FAILED" THEN @
                                  ELSE (@ \/ x.status = "PENDING") /\ ~forks /\ ~Ends(x, kind)]
                 /\ Move(e, IF forks THEN "relay" ELSE "ack")
        /\ processed' = [processed EXCEPT ![e] = @ \cup {kind}]
        /\ UNCHANGED <<process, free, sweep, published, child, group, bounds>>

(* The relay reads the pending children of every execution, *)
Relay(e) ==
    LET pending == {p \in Executions : spawn[p] = "pending"}
    IN  /\ At(e, "relay")
        /\ task' = [task EXCEPT ![e].at = IF pending = {} THEN "ack" ELSE "create", ![e].saw = pending]
        /\ UNCHANGED <<process, free, sweep, store, group, bounds>>

(* and creates each from its parent's definition; with all there, it reads again. *)
CreateChildren(e) ==
    LET saw == task[e].saw
    IN  /\ At(e, "create")
        /\ \A p \in saw : child[p] \/ Lookup(image[task[e].by], exe[p]) # {}
        /\ child' = [p \in Executions |-> child[p] \/ p \in saw]
        /\ spawn' = [p \in Executions |-> IF p \in saw THEN "acked" ELSE spawn[p]]
        /\ task' = [task EXCEPT ![e].at = "relay", ![e].saw = {}]
        /\ UNCHANGED <<process, free, sweep, published, exe, processed, timer, group, bounds>>

(* One whose definition this worker cannot use raises: some of the others may have been
   created by then, none is acked. *)
ChildRefused(e) ==
    LET saw == task[e].saw
        i == image[task[e].by]
    IN  /\ At(e, "create")
        /\ \E p \in saw : ~child[p] /\ Lookup(i, exe[p]) = {}
        /\ \E made \in SUBSET {p \in saw : Lookup(i, exe[p]) # {}} :
             child' = [p \in Executions |-> child[p] \/ p \in made]
        /\ PutBack(e)
        /\ UNCHANGED <<process, sweep, published, exe, processed, spawn, timer, queue, route, bounds>>

Ack(e) ==
    /\ At(e, "ack")
    /\ Finish(e)
    /\ UNCHANGED <<process, sweep, store, route, parked, bounds>>

(* An outage anywhere in the handling: the message is put back or, if the nack fails too,
   its lease runs out; the permit comes back either way. *)
HandleFails(e) ==
    /\ Alive(e) /\ task[e].at # "lost" /\ faults < MaxFaults
    /\ faults' = faults + 1
    /\ \/ PutBack(e)
       \/ /\ task' = [task EXCEPT ![e].at = "lost", ![e].saw = {}]
          /\ free' = [free EXCEPT ![task[e].by] = @ + 1]
          /\ UNCHANGED parked
    /\ UNCHANGED <<process, sweep, store, queue, route, boots>>

(* Time: a parked group comes back, a lease nobody works under runs out. *)
Unpark(e) ==
    /\ parked[e]
    /\ parked' = [parked EXCEPT ![e] = FALSE]
    /\ UNCHANGED <<process, free, sweep, store, queue, route, task, bounds>>

Expire(e) ==
    /\ task[e].at = "lost"
    /\ task' = [task EXCEPT ![e] = Idle]
    /\ UNCHANGED <<process, free, sweep, store, group, bounds>>

-----------------------------------------------------------------------------
Handle(e) ==
    \/ Discard(e) \/ Look(e) \/ NotLoaded(e) \/ Run(e)
    \/ Relay(e) \/ CreateChildren(e) \/ ChildRefused(e) \/ Ack(e)

Next ==
    \/ \E w \in Workers :
         \/ \E i \in Deploys[w] : Boot(w, i)
         \/ \E s \in Sources : Publish(w, s)
         \/ Ready(w) \/ Crash(w) \/ Stop(w) \/ Stopped(w)
         \/ ClaimFails(w) \/ SweepFails(w)
         \/ \E due \in SUBSET Executions : Sweep(w, due)
         \/ \E e \in Executions : Claim(w, e) \/ SweepPublish(w, e) \/ SweepDelete(w, e)
    \/ \E e \in Executions :
         \/ \E i \in Senders, s \in Sources : Create(e, i, s)
         \/ \E i \in Senders : Send(e, i)
         \/ Handle(e)
         \/ HandleFails(e) \/ Unpark(e) \/ Expire(e)

(* What a live process and the clock go on doing; a worker is not promised to win a race for
   a group or to find nothing claimable, but a race that recurs for ever is won.  Handling,
   waiting out a retry and a lease running out exclude each other. *)
Fairness ==
    /\ \A e \in Executions : WF_vars(Handle(e) \/ Unpark(e) \/ Expire(e))
    /\ \A w \in Workers :
         /\ SF_vars(Sweep(w, {e \in Executions : timer[e]}))
         /\ WF_vars(\E e \in Executions : SweepPublish(w, e) \/ SweepDelete(w, e))
         /\ \A e \in Executions : SF_vars(Claim(w, e))

Spec == Init /\ [][Next]_vars
FairSpec == Spec /\ Fairness

-----------------------------------------------------------------------------
(* A worker that takes work. *)
Working(w) == phase[w] \in {"up", "stopping"}

(* Any two working processes have the same source of a release: the edited copy of a machine
   whose version was not bumped is stopped at its own start, whichever came first
   (worker.py, apublish_definitions before AsyncWorker.run). *)
FleetAgrees ==
    \A v, w \in Workers : Working(v) /\ Working(w) =>
        \A s \in Own[image[v]], t \in Own[image[w]] : SameRelease(s, t) => s = t

(* "So the deploy fails, not the executions": no execution is ever failed because a
   definition changed under it, whatever images are rolled out (durability.md). *)
DeployFailsNotExecutions == \A e \in Executions : exe[e].status # "FAILED"

(* An execution runs to the end on the source it records: no step of it, on any worker and
   across the two lookups of a step, ran another.  It holds when every worker publishes; a
   worker that does not may find two sources in one step. *)
OneSource == \A e \in Executions : exe[e].ran \subseteq {exe[e].digest}

(* The group e has a worker that claims it and can run it. *)
Served(w, e) ==
    /\ phase[w] = "up"
    /\ route[e] \in Filter[w] \/ NoKey \in Filter[w]
    /\ exe[e] = Absent \/ Lookup(image[w], exe[e]) # {}

(* A message is put back "for a worker that has it", the loop survives any outage, and due
   timers are swept whatever else goes on: when a worker that covers the group and has its
   version stays up, every message of the group is handled and its timer fires. *)
NothingWaits ==
    \A e \in Executions :
        <>[](\E w \in Workers : Served(w, e)) => []<>(queue[e] = <<>> /\ ~timer[e])

=============================================================================
