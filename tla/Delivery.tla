------------------------------ MODULE Delivery ------------------------------
(***************************************************************************)
(* The distributed runner: clients (SenderLogic) and workers (WorkerLogic) *)
(* that share a store and a transport.  One worker step is one call on the *)
(* store or the transport; everything between two calls is local.          *)
(*                                                                         *)
(* The machine an execution runs is abstract: Emits and Forks say what an  *)
(* event's processing enqueues, Outcome which statuses it may end in.  The *)
(* tables of the store (outbox, processed_events, spawns) and the messages *)
(* of the transport are sets of rows ordered by their seq.                 *)
(*                                                                         *)
(* A definition that stands right before another of nearly the same name   *)
(* (CommitUnchecked, Commit) is a mistake the code could have made and     *)
(* does not make; nothing uses it.                                         *)
(***************************************************************************)
EXTENDS Integers, Sequences

CONSTANTS
  Exec,      \* execution ids
  Root,      \* those a client creates; the others are created by the relay
  Worker,    \* workers
  Client,    \* callers of the sending side and of the control plane
  Event,     \* event ids
  NoEvent,   \* "no event": what a relay-created child starts with
  KindOf,    \* event -> kind
  SentTo,    \* event -> the execution a client addresses it to, or NoExec
  NoExec,
  Emits,     \* execution -> event -> sequence of [to, event] its processing emits
  Forks,     \* execution -> event -> set of children its processing spawns
  MaxSends,  \* bound: copies of one event a client sends
  MaxCrashes,\* bound: processes that stop at an arbitrary point
  MaxFaults, \* bound: calls on the store or the transport that raise
  MaxExpiries, \* bound: leases that end while their worker still runs
  MaxWrites  \* bound: control plane commands

Kinds == {"Start", "Cancel", "Reset", "Domain"}
Statuses == {"PENDING", "RUNNING", "SUSPENDED", "CANCELLING", "DONE", "CANCELLED", "FAILED"}
Emission == [to : Exec, event : Event]

ASSUME DeliveryAssumption ==
  /\ Root \subseteq Exec
  /\ Worker \cap Client = {}
  /\ NoEvent \notin Event
  /\ NoExec \notin Exec
  /\ KindOf \in [Event -> Kinds]
  /\ SentTo \in [Event -> Exec \cup {NoExec}]
  /\ Emits \in [Exec -> [Event \cup {NoEvent} -> Seq(Emission)]]
  /\ Forks \in [Exec -> [Event \cup {NoEvent} -> SUBSET Exec]]
  /\ {MaxSends, MaxCrashes, MaxFaults, MaxExpiries, MaxWrites} \subseteq Nat

\* Event.id is a fresh uuid: no two emissions have the same one, and no client sends, starts
\* or cancels with one that a machine emits.
EmittedAt(e, x, f, i) == i \in DOMAIN Emits[x][f] /\ Emits[x][f][i].event = e
ByMachine(e) == \E x \in Exec, f \in Event \cup {NoEvent} : \E i \in DOMAIN Emits[x][f] : EmittedAt(e, x, f, i)

ASSUME FreshIds ==
  /\ \A e \in Event : ByMachine(e) => SentTo[e] = NoExec
  /\ \A x, y \in Exec, f, g \in Event \cup {NoEvent} : \A i \in DOMAIN Emits[x][f], j \in DOMAIN Emits[y][g] :
       Emits[x][f][i].event = Emits[y][g][j].event => x = y /\ f = g /\ i = j

VARIABLES
  exe,        \* execution -> [status, version]; version 0: no record
  processed,  \* execution -> events recorded as processed
  outbox,     \* rows [seq, to, event]
  outSeq,     \* the outbox's last seq
  spawns,     \* children a commit enqueued and no relay acked
  messages,   \* the transport's rows [group, seq, event, locked]
  msgSeq,     \* group -> the last seq published to it
  proc,       \* process -> where its flow is, and the flow's local variables
  background, \* children a relay that was aborted may still create
  applied,    \* history: execution -> events its machine processed, in order
  arrival,    \* history: execution -> events, by first publish to its group
  emitted,    \* history: rows committed to the outbox
  dropped,    \* history: <<execution, event>> acked by a status rule
  forked,     \* history: children some commit spawned
  count       \* how often each bounded thing happened

store == <<exe, processed, outbox, outSeq, spawns>>
transport == <<messages, msgSeq>>
history == <<applied, arrival, emitted, dropped, forked>>
vars == <<store, transport, proc, background, history, count>>

Process == Worker \cup Client
OutboxRow == [seq : Nat, to : Exec, event : Event]
Message == [group : Exec, seq : Nat, event : Event, locked : BOOLEAN]

Pcs == {"idle", "direct", "directack", "command", "cancel", "load", "dedupe", "route",
        "relay", "readbox", "create", "publish", "ackbox", "ack", "nack", "park"}

\* A flow's local variables: the lease (group, seq, event), the record it loaded (status,
\* version), and the relay's snapshots (the spawns it reads, loads, creates; the outbox rows).
Local == [pc : Pcs, group : Exec \cup {NoExec}, seq : Nat, event : Event \cup {NoEvent},
          status : Statuses, version : Nat,
          spawned : SUBSET Exec, load : SUBSET Exec, create : SUBSET Exec, todo : SUBSET OutboxRow]

Idle == [pc |-> "idle", group |-> NoExec, seq |-> 0, event |-> NoEvent,
         status |-> "PENDING", version |-> 0,
         spawned |-> {}, load |-> {}, create |-> {}, todo |-> {}]
-----------------------------------------------------------------------------
(* Store *)

Exists(x) == exe[x].version > 0

\* The rows a commit inserts: one per emission, in order, after the last seq.
NewRows(emits) == {[seq |-> outSeq + i, to |-> emits[i].to, event |-> emits[i].event] : i \in DOMAIN emits}

CommitUnchecked(x, version, status, emits, event, children) ==
  /\ exe' = [exe EXCEPT ![x] = [status |-> status, version |-> exe[x].version + 1]]
  /\ outbox' = outbox \cup NewRows(emits)
  /\ outSeq' = outSeq + Len(emits)
  /\ emitted' = emitted \cup NewRows(emits)
  /\ processed' = [processed EXCEPT ![x] = @ \cup ({event} \ {NoEvent})]
  /\ spawns' = spawns \cup children
  /\ forked' = forked \cup children

\* ExecutionStore.commit at the version the caller loaded: the record, the emits, the
\* processed event and the spawns are one transaction.  Enabled only if the CAS holds.
Commit(x, version, status, emits, event, children) ==
  /\ exe[x].version = version
  /\ exe' = [exe EXCEPT ![x] = [status |-> status, version |-> version + 1]]
  /\ outbox' = outbox \cup NewRows(emits)
  /\ outSeq' = outSeq + Len(emits)
  /\ emitted' = emitted \cup NewRows(emits)
  /\ processed' = [processed EXCEPT ![x] = @ \cup ({event} \ {NoEvent})]
  /\ spawns' = spawns \cup children
  /\ forked' = forked \cup children

StoreConflict(x, version) == exe[x].version # version

Emitted(e) == \E r \in emitted : r.event = e
-----------------------------------------------------------------------------
(* Transport: the SQLite dialect, one lock per message *)

Group(g) == {m \in messages : m.group = g}
IsAnyOf(m) == m \in Group(m.group)
IsHead(m) == \A n \in Group(m.group) : m.seq <= n.seq

Publish(g, e) ==
  /\ msgSeq' = [msgSeq EXCEPT ![g] = @ + 1]
  /\ messages' = messages \cup {[group |-> g, seq |-> msgSeq[g] + 1, event |-> e, locked |-> FALSE]}
  /\ arrival' = IF \E i \in DOMAIN arrival[g] : arrival[g][i] = e
                THEN arrival ELSE [arrival EXCEPT ![g] = Append(@, e)]

\* A message is claimable when it is its group's head and nothing of the group is in flight.
Claimable(m) == /\ m \in messages
                /\ IsHead(m)
                /\ \A n \in Group(m.group) : ~n.locked

\* nack, a claim and a lease running out all rewrite the lock of one row, found by its seq.
SetLock(g, seq, locked) ==
  messages' = {IF m.group = g /\ m.seq = seq THEN [m EXCEPT !.locked = locked] ELSE m : m \in messages}

RemoveGroup(g, seq) == messages' = {m \in messages : m.group # g}
Remove(g, seq) == messages' = {m \in messages : ~(m.group = g /\ m.seq = seq)}
-----------------------------------------------------------------------------
(* The engine, as far as delivery sees it *)

\* Where processing an event of this kind may leave an execution of this status, and
\* whether the machine took the event (a no-op still commits, and is recorded).
Outcome(kind, status) ==
  CASE kind = "Start" /\ status = "PENDING" -> {"RUNNING", "DONE", "FAILED"}
    [] kind = "Reset" /\ status # "CANCELLING" -> {"RUNNING", "DONE", "FAILED"}
    [] kind = "Cancel" /\ status \in {"RUNNING", "CANCELLING"} -> {"RUNNING", "DONE", "CANCELLED", "FAILED"}
    [] kind = "Cancel" /\ status \notin {"RUNNING", "CANCELLING", "DONE", "CANCELLED"} -> {"CANCELLED"}
    [] kind = "Domain" /\ status = "RUNNING" -> {"RUNNING", "DONE", "FAILED"}
    [] OTHER -> {}

Takes(kind, status) == Outcome(kind, status) # {}

\* A machine emits to its parent and to the children in its record, nobody else.
Knows(emits) == \A i \in DOMAIN emits : emits[i].to \in Root \cup forked

\* An error drops the step's effects: a FAILED outcome enqueues nothing, and an `on error`
\* recovery may enqueue nothing either.
NoEffect == [emits |-> <<>>, forks |-> {}]
Effects(x, e, status) ==
  {NoEffect} \cup IF status \in {"RUNNING", "DONE"} /\ Knows(Emits[x][e])
                 THEN {[emits |-> Emits[x][e], forks |-> Forks[x][e]]} ELSE {}
-----------------------------------------------------------------------------
(* Clients: SenderLogic *)

Become(p, local) == proc' = [proc EXCEPT ![p] = local]

\* create(): the record and its Start commit together; then that one row is published and
\* acked directly.  start_on_create=False saves the record alone.
Create(p, x, e) ==
  /\ p \in Client /\ proc[p] = Idle
  /\ x \in Root /\ ~Exists(x)
  /\ KindOf[e] = "Start" /\ SentTo[e] = x /\ ~Emitted(e)
  /\ Commit(x, 0, "PENDING", <<[to |-> x, event |-> e]>>, NoEvent, {})
  /\ Become(p, [Idle EXCEPT !.pc = "direct", !.group = x, !.event = e])
  /\ UNCHANGED <<transport, background, applied, arrival, dropped, count>>

CreateDeferred(p, x) ==
  /\ p \in Client /\ proc[p] = Idle
  /\ x \in Root /\ ~Exists(x)
  /\ Commit(x, 0, "PENDING", <<>>, NoEvent, {})
  /\ UNCHANGED <<transport, proc, background, applied, arrival, dropped, count>>

\* start(): only while PENDING; a start that loses the CAS raises to its caller.
StartDeferred(p, x, e) ==
  /\ p \in Client /\ proc[p] = Idle
  /\ Exists(x) /\ exe[x].status = "PENDING"
  /\ KindOf[e] = "Start" /\ SentTo[e] = x /\ ~Emitted(e)
  /\ Commit(x, exe[x].version, "PENDING", <<[to |-> x, event |-> e]>>, NoEvent, {})
  /\ Become(p, [Idle EXCEPT !.pc = "direct", !.group = x, !.event = e])
  /\ UNCHANGED <<transport, background, applied, arrival, dropped, count>>

PublishDirect(p) ==
  /\ proc[p].pc = "direct"
  /\ Publish(proc[p].group, proc[p].event)
  /\ Become(p, [proc[p] EXCEPT !.pc = "directack"])
  /\ UNCHANGED <<store, background, applied, emitted, dropped, forked, count>>

AckDirect(p) ==
  /\ proc[p].pc = "directack"
  /\ outbox' = {r \in outbox : r.event # proc[p].event}
  /\ Become(p, Idle)
  /\ UNCHANGED <<exe, processed, outSeq, spawns, transport, background, history, count>>

\* send(): a publish, whatever the state of its target; the caller may send a copy again.
Send(p, e) ==
  /\ p \in Client /\ proc[p] = Idle
  /\ KindOf[e] # "Start" /\ SentTo[e] # NoExec
  /\ count.sends[e] < MaxSends
  /\ Publish(SentTo[e], e)
  /\ count' = [count EXCEPT !.sends[e] = @ + 1]
  /\ UNCHANGED <<store, proc, background, applied, emitted, dropped, forked>>
-----------------------------------------------------------------------------
(* Clients: the control plane.  Each command first looks at the status, then runs the CAS  *)
(* loop of _commit_status_flow, which looks again but requires only "not finished"; then   *)
(* it does the same to the children, and theirs.  `load` holds the executions still to     *)
(* write, `create` those whose children are still to follow.                               *)

Look(p, x, seen, status, pc) ==
  /\ p \in Client /\ proc[p] = Idle
  /\ count.writes < MaxWrites
  /\ Exists(x) /\ exe[x].status \in seen
  /\ Become(p, [Idle EXCEPT !.pc = pc, !.group = x, !.status = status, !.load = {x}])
  /\ count' = [count EXCEPT !.writes = @ + 1]
  /\ UNCHANGED <<store, transport, background, history>>

Suspend(p, x) == Look(p, x, {"RUNNING"}, "SUSPENDED", "command")
Resume(p, x) == Look(p, x, {"SUSPENDED"}, "RUNNING", "command")
Terminate(p, x) == Look(p, x, Statuses, "CANCELLED", "command")

\* cancel() of a state that does not model it: a terminate, then the caller runs the relay.
CancelForcefully(p, x) == Look(p, x, Statuses \ {"DONE", "CANCELLED"}, "CANCELLED", "cancel")

\* cancel() of a state that models it: CANCELLING and the Cancel are one commit; its children
\* are terminated, and the caller runs the relay.
CancelCooperatively(p, x, e) ==
  /\ p \in Client /\ proc[p] = Idle
  /\ count.writes < MaxWrites
  /\ Exists(x) /\ exe[x].status \in {"RUNNING", "SUSPENDED", "CANCELLING"}
  /\ KindOf[e] = "Cancel" /\ SentTo[e] = NoExec /\ ~ByMachine(e) /\ ~Emitted(e)
  /\ Commit(x, exe[x].version, "CANCELLING", <<[to |-> x, event |-> e]>>, NoEvent, {})
  /\ Become(p, [Idle EXCEPT !.pc = "cancel", !.group = x, !.status = "CANCELLED", !.create = {x}])
  /\ count' = [count EXCEPT !.writes = @ + 1]
  /\ UNCHANGED <<transport, background, applied, arrival, dropped>>

Commanding(p) == proc[p].pc \in {"command", "cancel"}

SetStatus(p, x) ==
  /\ Commanding(p) /\ x \in proc[p].load
  /\ IF exe[x].status \in {"CANCELLED", "DONE"}
     THEN UNCHANGED <<store, emitted, forked>>
     ELSE Commit(x, exe[x].version, proc[p].status, <<>>, NoEvent, {})
  /\ Become(p, [proc[p] EXCEPT !.load = @ \ {x}, !.create = @ \cup {x}])
  /\ UNCHANGED <<transport, background, applied, arrival, dropped, count>>

\* The children in x's record: those a commit of x enqueued.
Children(x) == {c \in forked : \E e \in Event \cup {NoEvent} : c \in Forks[x][e]}

Propagate(p, x) ==
  /\ Commanding(p) /\ x \in proc[p].create
  /\ Become(p, [proc[p] EXCEPT !.create = @ \ {x}, !.load = @ \cup {c \in Children(x) : Exists(c)}])
  /\ UNCHANGED <<store, transport, background, history, count>>

CommandDone(p) ==
  /\ Commanding(p) /\ proc[p].load = {} /\ proc[p].create = {}
  /\ Become(p, IF proc[p].pc = "cancel" THEN [Idle EXCEPT !.pc = "relay"] ELSE Idle)
  /\ UNCHANGED <<store, transport, background, history, count>>
-----------------------------------------------------------------------------
(* Workers: claim, load, dedupe, route *)

Claim(w, m) ==
  /\ w \in Worker /\ proc[w] = Idle
  /\ Claimable(m)
  /\ SetLock(m.group, m.seq, TRUE)
  /\ Become(w, [Idle EXCEPT !.pc = "load", !.group = m.group, !.seq = m.seq, !.event = m.event])
  /\ UNCHANGED <<store, msgSeq, background, history, count>>

Load(w) ==
  /\ proc[w].pc = "load"
  /\ LET x == proc[w].group IN
     IF Exists(x)
     THEN /\ Become(w, [proc[w] EXCEPT !.pc = "dedupe", !.status = exe[x].status, !.version = exe[x].version])
          /\ UNCHANGED dropped
     ELSE /\ Become(w, [proc[w] EXCEPT !.pc = "ack"])
          /\ dropped' = dropped \cup {<<x, proc[w].event>>}
  /\ UNCHANGED <<store, transport, background, applied, arrival, emitted, forked, count>>

\* The status in which a message waits, its lock held; parking what came before the Start
\* too would keep the Start behind it.
ParksBeforeStart(kind, status) == status = "SUSPENDED" \/ (status = "PENDING" /\ kind # "Start")
Parks(kind, status) == status = "SUSPENDED"

\* The statuses in which an event of this kind is acked without running the machine.
Discards(kind, status) ==
  \/ status = "CANCELLED"
  \/ status = "PENDING" /\ kind # "Start"
  \/ status = "CANCELLING" /\ kind # "Cancel"

Dedupe(w) ==
  /\ proc[w].pc = "dedupe"
  /\ LET x == proc[w].group
         e == proc[w].event
         isProcessed == e \in processed[x]
         parked == ~isProcessed /\ Parks(KindOf[e], proc[w].status)
         discarded == ~isProcessed /\ ~parked /\ Discards(KindOf[e], proc[w].status)
     IN /\ Become(w, [proc[w] EXCEPT !.pc = IF parked THEN "park"
                                           ELSE IF isProcessed \/ discarded THEN "ack" ELSE "route"])
        /\ dropped' = IF discarded THEN dropped \cup {<<x, e>>} ELSE dropped
  /\ UNCHANGED <<store, transport, background, applied, arrival, emitted, forked, count>>

\* Whether a commit left the relay anything to do.
EnqueuedEmits(effect) == effect.emits # <<>>
Enqueued(effect) == effect.emits # <<>> \/ effect.forks # {}

\* The engine runs on the record Load saw, and the commit is a CAS on that version: at a
\* commit the status is still the one loaded.
Run(w) ==
  /\ proc[w].pc = "route"
  /\ LET x == proc[w].group
         e == proc[w].event
         kind == KindOf[e]
         was == proc[w].status
     IN \E status \in IF Takes(kind, was) THEN Outcome(kind, was) ELSE {was} :
        \E effect \in IF Takes(kind, was) THEN Effects(x, e, status) ELSE {NoEffect} :
          /\ Commit(x, proc[w].version, status, effect.emits, e, effect.forks)
          /\ applied' = IF Takes(kind, was) THEN [applied EXCEPT ![x] = Append(@, e)] ELSE applied
          /\ Become(w, [proc[w] EXCEPT !.pc = IF Enqueued(effect) THEN "relay" ELSE "ack"])
  /\ UNCHANGED <<transport, background, arrival, dropped, count>>

Conflict(w) ==
  /\ proc[w].pc = "route"
  /\ StoreConflict(proc[w].group, proc[w].version)
  /\ Become(w, [proc[w] EXCEPT !.pc = "nack"])
  /\ UNCHANGED <<store, transport, background, history, count>>
-----------------------------------------------------------------------------
(* The relay, _flush_flow: run by a worker after a commit that enqueued something, and by  *)
(* the caller of cancel().  It drains everybody's rows, so relays overlap.                 *)

Relaying(p, pc) == proc[p].pc = pc

Flushed(p) == IF p \in Worker THEN [proc[p] EXCEPT !.pc = "ack"] ELSE Idle
Aborted(p) == IF p \in Worker
              THEN [proc[p] EXCEPT !.pc = "nack", !.spawned = {}, !.load = {}, !.create = {}, !.todo = {}]
              ELSE Idle

ReadSpawns(p) ==
  /\ Relaying(p, "relay")
  /\ Become(p, [proc[p] EXCEPT !.pc = "readbox", !.spawned = spawns])
  /\ UNCHANGED <<store, transport, background, history, count>>

ReadOutbox(p) ==
  /\ Relaying(p, "readbox")
  /\ Become(p, IF proc[p].spawned = {} /\ outbox = {} THEN Flushed(p)
               ELSE [proc[p] EXCEPT !.pc = IF proc[p].spawned = {} THEN "publish" ELSE "create",
                                    !.load = proc[p].spawned, !.todo = outbox])
  /\ UNCHANGED <<store, transport, background, history, count>>

\* The children are created concurrently, each skipped if it is already there.
LoadChild(p, c) ==
  /\ Relaying(p, "create") /\ c \in proc[p].load
  /\ Become(p, [proc[p] EXCEPT !.load = @ \ {c}, !.create = IF Exists(c) THEN @ ELSE @ \cup {c}])
  /\ UNCHANGED <<store, transport, background, history, count>>

StartChild(c) ==
  \E status \in Outcome("Start", "PENDING") :
    \E effect \in Effects(c, NoEvent, status) :
      Commit(c, 0, status, effect.emits, NoEvent, effect.forks)

CreateChild(p, c) ==
  /\ Relaying(p, "create") /\ c \in proc[p].create
  /\ StartChild(c)
  /\ Become(p, [proc[p] EXCEPT !.create = @ \ {c}])
  /\ UNCHANGED <<transport, background, applied, arrival, dropped, count>>

\* One creation that loses the CAS raises out of the relay at once; the others go on.
CreateConflict(p, c) ==
  /\ Relaying(p, "create") /\ c \in proc[p].create
  /\ StoreConflict(c, 0)
  /\ background' = background \cup ((proc[p].load \cup proc[p].create) \ {c})
  /\ Become(p, Aborted(p))
  /\ UNCHANGED <<store, transport, history, count>>

BackgroundCreate(c) ==
  /\ c \in background
  /\ background' = background \ {c}
  /\ IF Exists(c) THEN UNCHANGED <<store, emitted, forked>> ELSE StartChild(c)
  /\ UNCHANGED <<transport, proc, applied, arrival, dropped, count>>

AckSpawn(p, c) ==
  /\ Relaying(p, "create") /\ proc[p].load = {} /\ proc[p].create = {}
  /\ c \in proc[p].spawned
  /\ spawns' = spawns \ {c}
  /\ Become(p, [proc[p] EXCEPT !.spawned = @ \ {c},
                               !.pc = IF proc[p].spawned # {c} THEN "create"
                                      ELSE IF proc[p].todo = {} THEN "relay" ELSE "publish"])
  /\ UNCHANGED <<exe, processed, outbox, outSeq, transport, background, history, count>>

IsLast(r, rows) == r \in rows /\ \A s \in rows : s.seq <= r.seq
IsFirst(r, rows) == r \in rows /\ \A s \in rows : r.seq <= s.seq

PublishNext(p) ==
  /\ Relaying(p, "publish")
  /\ \E r \in proc[p].todo : IsFirst(r, proc[p].todo) /\ Publish(r.to, r.event)
  /\ Become(p, [proc[p] EXCEPT !.pc = "ackbox"])
  /\ UNCHANGED <<store, background, applied, emitted, dropped, forked, count>>

AckNext(p) ==
  /\ Relaying(p, "ackbox")
  /\ \E r \in proc[p].todo :
       LET rest == proc[p].todo \ {r} IN
       /\ IsFirst(r, proc[p].todo)
       /\ outbox' = outbox \ {r}
       /\ Become(p, [proc[p] EXCEPT !.todo = rest, !.pc = IF rest = {} THEN "relay" ELSE "publish"])
  /\ UNCHANGED <<exe, processed, outSeq, spawns, transport, background, history, count>>
-----------------------------------------------------------------------------
(* Workers: ack and nack, found by the message's seq alone, whoever holds the lock now *)

Ack(w) ==
  /\ proc[w].pc = "ack"
  /\ Remove(proc[w].group, proc[w].seq)
  /\ Become(w, Idle)
  /\ UNCHANGED <<store, msgSeq, background, history, count>>

Nack(w) ==
  /\ proc[w].pc = "nack"
  /\ SetLock(proc[w].group, proc[w].seq, FALSE)
  /\ Become(w, Idle)
  /\ UNCHANGED <<store, msgSeq, background, history, count>>

\* nack with a delay: the lock stays, nobody's, until it runs out.
Park(w) ==
  /\ proc[w].pc = "park"
  /\ SetLock(proc[w].group, proc[w].seq, TRUE)
  /\ Become(w, Idle)
  /\ UNCHANGED <<store, msgSeq, background, history, count>>
-----------------------------------------------------------------------------
(* The environment: leases that run out, calls that raise, processes that stop *)

Holder(m) == \E w \in Worker : proc[w].pc # "idle" /\ proc[w].group = m.group /\ proc[w].seq = m.seq

LeaseEnds(m) ==
  /\ m \in messages /\ m.locked
  /\ Holder(m) => count.expiries < MaxExpiries
  /\ SetLock(m.group, m.seq, FALSE)
  /\ count' = [count EXCEPT !.expiries = IF Holder(m) THEN @ + 1 ELSE @]
  /\ UNCHANGED <<store, msgSeq, proc, background, history>>

\* The next call of p raises.  The worker's loop parks the message (if that is the call that
\* raised, the lease stays until it ends); a client's flow ends there.  Concurrent
\* creations and acks of a relay go on without it.
Fault(p) ==
  /\ proc[p].pc # "idle"
  /\ count.faults < MaxFaults
  /\ count' = [count EXCEPT !.faults = @ + 1]
  /\ Become(p, IF p \in Worker /\ proc[p].pc # "park" THEN [Aborted(p) EXCEPT !.pc = "park"] ELSE Idle)
  /\ IF proc[p].pc = "create"
     THEN \/ \E c \in proc[p].load \cup proc[p].create :
              /\ background' = background \cup ((proc[p].load \cup proc[p].create) \ {c})
              /\ UNCHANGED spawns
          \/ \E c \in proc[p].spawned :
              /\ proc[p].load = {} /\ proc[p].create = {}
              /\ spawns' \in {spawns, spawns \ (proc[p].spawned \ {c})}
              /\ UNCHANGED background
     ELSE UNCHANGED <<background, spawns>>
  /\ UNCHANGED <<exe, processed, outbox, outSeq, transport, history>>

\* The process stops; a new one starts in its place and knows nothing of it.
Crash(p) ==
  /\ proc[p].pc # "idle"
  /\ count.crashes < MaxCrashes
  /\ count' = [count EXCEPT !.crashes = @ + 1]
  /\ Become(p, Idle)
  /\ UNCHANGED <<store, transport, background, history>>
-----------------------------------------------------------------------------
Init ==
  /\ exe = [x \in Exec |-> [status |-> "PENDING", version |-> 0]]
  /\ processed = [x \in Exec |-> {}]
  /\ outbox = {} /\ outSeq = 0 /\ spawns = {}
  /\ messages = {} /\ msgSeq = [x \in Exec |-> 0]
  /\ proc = [p \in Process |-> Idle]
  /\ background = {}
  /\ applied = [x \in Exec |-> <<>>] /\ arrival = [x \in Exec |-> <<>>]
  /\ emitted = {} /\ dropped = {} /\ forked = {}
  /\ count = [sends |-> [e \in Event |-> 0], writes |-> 0, crashes |-> 0, faults |-> 0, expiries |-> 0]

\* What a process does once its flow has begun.
RelayStep(p) ==
  \/ ReadSpawns(p) \/ ReadOutbox(p) \/ PublishNext(p) \/ AckNext(p)
  \/ \E c \in Exec : LoadChild(p, c) \/ CreateChild(p, c) \/ CreateConflict(p, c) \/ AckSpawn(p, c)

ClientStep(p) ==
  \/ PublishDirect(p) \/ AckDirect(p) \/ CommandDone(p)
  \/ \E x \in Exec : SetStatus(p, x) \/ Propagate(p, x)

WorkerStep(w) ==
  \/ Load(w) \/ Dedupe(w) \/ Run(w) \/ Conflict(w) \/ Ack(w) \/ Nack(w) \/ Park(w)

Begin(p) ==
  \/ \E x \in Exec : CreateDeferred(p, x) \/ Suspend(p, x) \/ Resume(p, x) \/ Terminate(p, x)
                     \/ CancelForcefully(p, x)
  \/ \E x \in Exec, e \in Event : Create(p, x, e) \/ StartDeferred(p, x, e) \/ CancelCooperatively(p, x, e)
  \/ \E e \in Event : Send(p, e)

ClaimOf(w, g) == \E m \in Group(g) : Claim(w, m)
LeaseOf(g) == \E m \in Group(g) : LeaseEnds(m)

Next ==
  \/ \E p \in Client : Begin(p) \/ ClientStep(p)
  \/ \E w \in Worker : WorkerStep(w)
  \/ \E w \in Worker, g \in Exec : ClaimOf(w, g)
  \/ \E p \in Process : RelayStep(p) \/ Fault(p) \/ Crash(p)
  \/ \E g \in Exec : LeaseOf(g)
  \/ \E c \in Exec : BackgroundCreate(c)

Spec == Init /\ [][Next]_vars

\* A running process goes on; a lock runs out; an idle worker claims, the least recently
\* claimed group first, so that no group is passed over for ever.
Fairness ==
  /\ \A p \in Client : WF_vars(ClientStep(p))
  /\ \A w \in Worker : WF_vars(WorkerStep(w))
  /\ \A p \in Process : WF_vars(RelayStep(p))
  /\ \A g \in Exec : WF_vars(LeaseOf(g)) /\ SF_vars(\E w \in Worker : ClaimOf(w, g))

FairSpec == Spec /\ Fairness
-----------------------------------------------------------------------------
Count == [sends : [Event -> Nat], writes : Nat, crashes : Nat, faults : Nat, expiries : Nat]

\* Every variable keeps its type, and the flows' snapshots are of rows that were committed.
TypeOK ==
  /\ exe \in [Exec -> [status : Statuses, version : Nat]]
  /\ processed \in [Exec -> SUBSET Event]
  /\ outbox \subseteq OutboxRow /\ outSeq \in Nat /\ spawns \subseteq Exec
  /\ messages \subseteq Message /\ msgSeq \in [Exec -> Nat]
  /\ proc \in [Process -> Local] /\ background \subseteq Exec
  /\ applied \in [Exec -> Seq(Event)] /\ arrival \in [Exec -> Seq(Event)]
  /\ emitted \subseteq OutboxRow /\ dropped \subseteq Exec \X Event /\ forked \subseteq Exec
  /\ count \in Count

Precedes(s, d, e) == \E i, j \in DOMAIN s : i < j /\ s[i] = d /\ s[j] = e

\* The machine takes an event at most once, however often it is sent, relayed, redelivered
\* or handled by two workers whose leases overlap: the dedupe of handle_flow.
AtMostOnce == \A x \in Exec : \A i, j \in DOMAIN applied[x] : applied[x][i] = applied[x][j] => i = j

\* An execution takes its events in the order they reached its group: the transport's
\* single active consumer, through nacks, parks, crashes and leases that ran out.  (An event
\* dropped by its status and sent again arrives again.)
InOrder == \A x \in Exec : \A d, e \in Event :
  Precedes(applied[x], d, e) /\ d # e => Precedes(arrival[x], d, e) \/ <<x, d>> \in dropped \/ <<x, e>> \in dropped

\* Overlapping relays never publish the rows of one target out of commit order.  (A Start is
\* published by its caller, who looks at no other row.)
PublishedInCommitOrder == \A r, s \in emitted :
  r.to = s.to /\ r.seq < s.seq /\ KindOf[s.event] # "Start" /\ (\E i \in DOMAIN arrival[s.to] : arrival[s.to][i] = s.event)
    => Precedes(arrival[r.to], r.event, s.event)

\* A row is in the outbox, in the transport, processed by its target or acked by a rule of
\* handle_flow.
NoRowLost == \A r \in emitted :
  \/ r \in outbox
  \/ \E m \in Group(r.to) : m.event = r.event
  \/ r.event \in processed[r.to] \/ <<r.to, r.event>> \in dropped

\* A child whose spawn was committed is still to be created or was created: the relay acks a
\* spawn only once its child exists, whoever created it.
NoChildLost == \A c \in forked : c \in spawns \/ Exists(c)

\* Whatever a commit enqueued, rows for others and children to create, is still owed or was done.
NothingLost == NoRowLost /\ NoChildLost

\* A Cancel (or anything else) a parent emits to its child never reaches the transport
\* before the child exists: handle_flow would ack it as a message to nobody.
\* Refuted: a relay may read the spawns before a fork commits, and the outbox after it was left.
NeverToAnAbsentChild == \A c \in forked : Exists(c) \/ Group(c) = {}

\* When everything is quiet (no flow under way, no message queued), no event is left in the
\* outbox and no child uncreated: nobody would deliver the one or create the other.
DrainedWhenQuiet ==
  (\A p \in Process : proc[p] = Idle) /\ messages = {} /\ background = {}
    => outbox = {} /\ \A c \in spawns : Exists(c)

\* A CANCELLED execution stays as it is: a worker that loaded it before the command
\* commits on a stale version, so neither its status nor what it took changes again.
CancelledIsFinal ==
  [][\A x \in Exec : exe[x].status = "CANCELLED" => exe'[x] = exe[x] /\ applied'[x] = applied[x]]_vars

\* While CANCELLING, an execution takes the Cancel and nothing else, even from a worker
\* that loaded it while it was RUNNING.
CancellingTakesOnlyCancel ==
  [][\A x \in Exec : exe[x].status = "CANCELLING" /\ applied'[x] # applied[x]
       => KindOf[applied'[x][Len(applied'[x])]] = "Cancel"]_vars

\* A SUSPENDED execution takes nothing until it is resumed: a worker that loaded it while
\* it was RUNNING loses the CAS and parks the message.
SuspendedTakesNothing ==
  [][\A x \in Exec : exe[x].status = "SUSPENDED" => applied'[x] = applied[x]]_vars

\* What an execution takes is up to the status it has when the event is committed, not to the one a
\* worker loaded.
StatusesAdmit == SuspendedTakesNothing /\ CancellingTakesOnlyCancel

Handled(x, e) == e \in processed[x] \/ <<x, e>> \in dropped

\* Every event emitted, and every message a client sent, is eventually handled by its target
\* (or the target stays suspended).
MessagesAreHandled == \A x \in Exec, e \in Event :
  ((\E r \in emitted : r.to = x /\ r.event = e) \/ (\E m \in Group(x) : m.event = e))
    ~> (Handled(x, e) \/ exe[x].status = "SUSPENDED")
=============================================================================
