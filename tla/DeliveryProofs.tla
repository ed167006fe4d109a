--------------------------- MODULE DeliveryProofs ---------------------------
(***************************************************************************)
(* What Delivery guarantees for every set of executions, workers, clients  *)
(* and events, every Emits and Forks, and every bound: types, that an      *)
(* event is taken once, what a finished, suspended or cancelling execution *)
(* takes, and, in the second half, that nothing committed is lost and that *)
(* events are taken in order.                                              *)
(***************************************************************************)
EXTENDS Delivery, TLAPS

(* Types *)

\* The local variables of process p: a worker that handles a message knows whose it is and
\* which event; so does a client that publishes a Start.
LocalOK(p, local) ==
  /\ local \in Local
  /\ \/ p \in Worker /\ local.pc # "idle"
     \/ local.pc \in {"direct", "directack"}
     => local.group \in Exec /\ local.event \in Event

StoreOK ==
  /\ exe \in [Exec -> [status : Statuses, version : Nat]]
  /\ processed \in [Exec -> SUBSET Event]
  /\ outbox \subseteq OutboxRow /\ outSeq \in Nat /\ spawns \subseteq Exec
  /\ emitted \subseteq OutboxRow /\ forked \subseteq Exec

TransportOK ==
  /\ messages \subseteq Message /\ msgSeq \in [Exec -> Nat]
  /\ arrival \in [Exec -> Seq(Event)]

RestOK ==
  /\ background \subseteq Exec
  /\ applied \in [Exec -> Seq(Event)]
  /\ dropped \subseteq Exec \X Event
  /\ count \in Count

ProcOK ==
  /\ proc \in [Process -> Local]
  /\ \A p \in Process : LocalOK(p, proc[p])

Typed == StoreOK /\ TransportOK /\ RestOK /\ ProcOK

LEMMA TypedTypeOK == Typed => TypeOK
  BY DEF Typed, TypeOK, StoreOK, TransportOK, RestOK, ProcOK

LEMMA IdleOK == ASSUME NEW p PROVE LocalOK(p, Idle)
  BY DEF LocalOK, Idle, Local, Pcs, Statuses

LEMMA BecomeOK ==
  ASSUME ProcOK, NEW p \in Process, NEW local, LocalOK(p, local), Become(p, local)
  PROVE  ProcOK'
  BY DEF ProcOK, Become, LocalOK

LEMMA CountType ==
  ASSUME count \in Count
  PROVE  /\ \A e \in Event : [count EXCEPT !.sends[e] = @ + 1] \in Count
         /\ [count EXCEPT !.writes = @ + 1] \in Count
         /\ [count EXCEPT !.crashes = @ + 1] \in Count
         /\ [count EXCEPT !.faults = @ + 1] \in Count
         /\ [count EXCEPT !.expiries = @ + 1] \in Count
  <1>1. \A e \in Event : [count EXCEPT !.sends[e] = @ + 1] \in Count
    <2> TAKE e \in Event
    <2>1. count.sends \in [Event -> Nat]
      BY DEF Count
    <2>2. [count.sends EXCEPT ![e] = @ + 1] \in [Event -> Nat]
      BY <2>1
    <2>3. [count EXCEPT !.sends[e] = @ + 1] = [count EXCEPT !.sends = [count.sends EXCEPT ![e] = @ + 1]]
      BY DEF Count
    <2>4. QED
      BY <2>2, <2>3 DEF Count
  <1>2. QED
    BY <1>1 DEF Count

\* What a step leaves alone stays typed.
LEMMA StutterType ==
  /\ StoreOK /\ UNCHANGED <<store, emitted, forked>> => StoreOK'
  /\ TransportOK /\ UNCHANGED <<transport, arrival>> => TransportOK'
  /\ RestOK /\ UNCHANGED <<background, applied, dropped, count>> => RestOK'
  /\ ProcOK /\ UNCHANGED proc => ProcOK'
  BY DEF StoreOK, TransportOK, RestOK, ProcOK, store, transport

LEMMA NewRowsType ==
  ASSUME NEW emits \in Seq(Emission), outSeq \in Nat
  PROVE  NewRows(emits) \subseteq OutboxRow
  <1>1. \A i \in DOMAIN emits : i \in Nat /\ emits[i] \in Emission
    OBVIOUS
  <1>2. \A i \in DOMAIN emits : [seq |-> outSeq + i, to |-> emits[i].to, event |-> emits[i].event] \in OutboxRow
    BY <1>1 DEF OutboxRow, Emission
  <1>3. QED
    BY <1>2 DEF NewRows

\* A commit keeps the tables of the store well typed.
LEMMA CommitType ==
  ASSUME StoreOK, NEW x \in Exec, NEW version \in Nat, NEW status \in Statuses,
         NEW emits \in Seq(Emission), NEW event \in Event \cup {NoEvent}, NEW children \in SUBSET Exec,
         Commit(x, version, status, emits, event, children)
  PROVE  StoreOK'
  <1>1. NewRows(emits) \subseteq OutboxRow
    BY NewRowsType DEF StoreOK
  <1>2. Len(emits) \in Nat
    OBVIOUS
  <1>3. exe' \in [Exec -> [status : Statuses, version : Nat]]
    BY DEF Commit, StoreOK
  <1>4. processed' \in [Exec -> SUBSET Event]
    BY DEF Commit, StoreOK
  <1>5. QED
    BY <1>1, <1>2, <1>3, <1>4 DEF Commit, StoreOK

LEMMA PublishType ==
  ASSUME TransportOK, NEW g \in Exec, NEW e \in Event, Publish(g, e)
  PROVE  TransportOK'
  <1>1. msgSeq' \in [Exec -> Nat]
    BY DEF TransportOK, Publish
  <1>2. messages' \subseteq Message
    <2>1. msgSeq[g] + 1 \in Nat
      BY DEF TransportOK
    <2>2. [group |-> g, seq |-> msgSeq[g] + 1, event |-> e, locked |-> FALSE] \in Message
      BY <2>1 DEF Message
    <2>3. QED
      BY <2>2 DEF TransportOK, Publish
  <1>3. arrival' \in [Exec -> Seq(Event)]
    BY DEF TransportOK, Publish
  <1>4. QED
    BY <1>1, <1>2, <1>3 DEF TransportOK

LEMMA SetLockType ==
  ASSUME TransportOK, NEW g, NEW seq, NEW locked \in BOOLEAN, SetLock(g, seq, locked),
         UNCHANGED <<msgSeq, arrival>>
  PROVE  TransportOK'
  BY DEF TransportOK, SetLock, Message

LEMMA RemoveType ==
  ASSUME TransportOK, NEW g, NEW seq, Remove(g, seq), UNCHANGED <<msgSeq, arrival>>
  PROVE  TransportOK'
  BY DEF TransportOK, Remove

\* The tables of the machine give well-typed effects.
LEMMA EffectsType ==
  ASSUME NEW x \in Exec, NEW e \in Event \cup {NoEvent}, NEW status, NEW effect \in Effects(x, e, status)
  PROVE  effect.emits \in Seq(Emission) /\ effect.forks \in SUBSET Exec
  <1>1. Emits[x][e] \in Seq(Emission) /\ Forks[x][e] \in SUBSET Exec
    BY DeliveryAssumption
  <1>2. << >> \in Seq(Emission) /\ {} \in SUBSET Exec
    OBVIOUS
  <1>3. CASE effect = NoEffect
    BY <1>2, <1>3 DEF NoEffect
  <1>4. CASE effect = [emits |-> Emits[x][e], forks |-> Forks[x][e]]
    BY <1>1, <1>4
  <1>5. QED
    BY <1>3, <1>4 DEF Effects

LEMMA OutcomeType ==
  ASSUME NEW kind, NEW was, NEW status \in Outcome(kind, was)
  PROVE  status \in Statuses
  BY DEF Outcome, Statuses
-----------------------------------------------------------------------------
(* Each action keeps the types *)

LEMMA ClientTypes ==
  ASSUME Typed, NEW p \in Client, Begin(p) \/ ClientStep(p)
  PROVE  Typed'
  <1> USE DEF Typed
  <1>p. p \in Process /\ proc[p] \in Local /\ LocalOK(p, proc[p])
    BY DEF Process, ProcOK
  <1>s. "PENDING" \in Statuses /\ "CANCELLING" \in Statuses /\ "CANCELLED" \in Statuses
    BY DEF Statuses
  <1>r. ASSUME NEW x \in Exec, NEW e \in Event
        PROVE  <<[to |-> x, event |-> e]>> \in Seq(Emission) /\ LocalOK(p, [Idle EXCEPT !.pc = "direct", !.group = x, !.event = e])
    <2>1. [to |-> x, event |-> e] \in Emission
      BY DEF Emission
    <2>2. LocalOK(p, [Idle EXCEPT !.pc = "direct", !.group = x, !.event = e])
      BY DEF LocalOK, Idle, Local, Pcs, Statuses
    <2>3. QED
      BY <2>1, <2>2
  <1>z. {} \in SUBSET Exec /\ NoEvent \in Event \cup {NoEvent} /\ << >> \in Seq(Emission) /\ 0 \in Nat
    OBVIOUS
  <1>v. \A x \in Exec : exe[x].version \in Nat
    BY DEF StoreOK
  <1>1. ASSUME NEW x \in Exec, NEW e \in Event, Create(p, x, e) PROVE Typed'
    <2>1. StoreOK'
      BY <1>1, <1>s, <1>r, <1>z, CommitType DEF Create
    <2>2. ProcOK'
      BY <1>1, <1>p, <1>r, BecomeOK DEF Create
    <2>3. QED
      BY <1>1, <2>1, <2>2, StutterType DEF Create
  <1>2. ASSUME NEW x \in Exec, CreateDeferred(p, x) PROVE Typed'
    <2>1. StoreOK'
      BY <1>2, <1>s, <1>z, CommitType DEF CreateDeferred
    <2>2. QED
      BY <1>2, <2>1, StutterType DEF CreateDeferred
  <1>3. ASSUME NEW x \in Exec, NEW e \in Event, StartDeferred(p, x, e) PROVE Typed'
    <2>1. StoreOK'
      BY <1>3, <1>s, <1>r, <1>v, <1>z, CommitType DEF StartDeferred
    <2>2. ProcOK'
      BY <1>3, <1>p, <1>r, BecomeOK DEF StartDeferred
    <2>3. QED
      BY <1>3, <2>1, <2>2, StutterType DEF StartDeferred
  <1>4. CASE PublishDirect(p)
    <2>1. TransportOK'
      BY <1>4, <1>p, PublishType DEF PublishDirect, LocalOK
    <2>2. LocalOK(p, [proc[p] EXCEPT !.pc = "directack"])
      BY <1>4, <1>p DEF PublishDirect, LocalOK, Local, Pcs
    <2>3. ProcOK'
      BY <1>4, <1>p, <2>2, BecomeOK DEF PublishDirect
    <2>4. QED
      BY <1>4, <2>1, <2>3, StutterType DEF PublishDirect
  <1>5. CASE AckDirect(p)
    <2>1. StoreOK'
      BY <1>5 DEF AckDirect, StoreOK, history
    <2>2. ProcOK'
      BY <1>5, <1>p, IdleOK, BecomeOK DEF AckDirect
    <2>3. QED
      BY <1>5, <2>1, <2>2, StutterType DEF AckDirect, history
  <1>6. ASSUME NEW e \in Event, Send(p, e) PROVE Typed'
    <2>1. SentTo[e] \in Exec
      BY <1>6, DeliveryAssumption DEF Send
    <2>2. TransportOK'
      BY <1>6, <2>1, PublishType DEF Send
    <2>3. RestOK'
      BY <1>6, CountType DEF Send, RestOK
    <2>4. QED
      BY <1>6, <2>2, <2>3, StutterType DEF Send
  <1>7. ASSUME NEW x \in Exec, NEW seen, NEW status \in Statuses, NEW pc \in {"command", "cancel"},
               Look(p, x, seen, status, pc)
        PROVE  Typed'
    <2>1. LocalOK(p, [Idle EXCEPT !.pc = pc, !.group = x, !.status = status, !.load = {x}])
      BY DeliveryAssumption DEF LocalOK, Idle, Local, Pcs, Statuses
    <2>2. ProcOK'
      BY <1>7, <1>p, <2>1, BecomeOK DEF Look
    <2>3. RestOK'
      BY <1>7, CountType DEF Look, RestOK, history
    <2>4. QED
      BY <1>7, <2>2, <2>3, StutterType DEF Look, history
  <1>8. ASSUME NEW x \in Exec, Suspend(p, x) \/ Resume(p, x) \/ Terminate(p, x) \/ CancelForcefully(p, x)
        PROVE  Typed'
    BY <1>7, <1>8 DEF Suspend, Resume, Terminate, CancelForcefully, Statuses
  <1>9. ASSUME NEW x \in Exec, NEW e \in Event, CancelCooperatively(p, x, e) PROVE Typed'
    <2>1. StoreOK'
      BY <1>9, <1>s, <1>r, <1>v, <1>z, CommitType DEF CancelCooperatively
    <2>2. LocalOK(p, [Idle EXCEPT !.pc = "cancel", !.group = x, !.status = "CANCELLED", !.create = {x}])
      BY DeliveryAssumption DEF LocalOK, Idle, Local, Pcs, Statuses
    <2>3. ProcOK'
      BY <1>9, <1>p, <2>2, BecomeOK DEF CancelCooperatively
    <2>4. RestOK'
      BY <1>9, CountType DEF CancelCooperatively, RestOK
    <2>5. QED
      BY <1>9, <2>1, <2>3, <2>4, StutterType DEF CancelCooperatively
  <1>10. ASSUME NEW x \in Exec, SetStatus(p, x) PROVE Typed'
    <2>1. proc[p].status \in Statuses
      BY <1>p DEF Local
    <2>2. StoreOK'
      <3>1. CASE exe[x].status \in {"CANCELLED", "DONE"}
        BY <1>10, <3>1, StutterType DEF SetStatus
      <3>2. CASE exe[x].status \notin {"CANCELLED", "DONE"}
        <4>1. Commit(x, exe[x].version, proc[p].status, <<>>, NoEvent, {})
          BY <1>10, <3>2 DEF SetStatus
        <4>2. QED
          BY <4>1, <2>1, <1>v, <1>z, CommitType
      <3>3. QED
        BY <3>1, <3>2
    <2>3. LocalOK(p, [proc[p] EXCEPT !.load = @ \ {x}, !.create = @ \cup {x}])
      BY <1>p DEF LocalOK, Local
    <2>4. ProcOK'
      BY <1>10, <1>p, <2>3, BecomeOK DEF SetStatus
    <2>5. QED
      BY <1>10, <2>2, <2>4, StutterType DEF SetStatus
  <1>11. ASSUME NEW x \in Exec, Propagate(p, x) PROVE Typed'
    <2>1. LocalOK(p, [proc[p] EXCEPT !.create = @ \ {x}, !.load = @ \cup {c \in Children(x) : Exists(c)}])
      BY <1>p DEF LocalOK, Local, Children, StoreOK
    <2>2. ProcOK'
      BY <1>11, <1>p, <2>1, BecomeOK DEF Propagate
    <2>3. QED
      BY <1>11, <2>2, StutterType DEF Propagate, history
  <1>12. CASE CommandDone(p)
    <2>1. LocalOK(p, [Idle EXCEPT !.pc = "relay"])
      BY DeliveryAssumption DEF LocalOK, Idle, Local, Pcs, Statuses
    <2>2. ProcOK'
      BY <1>12, <1>p, <2>1, IdleOK, BecomeOK DEF CommandDone
    <2>3. QED
      BY <1>12, <2>2, StutterType DEF CommandDone, history
  <1>13. QED
    BY <1>1, <1>2, <1>3, <1>4, <1>5, <1>6, <1>8, <1>9, <1>10, <1>11, <1>12 DEF Begin, ClientStep

LEMMA WorkerTypes ==
  ASSUME Typed, NEW w \in Worker, WorkerStep(w)
  PROVE  Typed'
  <1> USE DEF Typed
  <1>p. w \in Process /\ proc[w] \in Local /\ LocalOK(w, proc[w])
    BY DEF Process, ProcOK
  <1>q. ASSUME NEW pc \in Pcs, proc[w].pc # "idle" PROVE LocalOK(w, [proc[w] EXCEPT !.pc = pc])
    BY <1>p, <1>q DEF LocalOK, Local
  <1>b. proc[w].pc # "idle" => proc[w].group \in Exec /\ proc[w].event \in Event
    BY <1>p DEF LocalOK
  <1>c. {"ack", "nack", "park", "route", "relay", "dedupe"} \subseteq Pcs
    BY DEF Pcs
  <1>1. CASE Load(w)
    <2>1. exe[proc[w].group] \in [status : Statuses, version : Nat] /\ proc[w].group \in Exec /\ proc[w].event \in Event
      BY <1>1, <1>b DEF Load, StoreOK
    <2>2. LocalOK(w, [proc[w] EXCEPT !.pc = "dedupe", !.status = exe[proc[w].group].status,
                                     !.version = exe[proc[w].group].version])
      BY <1>p, <2>1 DEF LocalOK, Local, Pcs
    <2>3. ProcOK'
      BY <1>1, <1>p, <1>q, <1>c, <2>2, BecomeOK DEF Load
    <2>4. RestOK'
      BY <1>1, <2>1 DEF Load, RestOK
    <2>5. QED
      BY <1>1, <2>3, <2>4, StutterType DEF Load
  <1>2. CASE Dedupe(w)
    <2>1. ProcOK'
      BY <1>2, <1>p, <1>q, <1>c, BecomeOK DEF Dedupe
    <2>2. RestOK'
      BY <1>2, <1>b DEF Dedupe, RestOK
    <2>3. QED
      BY <1>2, <2>1, <2>2, StutterType DEF Dedupe
  <1>3. CASE Run(w)
    <2> DEFINE x == proc[w].group
               e == proc[w].event
               kind == KindOf[e]
               was == proc[w].status
    <2>1. x \in Exec /\ e \in Event /\ was \in Statuses /\ proc[w].version \in Nat
      BY <1>3, <1>p, <1>b DEF Run, Local
    <2>2. PICK status \in IF Takes(kind, was) THEN Outcome(kind, was) ELSE {was} :
            \E effect \in IF Takes(kind, was) THEN Effects(x, e, status) ELSE {NoEffect} :
              /\ Commit(x, proc[w].version, status, effect.emits, e, effect.forks)
              /\ applied' = IF Takes(kind, was) THEN [applied EXCEPT ![x] = Append(@, e)] ELSE applied
              /\ Become(w, [proc[w] EXCEPT !.pc = IF Enqueued(effect) THEN "relay" ELSE "ack"])
      BY <1>3 DEF Run
    <2>3. PICK effect \in IF Takes(kind, was) THEN Effects(x, e, status) ELSE {NoEffect} :
              /\ Commit(x, proc[w].version, status, effect.emits, e, effect.forks)
              /\ applied' = IF Takes(kind, was) THEN [applied EXCEPT ![x] = Append(@, e)] ELSE applied
              /\ Become(w, [proc[w] EXCEPT !.pc = IF Enqueued(effect) THEN "relay" ELSE "ack"])
      BY <2>2
    <2>4. status \in Statuses
      BY <2>1, OutcomeType
    <2>5. effect \in Effects(x, e, status)
      BY <2>3 DEF Effects
    <2>6. effect.emits \in Seq(Emission) /\ effect.forks \in SUBSET Exec
      BY <2>1, <2>5, EffectsType
    <2>7. StoreOK'
      BY <2>1, <2>3, <2>4, <2>6, CommitType
    <2>8. ProcOK'
      BY <1>3, <1>p, <1>q, <1>c, <2>3, BecomeOK DEF Run
    <2>9. RestOK'
      BY <1>3, <2>1, <2>3 DEF Run, RestOK
    <2>10. QED
      BY <1>3, <2>7, <2>8, <2>9, StutterType DEF Run
  <1>4. CASE Conflict(w)
    <2>1. ProcOK'
      BY <1>4, <1>p, <1>q, <1>c, BecomeOK DEF Conflict
    <2>2. QED
      BY <1>4, <2>1, StutterType DEF Conflict, history
  <1>5. CASE Ack(w)
    <2>1. ProcOK'
      BY <1>5, <1>p, IdleOK, BecomeOK DEF Ack
    <2>2. TransportOK'
      BY <1>5, RemoveType DEF Ack, history
    <2>3. QED
      BY <1>5, <2>1, <2>2, StutterType DEF Ack, history
  <1>6. CASE Nack(w) \/ Park(w)
    <2>1. ProcOK'
      BY <1>6, <1>p, IdleOK, BecomeOK DEF Nack, Park
    <2>2. TransportOK'
      BY <1>6, SetLockType DEF Nack, Park, history
    <2>3. QED
      BY <1>6, <2>1, <2>2, StutterType DEF Nack, Park, history
  <1>7. QED
    BY <1>1, <1>2, <1>3, <1>4, <1>5, <1>6 DEF WorkerStep

LEMMA StartChildType ==
  ASSUME StoreOK, NEW c \in Exec, StartChild(c)
  PROVE  StoreOK'
  <1>1. PICK status \in Outcome("Start", "PENDING") :
          \E effect \in Effects(c, NoEvent, status) : Commit(c, 0, status, effect.emits, NoEvent, effect.forks)
    BY DEF StartChild
  <1>2. PICK effect \in Effects(c, NoEvent, status) : Commit(c, 0, status, effect.emits, NoEvent, effect.forks)
    BY <1>1
  <1>3. status \in Statuses
    BY OutcomeType
  <1>4. effect.emits \in Seq(Emission) /\ effect.forks \in SUBSET Exec
    BY EffectsType
  <1>5. 0 \in Nat /\ NoEvent \in Event \cup {NoEvent}
    OBVIOUS
  <1>6. QED
    BY <1>2, <1>3, <1>4, <1>5, CommitType

LEMMA RelayTypes ==
  ASSUME Typed, NEW p \in Process, RelayStep(p)
  PROVE  Typed'
  <1> USE DEF Typed
  <1>p. proc[p] \in Local /\ LocalOK(p, proc[p])
    BY DEF ProcOK
  <1>f. proc[p].pc # "idle" => LocalOK(p, Flushed(p)) /\ LocalOK(p, Aborted(p))
    <2>1. ASSUME p \in Worker, proc[p].pc # "idle" PROVE LocalOK(p, Flushed(p)) /\ LocalOK(p, Aborted(p))
      BY <1>p, <2>1 DEF LocalOK, Local, Pcs, Flushed, Aborted
    <2>2. QED
      BY <2>1, IdleOK DEF Flushed, Aborted
  <1>1. CASE ReadSpawns(p)
    <2>1. LocalOK(p, [proc[p] EXCEPT !.pc = "readbox", !.spawned = spawns])
      BY <1>1, <1>p DEF ReadSpawns, Relaying, LocalOK, Local, Pcs, StoreOK
    <2>2. ProcOK'
      BY <1>1, <2>1, BecomeOK DEF ReadSpawns
    <2>3. QED
      BY <1>1, <2>2, StutterType DEF ReadSpawns, history
  <1>2. CASE ReadOutbox(p)
    <2>1. \A pc \in {"publish", "create"} : LocalOK(p, [proc[p] EXCEPT !.pc = pc, !.load = proc[p].spawned, !.todo = outbox])
      BY <1>2, <1>p DEF ReadOutbox, Relaying, LocalOK, Local, Pcs, StoreOK
    <2>2. ProcOK'
      BY <1>2, <1>f, <2>1, BecomeOK DEF ReadOutbox, Relaying
    <2>3. QED
      BY <1>2, <2>2, StutterType DEF ReadOutbox, history
  <1>3. ASSUME NEW c \in Exec, LoadChild(p, c) PROVE Typed'
    <2>1. LocalOK(p, [proc[p] EXCEPT !.load = @ \ {c}, !.create = IF Exists(c) THEN @ ELSE @ \cup {c}])
      BY <1>p DEF LocalOK, Local
    <2>2. ProcOK'
      BY <1>3, <2>1, BecomeOK DEF LoadChild
    <2>3. QED
      BY <1>3, <2>2, StutterType DEF LoadChild, history
  <1>4. ASSUME NEW c \in Exec, CreateChild(p, c) PROVE Typed'
    <2>1. LocalOK(p, [proc[p] EXCEPT !.create = @ \ {c}])
      BY <1>p DEF LocalOK, Local
    <2>2. ProcOK'
      BY <1>4, <2>1, BecomeOK DEF CreateChild
    <2>3. StoreOK'
      BY <1>4, StartChildType DEF CreateChild
    <2>4. QED
      BY <1>4, <2>2, <2>3, StutterType DEF CreateChild
  <1>5. ASSUME NEW c \in Exec, CreateConflict(p, c) PROVE Typed'
    <2>1. ProcOK'
      BY <1>5, <1>f, BecomeOK DEF CreateConflict, Relaying
    <2>2. background' \subseteq Exec
      BY <1>5, <1>p DEF CreateConflict, RestOK, Local
    <2>3. RestOK'
      BY <1>5, <2>2 DEF CreateConflict, RestOK, history
    <2>4. QED
      BY <1>5, <2>1, <2>3, StutterType DEF CreateConflict, history
  <1>6. ASSUME NEW c \in Exec, AckSpawn(p, c) PROVE Typed'
    <2>1. \A pc \in {"create", "relay", "publish"} : LocalOK(p, [proc[p] EXCEPT !.spawned = @ \ {c}, !.pc = pc])
      BY <1>6, <1>p DEF AckSpawn, Relaying, LocalOK, Local, Pcs
    <2>2. ProcOK'
      BY <1>6, <2>1, BecomeOK DEF AckSpawn
    <2>3. StoreOK'
      BY <1>6 DEF AckSpawn, StoreOK, history
    <2>4. QED
      BY <1>6, <2>2, <2>3, StutterType DEF AckSpawn, history
  <1>7. CASE PublishNext(p)
    <2>1. PICK r \in proc[p].todo : Publish(r.to, r.event)
      BY <1>7 DEF PublishNext
    <2>2. r.to \in Exec /\ r.event \in Event
      BY <1>p, <2>1 DEF Local, OutboxRow
    <2>3. TransportOK'
      BY <2>1, <2>2, PublishType
    <2>4. LocalOK(p, [proc[p] EXCEPT !.pc = "ackbox"])
      BY <1>7, <1>p DEF PublishNext, Relaying, LocalOK, Local, Pcs
    <2>5. ProcOK'
      BY <1>7, <2>4, BecomeOK DEF PublishNext
    <2>6. QED
      BY <1>7, <2>3, <2>5, StutterType DEF PublishNext
  <1>8. CASE AckNext(p)
    <2>1. PICK r \in proc[p].todo :
            /\ outbox' = outbox \ {r}
            /\ Become(p, [proc[p] EXCEPT !.todo = proc[p].todo \ {r},
                                        !.pc = IF proc[p].todo \ {r} = {} THEN "relay" ELSE "publish"])
      BY <1>8 DEF AckNext
    <2>2. LocalOK(p, [proc[p] EXCEPT !.todo = proc[p].todo \ {r},
                                     !.pc = IF proc[p].todo \ {r} = {} THEN "relay" ELSE "publish"])
      BY <1>8, <1>p DEF AckNext, Relaying, LocalOK, Local, Pcs
    <2>3. ProcOK'
      BY <2>1, <2>2, BecomeOK
    <2>4. StoreOK'
      BY <1>8, <2>1 DEF AckNext, StoreOK, history
    <2>5. QED
      BY <1>8, <2>3, <2>4, StutterType DEF AckNext, history
  <1>9. QED
    BY <1>1, <1>2, <1>3, <1>4, <1>5, <1>6, <1>7, <1>8 DEF RelayStep

LEMMA EnvironmentTypes ==
  ASSUME Typed,
         \/ \E w \in Worker, g \in Exec : ClaimOf(w, g)
         \/ \E p \in Process : Fault(p) \/ Crash(p)
         \/ \E g \in Exec : LeaseOf(g)
         \/ \E c \in Exec : BackgroundCreate(c)
  PROVE  Typed'
  <1> USE DEF Typed
  <1>1. ASSUME NEW w \in Worker, NEW m \in messages, Claim(w, m) PROVE Typed'
    <2>1. m \in Message /\ w \in Process
      BY DEF TransportOK, Process
    <2>2. LocalOK(w, [Idle EXCEPT !.pc = "load", !.group = m.group, !.seq = m.seq, !.event = m.event])
      BY <2>1 DEF LocalOK, Idle, Local, Pcs, Statuses, Message
    <2>3. ProcOK'
      BY <1>1, <2>1, <2>2, BecomeOK DEF Claim
    <2>4. TransportOK'
      BY <1>1, SetLockType DEF Claim, history
    <2>5. QED
      BY <1>1, <2>3, <2>4, StutterType DEF Claim, history
  <1>2. ASSUME NEW p \in Process, Fault(p) PROVE Typed'
    <2>1. proc[p] \in Local /\ LocalOK(p, proc[p])
      BY DEF ProcOK
    <2>2. p \in Worker /\ proc[p].pc # "idle" => LocalOK(p, [Aborted(p) EXCEPT !.pc = "park"])
      BY <2>1 DEF LocalOK, Local, Pcs, Aborted
    <2>4. ProcOK'
      BY <1>2, <2>2, IdleOK, BecomeOK DEF Fault
    <2>5. background' \subseteq Exec /\ spawns' \subseteq Exec
      BY <1>2, <2>1 DEF Fault, RestOK, StoreOK, Local
    <2>6. StoreOK' /\ RestOK'
      BY <1>2, <2>5, CountType DEF Fault, StoreOK, RestOK, history
    <2>7. QED
      BY <1>2, <2>4, <2>6, StutterType DEF Fault, history
  <1>3. ASSUME NEW p \in Process, Crash(p) PROVE Typed'
    <2>1. ProcOK'
      BY <1>3, IdleOK, BecomeOK DEF Crash
    <2>2. RestOK'
      BY <1>3, CountType DEF Crash, RestOK, history
    <2>3. QED
      BY <1>3, <2>1, <2>2, StutterType DEF Crash, history
  <1>4. ASSUME NEW m, LeaseEnds(m) PROVE Typed'
    <2>1. TransportOK'
      BY <1>4, SetLockType DEF LeaseEnds, history
    <2>2. RestOK'
      <3>1. [count EXCEPT !.expiries = count.expiries] \in Count
        BY DEF RestOK, Count
      <3>2. count' \in Count
        BY <1>4, <3>1, CountType DEF LeaseEnds, RestOK
      <3>3. QED
        BY <1>4, <3>2 DEF LeaseEnds, RestOK, history
    <2>3. QED
      BY <1>4, <2>1, <2>2, StutterType DEF LeaseEnds, history
  <1>5. ASSUME NEW c \in Exec, BackgroundCreate(c) PROVE Typed'
    <2>1. StoreOK'
      BY <1>5, StartChildType, StutterType DEF BackgroundCreate
    <2>2. RestOK'
      BY <1>5 DEF BackgroundCreate, RestOK
    <2>3. QED
      BY <1>5, <2>1, <2>2, StutterType DEF BackgroundCreate
  <1>6. QED
    BY <1>1, <1>2, <1>3, <1>4, <1>5 DEF ClaimOf, LeaseOf, Group
-----------------------------------------------------------------------------
LEMMA TypedInit == Init => Typed
  <1> SUFFICES ASSUME Init PROVE Typed
    OBVIOUS
  <1>1. StoreOK
    BY DEF Init, StoreOK, Statuses
  <1>2. TransportOK
    BY DEF Init, TransportOK
  <1>3. RestOK
    BY DEF Init, RestOK, Count
  <1>4. ProcOK
    BY IdleOK DEF Init, ProcOK, LocalOK
  <1>5. QED
    BY <1>1, <1>2, <1>3, <1>4 DEF Typed

LEMMA TypedNext == Typed /\ [Next]_vars => Typed'
  <1> SUFFICES ASSUME Typed, [Next]_vars PROVE Typed'
    OBVIOUS
  <1>1. CASE UNCHANGED vars
    BY <1>1, StutterType DEF Typed, vars, history
  <1>2. CASE Next
    BY <1>2, ClientTypes, WorkerTypes, RelayTypes, EnvironmentTypes DEF Next
  <1>3. QED
    BY <1>1, <1>2

\* Every variable keeps its type, whatever processes interleave, fail or stop.
THEOREM TypeCorrect == Spec => []TypeOK
  <1>1. Spec => []Typed
    BY TypedInit, TypedNext, PTL DEF Spec
  <1>2. QED
    BY <1>1, TypedTypeOK, PTL
-----------------------------------------------------------------------------
(***************************************************************************)
(* What the dedupe and the CAS give together.  A record's version grows    *)
(* with every commit, so a worker whose snapshot still has the version of  *)
(* the record knows the record's status and that the event it loaded is    *)
(* not processed.                                                          *)
(***************************************************************************)

\* An event a machine took is recorded.
AppliedIsProcessed == \A x \in Exec : \A i \in DOMAIN applied[x] : applied[x][i] \in processed[x]

\* A record that does not exist is as it was at the start.
AbsentIsPending == \A x \in Exec : exe[x].version = 0 => exe[x].status = "PENDING"

\* A worker's snapshot is of some version up to the record's; of the same version, it is right.
SnapshotOK(w) == LET x == proc[w].group IN
  proc[w].pc \in {"dedupe", "route"} =>
    /\ 0 < proc[w].version /\ proc[w].version <= exe[x].version
    /\ proc[w].version = exe[x].version => proc[w].status = exe[x].status

\* What Dedupe checked of a worker that is about to run the machine.
Admitted(w) == LET x == proc[w].group IN
  proc[w].pc = "route" =>
    /\ ~Discards(KindOf[proc[w].event], proc[w].status) /\ proc[w].status # "SUSPENDED"
    /\ proc[w].version = exe[x].version => proc[w].event \notin processed[x]

IInv ==
  /\ Typed /\ AtMostOnce /\ AppliedIsProcessed /\ AbsentIsPending
  /\ \A w \in Worker : SnapshotOK(w) /\ Admitted(w)
-----------------------------------------------------------------------------
(* What a step does to the records *)

\* Each record stays as it is, or moves to the next version.
Moves == \A x \in Exec :
  /\ processed[x] \subseteq processed'[x]
  /\ \/ exe'[x] = exe[x] /\ processed'[x] = processed[x]
     \/ exe'[x].version = exe[x].version + 1

LEMMA CommitMoves ==
  ASSUME StoreOK, NEW x \in Exec, NEW version, NEW status, NEW emits, NEW event, NEW children,
         Commit(x, version, status, emits, event, children)
  PROVE  Moves
  BY DEF Commit, Moves, StoreOK

LEMMA StoreStutters == UNCHANGED <<exe, processed>> => Moves
  BY DEF Moves

\* Only Run extends what a machine took.
LEMMA StepMoves ==
  ASSUME Typed, [Next]_vars
  PROVE  Moves /\ (applied' = applied \/ \E w \in Worker : Run(w))
  <1> USE DEF Typed
  <1>1. CASE UNCHANGED vars
    BY <1>1, StoreStutters DEF vars, store, history
  <1>2. ASSUME NEW p \in Client, Begin(p) \/ ClientStep(p) PROVE Moves /\ applied' = applied
    <2>1. ASSUME NEW x \in Exec, NEW e \in Event, Create(p, x, e) \/ StartDeferred(p, x, e) \/ CancelCooperatively(p, x, e)
          PROVE  Moves /\ applied' = applied
      BY <2>1, CommitMoves DEF Create, StartDeferred, CancelCooperatively
    <2>2. ASSUME NEW x \in Exec, CreateDeferred(p, x) \/ SetStatus(p, x)
          PROVE  Moves /\ applied' = applied
      BY <2>2, CommitMoves, StoreStutters DEF CreateDeferred, SetStatus, store
    <2>3. ASSUME NEW x \in Exec, Suspend(p, x) \/ Resume(p, x) \/ Terminate(p, x) \/ CancelForcefully(p, x) \/ Propagate(p, x)
          PROVE  Moves /\ applied' = applied
      BY <2>3, StoreStutters DEF Suspend, Resume, Terminate, CancelForcefully, Propagate, Look, store, history
    <2>4. ASSUME NEW e \in Event, Send(p, e) PROVE Moves /\ applied' = applied
      BY <2>4, StoreStutters DEF Send, store
    <2>5. CASE PublishDirect(p) \/ AckDirect(p) \/ CommandDone(p)
      BY <2>5, StoreStutters DEF PublishDirect, AckDirect, CommandDone, store, history
    <2>6. QED
      BY <1>2, <2>1, <2>2, <2>3, <2>4, <2>5 DEF Begin, ClientStep
  <1>3. ASSUME NEW w \in Worker, Run(w) PROVE Moves
    <2>1. proc[w].group \in Exec
      BY <1>3 DEF Run, ProcOK, LocalOK, Process
    <2>2. QED
      BY <1>3, <2>1, CommitMoves DEF Run
  <1>4. ASSUME NEW w \in Worker, WorkerStep(w), ~Run(w) PROVE Moves /\ applied' = applied
    BY <1>4, StoreStutters DEF WorkerStep, Load, Dedupe, Conflict, Ack, Nack, Park, store, history
  <1>5. ASSUME NEW c \in Exec, StartChild(c) PROVE Moves
    BY <1>5, CommitMoves DEF StartChild
  <1>6. ASSUME NEW p \in Process, RelayStep(p) PROVE Moves /\ applied' = applied
    <2>1. ASSUME NEW c \in Exec, CreateChild(p, c) PROVE Moves /\ applied' = applied
      BY <2>1, <1>5 DEF CreateChild
    <2>2. ASSUME NEW c \in Exec, LoadChild(p, c) \/ CreateConflict(p, c) \/ AckSpawn(p, c) PROVE Moves /\ applied' = applied
      BY <2>2, StoreStutters DEF LoadChild, CreateConflict, AckSpawn, store, history
    <2>3. CASE ReadSpawns(p) \/ ReadOutbox(p) \/ PublishNext(p) \/ AckNext(p)
      BY <2>3, StoreStutters DEF ReadSpawns, ReadOutbox, PublishNext, AckNext, store, history
    <2>4. QED
      BY <1>6, <2>1, <2>2, <2>3 DEF RelayStep
  <1>7. ASSUME NEW c \in Exec, BackgroundCreate(c) PROVE Moves /\ applied' = applied
    BY <1>7, <1>5, StoreStutters DEF BackgroundCreate, store
  <1>8. ASSUME NEW w, NEW m, Claim(w, m) \/ LeaseEnds(m) PROVE Moves /\ applied' = applied
    BY <1>8, StoreStutters DEF Claim, LeaseEnds, store, history
  <1>9. ASSUME NEW p, Fault(p) \/ Crash(p) PROVE Moves /\ applied' = applied
    BY <1>9, StoreStutters DEF Fault, Crash, store, history
  <1>10. QED
    BY <1>1, <1>2, <1>3, <1>4, <1>6, <1>7, <1>8, <1>9 DEF Next, ClaimOf, LeaseOf, WorkerStep
-----------------------------------------------------------------------------
(* What a step does to a worker that holds a snapshot *)

LEMMA WorkerMoves ==
  ASSUME Typed, Next, NEW w \in Worker
  PROVE  \/ proc'[w] = proc[w]
         \/ Load(w)
         \/ Dedupe(w)
         \/ proc'[w].pc \notin {"dedupe", "route"}
  <1> USE DEF Typed
  <1>w. w \in Process /\ w \notin Client /\ proc[w] \in Local
    BY DeliveryAssumption DEF Process, ProcOK
  <1>b. ASSUME NEW p \in Process, NEW local, Become(p, local), p # w \/ local.pc \notin {"dedupe", "route"}
        PROVE  proc'[w] = proc[w] \/ proc'[w].pc \notin {"dedupe", "route"}
    BY <1>w, <1>b DEF Become, ProcOK
  <1>i. Idle.pc = "idle"
    BY DEF Idle
  <1>1. ASSUME NEW p \in Client, Begin(p) \/ ClientStep(p) PROVE proc'[w] = proc[w]
    <2>1. p # w
      BY <1>w
    <2>2. UNCHANGED proc \/ \E local : Become(p, local)
      BY <1>1 DEF Begin, ClientStep, Create, CreateDeferred, StartDeferred, PublishDirect, AckDirect, Send, Suspend,
                  Resume, Terminate, CancelForcefully, Look, CancelCooperatively, SetStatus, Propagate, CommandDone
    <2>3. QED
      BY <1>w, <2>1, <2>2 DEF Become, ProcOK
  <1>2. ASSUME NEW v \in Worker, v # w, WorkerStep(v) PROVE proc'[w] = proc[w]
    <2>1. \E local : Become(v, local)
      BY <1>2 DEF WorkerStep, Load, Dedupe, Run, Conflict, Ack, Nack, Park
    <2>2. QED
      BY <1>2, <1>w, <2>1 DEF Become, ProcOK
  <1>3. ASSUME Run(w) \/ Conflict(w) \/ Ack(w) \/ Nack(w) \/ Park(w)
        PROVE  proc'[w].pc \notin {"dedupe", "route"}
    <2>1. \E pc \in {"ack", "nack", "relay"} : Become(w, [proc[w] EXCEPT !.pc = pc]) \/ Become(w, Idle)
      BY <1>3 DEF Run, Conflict, Ack, Nack, Park
    <2>2. QED
      BY <1>w, <1>i, <2>1 DEF Become, ProcOK, Local
  <1>4. ASSUME NEW v \in Worker, NEW m, Claim(v, m) PROVE proc'[w] = proc[w] \/ proc'[w].pc \notin {"dedupe", "route"}
    <2>1. [Idle EXCEPT !.pc = "load", !.group = m.group, !.seq = m.seq, !.event = m.event].pc = "load"
      BY DEF Idle
    <2>2. QED
      BY <1>4, <1>w, <2>1 DEF Claim, Become, ProcOK
  <1>5. ASSUME NEW p \in Process, RelayStep(p) PROVE proc'[w] = proc[w] \/ proc'[w].pc \notin {"dedupe", "route"}
    <2>1. proc[p] \in Local
      BY DEF ProcOK
    <2>2. Flushed(p).pc \notin {"dedupe", "route"} /\ Aborted(p).pc \notin {"dedupe", "route"}
      BY <2>1, <1>i DEF Flushed, Aborted, Local
    <2>3. \E local : Become(p, local)
      BY <1>5 DEF RelayStep, ReadSpawns, ReadOutbox, PublishNext, AckNext, LoadChild, CreateChild, CreateConflict, AckSpawn
    <2>4. proc'[p].pc \notin {"dedupe", "route"}
      <3>0. \A local : Become(p, local) => proc'[p] = local
        BY DEF Become, ProcOK
      <3>1. CASE ReadSpawns(p)
        BY <3>1, <3>0, <2>1 DEF ReadSpawns, Relaying, Local
      <3>2. CASE ReadOutbox(p)
        BY <3>2, <3>0, <2>1, <2>2 DEF ReadOutbox, Relaying, Local
      <3>3. CASE PublishNext(p)
        BY <3>3, <3>0, <2>1 DEF PublishNext, Relaying, Local
      <3>4. CASE AckNext(p)
        BY <3>4, <3>0, <2>1 DEF AckNext, Relaying, Local
      <3>5. ASSUME NEW c \in Exec, LoadChild(p, c) PROVE proc'[p].pc \notin {"dedupe", "route"}
        BY <3>5, <3>0, <2>1 DEF LoadChild, Relaying, Local
      <3>6. ASSUME NEW c \in Exec, CreateChild(p, c) PROVE proc'[p].pc \notin {"dedupe", "route"}
        BY <3>6, <3>0, <2>1 DEF CreateChild, Relaying, Local
      <3>7. ASSUME NEW c \in Exec, CreateConflict(p, c) PROVE proc'[p].pc \notin {"dedupe", "route"}
        BY <3>7, <3>0, <2>1, <2>2 DEF CreateConflict, Relaying, Local
      <3>8. ASSUME NEW c \in Exec, AckSpawn(p, c) PROVE proc'[p].pc \notin {"dedupe", "route"}
        BY <3>8, <3>0, <2>1 DEF AckSpawn, Relaying, Local
      <3>9. QED
        BY <1>5, <3>1, <3>2, <3>3, <3>4, <3>5, <3>6, <3>7, <3>8 DEF RelayStep
    <2>5. QED
      BY <1>w, <2>3, <2>4 DEF Become, ProcOK
  <1>6. ASSUME NEW p \in Process, Fault(p) \/ Crash(p) PROVE proc'[w] = proc[w] \/ proc'[w].pc \notin {"dedupe", "route"}
    <2>1. proc[p] \in Local
      BY DEF ProcOK
    <2>2. [Aborted(p) EXCEPT !.pc = "park"].pc \notin {"dedupe", "route"}
      BY <2>1 DEF Aborted, Local, Idle
    <2>3. \E local : Become(p, local) /\ local.pc \notin {"dedupe", "route"}
      BY <1>6, <1>i, <2>2 DEF Fault, Crash
    <2>4. QED
      BY <1>b, <2>3
  <1>7. ASSUME (\E c \in Exec : BackgroundCreate(c)) \/ (\E g \in Exec : LeaseOf(g)) PROVE proc'[w] = proc[w]
    BY <1>7 DEF BackgroundCreate, LeaseOf, LeaseEnds
  <1>8. QED
    BY <1>1, <1>2, <1>3, <1>4, <1>5, <1>6, <1>7 DEF Next, ClaimOf, WorkerStep
-----------------------------------------------------------------------------
(* A worker that commits: the record is as it loaded it, and the event is new *)

LEMMA RunAdmitted ==
  ASSUME IInv, NEW w \in Worker, Run(w)
  PROVE  LET x == proc[w].group
             e == proc[w].event
         IN /\ x \in Exec /\ e \in Event
            /\ e \notin processed[x]
            /\ ~Discards(KindOf[e], exe[x].status) /\ exe[x].status # "SUSPENDED"
            /\ processed' = [processed EXCEPT ![x] = @ \cup {e}]
            /\ applied' = applied \/ applied' = [applied EXCEPT ![x] = Append(@, e)]
  <1> DEFINE x == proc[w].group
             e == proc[w].event
  <1>1. x \in Exec /\ e \in Event /\ proc[w].pc = "route"
    BY DEF Run, IInv, Typed, ProcOK, LocalOK, Process
  <1>2. exe[x].version = proc[w].version
    BY DEF Run, Commit
  <1>3. exe[x].status = proc[w].status /\ e \notin processed[x]
    BY <1>1, <1>2 DEF IInv, SnapshotOK, Admitted
  <1>4. ~Discards(KindOf[e], exe[x].status) /\ exe[x].status # "SUSPENDED"
    BY <1>1, <1>3 DEF IInv, Admitted
  <1>5. e # NoEvent
    BY <1>1, DeliveryAssumption
  <1>6. processed' = [processed EXCEPT ![x] = @ \cup {e}]
    BY <1>5 DEF Run, Commit
  <1>7. applied' = applied \/ applied' = [applied EXCEPT ![x] = Append(@, e)]
    BY DEF Run
  <1>8. QED
    BY <1>1, <1>3, <1>4, <1>6, <1>7

LEMMA AppliedNext ==
  ASSUME IInv, [Next]_vars
  PROVE  AtMostOnce' /\ AppliedIsProcessed'
  <1>m. Moves /\ (applied' = applied \/ \E w \in Worker : Run(w))
    BY StepMoves DEF IInv
  <1>1. CASE applied' = applied
    <2>1. AtMostOnce'
      BY <1>1 DEF IInv, AtMostOnce
    <2>2. AppliedIsProcessed'
      BY <1>1, <1>m DEF IInv, AppliedIsProcessed, Moves
    <2>3. QED
      BY <2>1, <2>2
  <1>2. ASSUME NEW w \in Worker, Run(w), applied' # applied PROVE AtMostOnce' /\ AppliedIsProcessed'
    <2> DEFINE x == proc[w].group
               e == proc[w].event
    <2>1. /\ x \in Exec /\ e \in Event /\ e \notin processed[x]
          /\ processed' = [processed EXCEPT ![x] = @ \cup {e}]
          /\ applied' = [applied EXCEPT ![x] = Append(@, e)]
      BY <1>2, RunAdmitted
    <2>2. applied \in [Exec -> Seq(Event)] /\ processed \in [Exec -> SUBSET Event]
      BY DEF IInv, Typed, RestOK, StoreOK
    <2> HIDE DEF x, e
    <2>3. ASSUME NEW y \in Exec, y # x
          PROVE  applied'[y] = applied[y] /\ processed'[y] = processed[y]
      BY <2>1, <2>2, <2>3
    <2>4. applied'[x] = Append(applied[x], e) /\ processed'[x] = processed[x] \cup {e}
      BY <2>1, <2>2
    <2>5. \A i \in DOMAIN applied[x] : applied[x][i] \in processed[x] /\ applied[x][i] # e
      BY <2>1 DEF IInv, AppliedIsProcessed
    <2>6. /\ DOMAIN applied'[x] = DOMAIN applied[x] \cup {Len(applied[x]) + 1}
          /\ applied'[x][Len(applied[x]) + 1] = e
          /\ \A i \in DOMAIN applied[x] : applied'[x][i] = applied[x][i]
      <3>1. applied[x] \in Seq(Event)
        BY <2>1, <2>2
      <3>2. QED
        BY <2>4, <2>1, <3>1
    <2>7. AtMostOnce'
      BY <2>1, <2>3, <2>5, <2>6 DEF IInv, AtMostOnce
    <2>8. AppliedIsProcessed'
      BY <2>1, <2>3, <2>4, <2>5, <2>6 DEF IInv, AppliedIsProcessed
    <2>9. QED
      BY <2>7, <2>8
  <1>3. QED
    BY <1>m, <1>1, <1>2

LEMMA SnapshotNext ==
  ASSUME IInv, [Next]_vars, NEW w \in Worker
  PROVE  SnapshotOK(w)' /\ Admitted(w)'
  <1>m. Moves
    BY StepMoves DEF IInv
  <1>t. exe \in [Exec -> [status : Statuses, version : Nat]] /\ proc[w] \in Local /\ w \in Process
    BY DEF IInv, Typed, StoreOK, ProcOK, Process
  <1>g. proc[w].pc # "idle" => proc[w].group \in Exec
    BY <1>t DEF IInv, Typed, ProcOK, LocalOK
  <1>0. SnapshotOK(w) /\ Admitted(w)
    BY DEF IInv
  <1>k. ASSUME proc'[w] = proc[w] PROVE SnapshotOK(w)' /\ Admitted(w)'
    <2>1. CASE proc[w].pc \notin {"dedupe", "route"}
      BY <1>k, <2>1 DEF SnapshotOK, Admitted
    <2>2. CASE proc[w].pc \in {"dedupe", "route"}
      <3> DEFINE x == proc[w].group
      <3>1. x \in Exec
        BY <1>g, <2>2
      <3>2. CASE exe'[x] = exe[x] /\ processed'[x] = processed[x]
        BY <1>k, <1>0, <3>2 DEF SnapshotOK, Admitted
      <3>3. CASE exe'[x].version = exe[x].version + 1
        <4>1. exe[x].version \in Nat /\ proc[w].version \in Nat
          BY <1>t, <3>1 DEF Local
        <4>2. exe'[x].version # proc[w].version /\ proc[w].version <= exe'[x].version
          BY <1>0, <2>2, <3>3, <4>1 DEF SnapshotOK
        <4>3. QED
          BY <1>k, <1>0, <2>2, <4>2 DEF SnapshotOK, Admitted
      <3>4. QED
        BY <1>m, <3>1, <3>2, <3>3 DEF Moves
    <2>3. QED
      BY <2>1, <2>2
  <1>1. CASE UNCHANGED vars
    BY <1>1, <1>k DEF vars
  <1>2. CASE Load(w)
    <2> DEFINE x == proc[w].group
    <2>1. x \in Exec /\ exe[x].version \in Nat /\ exe' = exe
      BY <1>2, <1>g, <1>t DEF Load, store
    <2>2. CASE ~Exists(x)
      <3>1. proc'[w].pc = "ack"
        BY <1>2, <1>t, <2>2 DEF Load, Become, IInv, Typed, ProcOK, Local
      <3>2. QED
        BY <3>1 DEF SnapshotOK, Admitted
    <2>3. CASE Exists(x)
      <3>1. proc'[w] = [proc[w] EXCEPT !.pc = "dedupe", !.status = exe[x].status, !.version = exe[x].version]
        BY <1>2, <1>t, <2>3 DEF Load, Become, IInv, Typed, ProcOK
      <3>2. proc'[w].pc = "dedupe" /\ proc'[w].group = x /\ proc'[w].status = exe[x].status /\ proc'[w].version = exe[x].version
        BY <3>1, <1>t DEF Local
      <3>3. QED
        BY <2>1, <2>3, <3>2 DEF SnapshotOK, Admitted, Exists
    <2>4. QED
      BY <2>2, <2>3
  <1>3. CASE Dedupe(w)
    <2> DEFINE x == proc[w].group
               e == proc[w].event
    <2>1. exe' = exe /\ processed' = processed
      BY <1>3 DEF Dedupe, store
    <2>2. /\ proc'[w].group = x /\ proc'[w].event = e
          /\ proc'[w].status = proc[w].status /\ proc'[w].version = proc[w].version
          /\ proc'[w].pc \in {"ack", "park", "route"}
      BY <1>3, <1>t DEF Dedupe, Become, IInv, Typed, ProcOK, Local
    <2>3. proc'[w].pc = "route" =>
            /\ e \notin processed[x] /\ ~Discards(KindOf[e], proc[w].status) /\ proc[w].status # "SUSPENDED"
      BY <1>3, <1>t DEF Dedupe, Parks, Become, IInv, Typed, ProcOK, Local
    <2>4. proc[w].pc = "dedupe"
      BY <1>3 DEF Dedupe
    <2>5. QED
      BY <1>0, <2>1, <2>2, <2>3, <2>4 DEF SnapshotOK, Admitted
  <1>4. CASE proc'[w].pc \notin {"dedupe", "route"}
    BY <1>4 DEF SnapshotOK, Admitted
  <1>5. QED
    BY <1>k, <1>1, <1>2, <1>3, <1>4, WorkerMoves DEF IInv

LEMMA IInvInit == Init => IInv
  <1> SUFFICES ASSUME Init PROVE IInv
    OBVIOUS
  <1>1. AtMostOnce /\ AppliedIsProcessed /\ AbsentIsPending
    BY DEF Init, AtMostOnce, AppliedIsProcessed, AbsentIsPending
  <1>2. ASSUME NEW w \in Worker PROVE SnapshotOK(w) /\ Admitted(w)
    BY DEF Init, SnapshotOK, Admitted, Process, Idle
  <1>3. QED
    BY <1>1, <1>2, TypedInit DEF IInv

LEMMA IInvNext == IInv /\ [Next]_vars => IInv'
  <1> SUFFICES ASSUME IInv, [Next]_vars PROVE IInv'
    OBVIOUS
  <1>1. Typed'
    BY TypedNext DEF IInv
  <1>2. AbsentIsPending'
    <2>1. Moves /\ \A x \in Exec : exe[x].version \in Nat
      BY StepMoves DEF IInv, Typed, StoreOK
    <2>2. QED
      BY <2>1 DEF IInv, AbsentIsPending, Moves
  <1>3. QED
    BY <1>1, <1>2, AppliedNext, SnapshotNext DEF IInv

LEMMA IInvAlways == Spec => []IInv
  BY IInvInit, IInvNext, PTL DEF Spec

\* A machine takes an event at most once: duplicates sent by clients, rows published by two
\* relays, redeliveries after a crash and leases that overlap all end in the dedupe.
THEOREM TakenAtMostOnce == Spec => []AtMostOnce
  BY IInvAlways, PTL DEF IInv
-----------------------------------------------------------------------------
(* What the status of an execution forbids *)

LEMMA CommitElsewhere ==
  ASSUME StoreOK, NEW x \in Exec, NEW y \in Exec, x # y,
         NEW version, NEW status, NEW emits, NEW event, NEW children,
         Commit(y, version, status, emits, event, children)
  PROVE  exe'[x] = exe[x]
  BY DEF Commit, StoreOK

LEMMA CancelledRecordStays ==
  ASSUME IInv, [Next]_vars, NEW x \in Exec, exe[x].status = "CANCELLED"
  PROVE  exe'[x] = exe[x]
  <1>s. StoreOK
    BY DEF IInv, Typed
  <1>e. exe[x].version # 0
    BY DEF IInv, AbsentIsPending
  <1>1. CASE UNCHANGED <<exe>>
    BY <1>1
  <1>2. ASSUME NEW p \in Client, Begin(p) \/ ClientStep(p) PROVE exe'[x] = exe[x]
    <2>1. ASSUME NEW y \in Exec, NEW e \in Event, Create(p, y, e) \/ StartDeferred(p, y, e) \/ CancelCooperatively(p, y, e)
          PROVE  exe'[x] = exe[x]
      <3>1. y # x
        BY <2>1, <1>e, <1>s DEF Create, StartDeferred, CancelCooperatively, Exists, StoreOK
      <3>2. QED
        BY <2>1, <1>s, <3>1, CommitElsewhere DEF Create, StartDeferred, CancelCooperatively
    <2>2. ASSUME NEW y \in Exec, CreateDeferred(p, y) PROVE exe'[x] = exe[x]
      <3>1. y # x
        BY <2>2, <1>e, <1>s DEF CreateDeferred, Exists, StoreOK
      <3>2. QED
        BY <2>2, <1>s, <3>1, CommitElsewhere DEF CreateDeferred
    <2>3. ASSUME NEW y \in Exec, SetStatus(p, y) PROVE exe'[x] = exe[x]
      <3>1. CASE exe[y].status \in {"CANCELLED", "DONE"}
        BY <2>3, <3>1 DEF SetStatus, store
      <3>2. CASE exe[y].status \notin {"CANCELLED", "DONE"}
        BY <2>3, <3>2, <1>s, CommitElsewhere DEF SetStatus
      <3>3. QED
        BY <3>1, <3>2
    <2>4. ASSUME NEW y \in Exec, Suspend(p, y) \/ Resume(p, y) \/ Terminate(p, y) \/ CancelForcefully(p, y) \/ Propagate(p, y)
          PROVE  exe'[x] = exe[x]
      BY <2>4 DEF Suspend, Resume, Terminate, CancelForcefully, Propagate, Look, store
    <2>5. ASSUME NEW e \in Event, Send(p, e) PROVE exe'[x] = exe[x]
      BY <2>5 DEF Send, store
    <2>6. CASE PublishDirect(p) \/ AckDirect(p) \/ CommandDone(p)
      BY <2>6 DEF PublishDirect, AckDirect, CommandDone, store
    <2>7. QED
      BY <1>2, <2>1, <2>2, <2>3, <2>4, <2>5, <2>6 DEF Begin, ClientStep
  <1>3. ASSUME NEW w \in Worker, Run(w) PROVE exe'[x] = exe[x]
    <2>1. proc[w].group \in Exec /\ proc[w].group # x
      BY <1>3, RunAdmitted DEF Discards
    <2>2. QED
      BY <1>3, <1>s, <2>1, CommitElsewhere DEF Run
  <1>4. ASSUME NEW c \in Exec, StartChild(c) PROVE exe'[x] = exe[x]
    <2>1. c # x
      BY <1>4, <1>e DEF StartChild, Commit
    <2>2. QED
      BY <1>4, <1>s, <2>1, CommitElsewhere DEF StartChild
  <1>5. ASSUME NEW w \in Worker, WorkerStep(w), ~Run(w) PROVE exe'[x] = exe[x]
    BY <1>5 DEF WorkerStep, Load, Dedupe, Conflict, Ack, Nack, Park, store
  <1>6. ASSUME NEW p \in Process, RelayStep(p) PROVE exe'[x] = exe[x]
    <2>1. ASSUME NEW c \in Exec, CreateChild(p, c) PROVE exe'[x] = exe[x]
      BY <2>1, <1>4 DEF CreateChild
    <2>2. ASSUME ~\E c \in Exec : CreateChild(p, c) PROVE exe'[x] = exe[x]
      BY <1>6, <2>2 DEF RelayStep, ReadSpawns, ReadOutbox, PublishNext, AckNext, LoadChild, CreateConflict, AckSpawn, store
    <2>3. QED
      BY <2>1, <2>2
  <1>7. ASSUME NEW c \in Exec, BackgroundCreate(c) PROVE exe'[x] = exe[x]
    BY <1>7, <1>4 DEF BackgroundCreate, store
  <1>8. ASSUME NEW w, NEW m, Claim(w, m) \/ LeaseEnds(m) PROVE exe'[x] = exe[x]
    BY <1>8 DEF Claim, LeaseEnds, store
  <1>9. ASSUME NEW p, Fault(p) \/ Crash(p) PROVE exe'[x] = exe[x]
    BY <1>9 DEF Fault, Crash, store
  <1>10. CASE UNCHANGED vars
    BY <1>10 DEF vars, store
  <1>11. QED
    BY <1>2, <1>3, <1>5, <1>6, <1>7, <1>8, <1>9, <1>10 DEF Next, ClaimOf, LeaseOf, WorkerStep

\* What an execution takes in a step, and the status it had.
LEMMA TakesByStatus ==
  ASSUME IInv, [Next]_vars, NEW x \in Exec, applied'[x] # applied[x]
  PROVE  \E e \in Event : /\ applied'[x] = Append(applied[x], e)
                         /\ ~Discards(KindOf[e], exe[x].status) /\ exe[x].status # "SUSPENDED"
  <1>1. PICK w \in Worker : Run(w)
    BY StepMoves DEF IInv
  <1>2. applied \in [Exec -> Seq(Event)]
    BY DEF IInv, Typed, RestOK
  <1>3. proc[w].group = x /\ applied' = [applied EXCEPT ![x] = Append(@, proc[w].event)]
    BY <1>1, <1>2, RunAdmitted
  <1>4. QED
    BY <1>1, <1>2, <1>3, RunAdmitted

\* A CANCELLED execution never changes again, whoever loaded it before.
THEOREM CancelledStays == Spec => CancelledIsFinal
  <1>1. IInv /\ [Next]_vars =>
          [\A x \in Exec : exe[x].status = "CANCELLED" => exe'[x] = exe[x] /\ applied'[x] = applied[x]]_vars
    BY CancelledRecordStays, TakesByStatus DEF Discards
  <1>2. QED
    BY <1>1, IInvAlways, PTL DEF Spec, CancelledIsFinal

\* A SUSPENDED execution takes nothing.
THEOREM SuspendedStays == Spec => SuspendedTakesNothing
  <1>1. IInv /\ [Next]_vars => [\A x \in Exec : exe[x].status = "SUSPENDED" => applied'[x] = applied[x]]_vars
    BY TakesByStatus
  <1>2. QED
    BY <1>1, IInvAlways, PTL DEF Spec, SuspendedTakesNothing

\* A CANCELLING execution takes its Cancel and nothing else.
THEOREM CancellingWaits == Spec => CancellingTakesOnlyCancel
  <1>1. ASSUME IInv, [Next]_vars, NEW x \in Exec, exe[x].status = "CANCELLING", applied'[x] # applied[x]
        PROVE  KindOf[applied'[x][Len(applied'[x])]] = "Cancel"
    <2>1. PICK e \in Event : applied'[x] = Append(applied[x], e) /\ ~Discards(KindOf[e], exe[x].status)
      BY <1>1, TakesByStatus
    <2>2. applied[x] \in Seq(Event)
      BY <1>1 DEF IInv, Typed, RestOK
    <2>3. applied'[x][Len(applied'[x])] = e
      BY <2>1, <2>2
    <2>4. QED
      BY <1>1, <2>1, <2>3 DEF Discards
  <1>2. IInv /\ [Next]_vars =>
          [\A x \in Exec : exe[x].status = "CANCELLING" /\ applied'[x] # applied[x]
             => KindOf[applied'[x][Len(applied'[x])]] = "Cancel"]_vars
    BY <1>1
  <1>3. QED
    BY <1>2, IInvAlways, PTL DEF Spec, CancellingTakesOnlyCancel

\* Both of them, as the run of the progress configuration checks them.
THEOREM StatusesHold == Spec => StatusesAdmit
  BY SuspendedStays, CancellingWaits, PTL DEF StatusesAdmit
-----------------------------------------------------------------------------
(***************************************************************************)
(* What a commit enqueues is delivered, in commit order, and an execution  *)
(* takes its events in the order of their arrival.  The first argument     *)
(* follows a message: it leaves its group only once its worker saw it      *)
(* processed or dropped it, and a worker claims the head of a group, so    *)
(* whatever arrived before was handled.  The second follows a row: the     *)
(* relay acks it only once its event has arrived in its target's group,    *)
(* where it waits until it is handled.                                     *)
(***************************************************************************)

Arrived(x, e) == \E i \in DOMAIN arrival[x] : arrival[x][i] = e
Queued(x, e) == \E m \in messages : m.group = x /\ m.event = e

\* Leases.  A flow past the dedupe, that acks when it ends, has an event that was handled.
Ending == {"relay", "readbox", "create", "publish", "ackbox", "ack"}

LeaseOK(w) == proc[w].pc # "idle" =>
  /\ proc[w].seq <= msgSeq[proc[w].group]
  /\ \A m \in messages : m.group = proc[w].group /\ m.seq = proc[w].seq => m.event = proc[w].event
  /\ proc[w].pc \in Ending => Handled(proc[w].group, proc[w].event)

MessagesOK ==
  /\ \A m \in messages : m.seq <= msgSeq[m.group] /\ Arrived(m.group, m.event)
  /\ \A m, n \in messages : m.group = n.group /\ m.seq = n.seq => m.event = n.event
  /\ \A w \in Worker : LeaseOK(w)

\* An event that arrived and was not handled still waits.
NothingVanishes == \A x \in Exec : \A i \in DOMAIN arrival[x] : Handled(x, arrival[x][i]) \/ Queued(x, arrival[x][i])

\* Order.  What arrived before the event of a lease, or of a taken event, was handled before.
FirstCome == \A x \in Exec : \A i, j \in DOMAIN arrival[x] :
  /\ arrival[x][i] = arrival[x][j] => i = j
  /\ i < j => \/ Handled(x, arrival[x][i])
              \/ \E m \in messages : /\ m.group = x /\ m.event = arrival[x][i]
                                     /\ \A n \in messages : n.group = x /\ n.event = arrival[x][j] => m.seq < n.seq

EarlierHandled(x, e) == \E j \in DOMAIN arrival[x] :
  arrival[x][j] = e /\ \A i \in DOMAIN arrival[x] : i < j => Handled(x, arrival[x][i])

TurnsOK ==
  /\ FirstCome
  /\ \A w \in Worker : proc[w].pc # "idle" => EarlierHandled(proc[w].group, proc[w].event)
  /\ \A x \in Exec : \A i \in DOMAIN applied[x] : EarlierHandled(x, applied[x][i])
-----------------------------------------------------------------------------
(* What a step does to the queues *)

\* Who publishes: a sender its own event, a creator its Start, or a relay the first row it has left.
Publishes(g, e) ==
  /\ Publish(g, e)
  /\ \/ SentTo[e] # NoExec /\ KindOf[e] # "Start"
     \/ \E p \in Process : proc[p].pc = "direct" /\ proc[p].group = g /\ proc[p].event = e
     \/ \E p \in Process : \E r \in proc[p].todo : IsFirst(r, proc[p].todo) /\ r.to = g /\ r.event = e

\* The four things that happen to the queues.
QueuesMove ==
  \/ UNCHANGED <<messages, msgSeq, arrival>>
  \/ \E g \in Exec, e \in Event : Publishes(g, e)
  \/ \E g \in Exec, seq \in Nat, locked \in BOOLEAN : SetLock(g, seq, locked) /\ UNCHANGED <<msgSeq, arrival>>
  \/ \E w \in Worker : Ack(w)

LEMMA DroppedGrows == ASSUME Typed, [Next]_vars PROVE dropped \subseteq dropped'
  <1>1. CASE UNCHANGED vars
    BY <1>1 DEF vars, history
  <1>2. ASSUME NEW p \in Client, Begin(p) \/ ClientStep(p) PROVE dropped' = dropped
    <2>1. ASSUME NEW x \in Exec, NEW e \in Event,
                 Create(p, x, e) \/ StartDeferred(p, x, e) \/ CancelCooperatively(p, x, e) \/ Send(p, e)
          PROVE  dropped' = dropped
      BY <2>1 DEF Create, StartDeferred, CancelCooperatively, Send
    <2>2. ASSUME NEW x \in Exec, \/ CreateDeferred(p, x) \/ SetStatus(p, x) \/ Suspend(p, x) \/ Resume(p, x)
                                 \/ Terminate(p, x) \/ CancelForcefully(p, x) \/ Propagate(p, x)
          PROVE  dropped' = dropped
      BY <2>2 DEF CreateDeferred, SetStatus, Suspend, Resume, Terminate, CancelForcefully, Propagate, Look, history
    <2>3. CASE PublishDirect(p) \/ AckDirect(p) \/ CommandDone(p)
      BY <2>3 DEF PublishDirect, AckDirect, CommandDone, history
    <2>4. ASSUME NEW e \in Event, Send(p, e) PROVE dropped' = dropped
      BY <2>4 DEF Send
    <2>5. QED
      BY <1>2, <2>1, <2>2, <2>3, <2>4 DEF Begin, ClientStep
  <1>3. ASSUME NEW w \in Worker, WorkerStep(w) PROVE dropped \subseteq dropped'
    BY <1>3 DEF WorkerStep, Load, Dedupe, Run, Conflict, Ack, Nack, Park, history
  <1>4. ASSUME NEW p \in Process, RelayStep(p) PROVE dropped' = dropped
    BY <1>4 DEF RelayStep, ReadSpawns, ReadOutbox, PublishNext, AckNext, LoadChild, CreateChild, CreateConflict, AckSpawn, history
  <1>5. ASSUME NEW c \in Exec, BackgroundCreate(c) PROVE dropped' = dropped
    BY <1>5 DEF BackgroundCreate
  <1>6. ASSUME NEW w, NEW m, Claim(w, m) \/ LeaseEnds(m) PROVE dropped' = dropped
    BY <1>6 DEF Claim, LeaseEnds, history
  <1>7. ASSUME NEW p, Fault(p) \/ Crash(p) PROVE dropped' = dropped
    BY <1>7 DEF Fault, Crash, history
  <1>8. QED
    BY <1>1, <1>2, <1>3, <1>4, <1>5, <1>6, <1>7 DEF Next, ClaimOf, LeaseOf

LEMMA HandledNext == ASSUME Typed, [Next]_vars, NEW x \in Exec, NEW e, Handled(x, e) PROVE Handled(x, e)'
  BY StepMoves, DroppedGrows DEF Handled, Moves

LEMMA QueuesNext == ASSUME Typed, [Next]_vars PROVE QueuesMove
  <1> USE DEF Typed
  <1>1. CASE UNCHANGED vars
    BY <1>1 DEF vars, transport, history, QueuesMove
  <1>2. ASSUME NEW p \in Client, Begin(p) \/ ClientStep(p) PROVE QueuesMove
    <2>1. ASSUME NEW x \in Exec, NEW e \in Event, Create(p, x, e) \/ StartDeferred(p, x, e) \/ CancelCooperatively(p, x, e)
          PROVE  UNCHANGED <<messages, msgSeq, arrival>>
      BY <2>1 DEF Create, StartDeferred, CancelCooperatively, transport
    <2>2. ASSUME NEW x \in Exec, \/ CreateDeferred(p, x) \/ SetStatus(p, x) \/ Suspend(p, x) \/ Resume(p, x)
                                 \/ Terminate(p, x) \/ CancelForcefully(p, x) \/ Propagate(p, x)
          PROVE  UNCHANGED <<messages, msgSeq, arrival>>
      BY <2>2 DEF CreateDeferred, SetStatus, Suspend, Resume, Terminate, CancelForcefully, Propagate, Look, transport, history
    <2>3. CASE AckDirect(p) \/ CommandDone(p)
      BY <2>3 DEF AckDirect, CommandDone, transport, history, QueuesMove
    <2>4. ASSUME NEW e \in Event, Send(p, e) PROVE QueuesMove
      BY <2>4, DeliveryAssumption DEF Send, QueuesMove, Publishes
    <2>5. CASE PublishDirect(p)
      <3>1. proc[p].group \in Exec /\ proc[p].event \in Event
        BY <2>5 DEF PublishDirect, ProcOK, LocalOK, Process
      <3>2. QED
        BY <2>5, <3>1 DEF PublishDirect, QueuesMove, Publishes, Process
    <2>6. QED
      BY <1>2, <2>1, <2>2, <2>3, <2>4, <2>5 DEF Begin, ClientStep, QueuesMove
  <1>3. ASSUME NEW w \in Worker, WorkerStep(w) PROVE QueuesMove
    <2>1. CASE Nack(w) \/ Park(w)
      <3>1. proc[w].group \in Exec /\ proc[w].seq \in Nat
        BY <2>1 DEF Nack, Park, ProcOK, LocalOK, Local, Process
      <3>2. QED
        BY <2>1, <3>1 DEF Nack, Park, QueuesMove, history
    <2>2. CASE Ack(w)
      BY <2>2 DEF QueuesMove
    <2>3. CASE Load(w) \/ Dedupe(w) \/ Run(w) \/ Conflict(w)
      BY <2>3 DEF Load, Dedupe, Run, Conflict, transport, history, QueuesMove
    <2>4. QED
      BY <1>3, <2>1, <2>2, <2>3 DEF WorkerStep
  <1>4. ASSUME NEW p \in Process, RelayStep(p) PROVE QueuesMove
    <2>1. CASE PublishNext(p)
      <3>1. PICK r \in proc[p].todo : IsFirst(r, proc[p].todo) /\ Publish(r.to, r.event)
        BY <2>1 DEF PublishNext
      <3>2. r.to \in Exec /\ r.event \in Event
        BY <3>1 DEF ProcOK, Local, OutboxRow
      <3>3. QED
        BY <3>1, <3>2 DEF QueuesMove, Publishes
    <2>2. ASSUME ~PublishNext(p) PROVE UNCHANGED <<messages, msgSeq, arrival>>
      BY <1>4, <2>2 DEF RelayStep, ReadSpawns, ReadOutbox, AckNext, LoadChild, CreateChild, CreateConflict, AckSpawn, transport, history
    <2>3. QED
      BY <2>1, <2>2 DEF QueuesMove
  <1>5. ASSUME NEW c \in Exec, BackgroundCreate(c) PROVE QueuesMove
    BY <1>5 DEF BackgroundCreate, transport, QueuesMove
  <1>6. ASSUME NEW w, NEW m \in messages, Claim(w, m) \/ LeaseEnds(m) PROVE QueuesMove
    <2>1. m.group \in Exec /\ m.seq \in Nat
      BY DEF TransportOK, Message
    <2>2. QED
      BY <1>6, <2>1 DEF Claim, LeaseEnds, QueuesMove, history
  <1>7. ASSUME NEW p, Fault(p) \/ Crash(p) PROVE QueuesMove
    BY <1>7 DEF Fault, Crash, transport, history, QueuesMove
  <1>8. QED
    BY <1>1, <1>2, <1>3, <1>4, <1>5, <1>6, <1>7 DEF Next, ClaimOf, LeaseOf, Group
-----------------------------------------------------------------------------
(* What a step does to a lease *)

\* A worker's flow stays, ends, begins with a claim, or goes on with its message.
LeaseMove(w) ==
  \/ proc'[w] = proc[w]
  \/ proc'[w].pc = "idle"
  \/ \E m \in messages : Claim(w, m)
  \/ /\ proc[w].pc # "idle"
     /\ proc'[w].group = proc[w].group /\ proc'[w].seq = proc[w].seq /\ proc'[w].event = proc[w].event
     /\ proc'[w].pc \in Ending => proc[w].pc \in Ending \/ Handled(proc[w].group, proc[w].event)'

LEMMA OthersKeepTheirs ==
  ASSUME ProcOK, NEW p \in Process, NEW q \in Process, p # q, UNCHANGED proc \/ \E local : Become(p, local)
  PROVE  proc'[q] = proc[q]
  BY DEF ProcOK, Become

LEMMA ClientBecomes ==
  ASSUME NEW p \in Client, Begin(p) \/ ClientStep(p)
  PROVE  UNCHANGED proc \/ \E local : Become(p, local)
  BY DEF Begin, ClientStep, Create, CreateDeferred, StartDeferred, PublishDirect, AckDirect, Send, Suspend,
         Resume, Terminate, CancelForcefully, Look, CancelCooperatively, SetStatus, Propagate, CommandDone

LEMMA RelayBecomes ==
  ASSUME NEW p \in Process, RelayStep(p)
  PROVE  \E local : Become(p, local)
  <1>1. CASE AckNext(p)
    BY <1>1 DEF AckNext
  <1>2. CASE ReadSpawns(p) \/ ReadOutbox(p) \/ PublishNext(p)
    BY <1>2 DEF ReadSpawns, ReadOutbox, PublishNext
  <1>3. ASSUME NEW c \in Exec, LoadChild(p, c) \/ CreateChild(p, c) \/ CreateConflict(p, c) \/ AckSpawn(p, c)
        PROVE  \E local : Become(p, local)
    BY <1>3 DEF LoadChild, CreateChild, CreateConflict, AckSpawn
  <1>4. QED
    BY <1>1, <1>2, <1>3 DEF RelayStep

LEMMA WorkerBecomes ==
  ASSUME NEW w \in Worker, WorkerStep(w)
  PROVE  \E local : Become(w, local)
  BY DEF WorkerStep, Load, Dedupe, Run, Conflict, Ack, Nack, Park

\* A relay of a worker keeps its lease, and ends in an ack or a nack.
LEMMA RelayKeepsLease ==
  ASSUME Typed, NEW w \in Worker, RelayStep(w)
  PROVE  LeaseMove(w)
  <1>p. w \in Process /\ proc \in [Process -> Local] /\ proc[w] \in Local
    BY DEF Typed, ProcOK, Process
  <1>b. ASSUME NEW local, Become(w, local) PROVE proc'[w] = local
    BY <1>p, <1>b DEF Become
  <1>f. ASSUME NEW local, local = Flushed(w) \/ local = Aborted(w), proc[w].pc \in Ending
        PROVE  local.group = proc[w].group /\ local.seq = proc[w].seq /\ local.event = proc[w].event
    BY <1>p, <1>f DEF Flushed, Aborted, Local
  <1>1. proc[w].pc \in Ending /\ proc[w].pc # "idle"
    BY DEF RelayStep, ReadSpawns, ReadOutbox, PublishNext, AckNext, LoadChild, CreateChild, CreateConflict, AckSpawn,
           Relaying, Ending
  <1>2. SUFFICES proc'[w].group = proc[w].group /\ proc'[w].seq = proc[w].seq /\ proc'[w].event = proc[w].event
    BY <1>1 DEF LeaseMove
  <1>3. CASE ReadSpawns(w)
    BY <1>3, <1>p, <1>b DEF ReadSpawns, Local
  <1>4. CASE ReadOutbox(w)
    <2>1. CASE proc[w].spawned = {} /\ outbox = {}
      BY <1>4, <1>b, <1>f, <1>1, <2>1 DEF ReadOutbox
    <2>2. CASE ~(proc[w].spawned = {} /\ outbox = {})
      BY <1>4, <1>p, <1>b, <2>2 DEF ReadOutbox, Local
    <2>3. QED
      BY <2>1, <2>2
  <1>5. CASE PublishNext(w)
    BY <1>5, <1>p, <1>b DEF PublishNext, Local
  <1>6. CASE AckNext(w)
    BY <1>6, <1>p, <1>b DEF AckNext, Local
  <1>7. ASSUME NEW c \in Exec, LoadChild(w, c) \/ CreateChild(w, c) \/ AckSpawn(w, c)
        PROVE  proc'[w].group = proc[w].group /\ proc'[w].seq = proc[w].seq /\ proc'[w].event = proc[w].event
    <2>1. CASE LoadChild(w, c)
      BY <2>1, <1>p, <1>b DEF LoadChild, Local
    <2>2. CASE CreateChild(w, c)
      BY <2>2, <1>p, <1>b DEF CreateChild, Local
    <2>3. CASE AckSpawn(w, c)
      BY <2>3, <1>p, <1>b DEF AckSpawn, Local
    <2>4. QED
      BY <1>7, <2>1, <2>2, <2>3
  <1>8. ASSUME NEW c \in Exec, CreateConflict(w, c)
        PROVE  proc'[w].group = proc[w].group /\ proc'[w].seq = proc[w].seq /\ proc'[w].event = proc[w].event
    BY <1>8, <1>b, <1>f, <1>1 DEF CreateConflict
  <1>9. QED
    BY <1>3, <1>4, <1>5, <1>6, <1>7, <1>8 DEF RelayStep

LEMMA StepKeepsLease ==
  ASSUME Typed, NEW w \in Worker, WorkerStep(w)
  PROVE  LeaseMove(w)
  <1>p. w \in Process /\ proc \in [Process -> Local] /\ proc[w] \in Local
    BY DEF Typed, ProcOK, Process
  <1>b. ASSUME NEW local, Become(w, local) PROVE proc'[w] = local
    BY <1>p, <1>b DEF Become
  <1>g. proc[w].pc # "idle" => proc[w].group \in Exec /\ proc[w].event \in Event
    BY <1>p DEF Typed, ProcOK, LocalOK
  <1>1. CASE Load(w)
    <2>1. CASE Exists(proc[w].group)
      BY <1>1, <1>p, <1>b, <2>1 DEF Load, Local, LeaseMove, Ending
    <2>2. CASE ~Exists(proc[w].group)
      BY <1>1, <1>p, <1>b, <2>2 DEF Load, Local, LeaseMove, Handled
    <2>3. QED
      BY <2>1, <2>2
  <1>2. CASE Dedupe(w)
    <2>1. proc[w].pc # "idle" /\ processed' = processed
      BY <1>2 DEF Dedupe, store
    <2>2. proc'[w].group = proc[w].group /\ proc'[w].seq = proc[w].seq /\ proc'[w].event = proc[w].event
      BY <1>2, <1>p, <1>b DEF Dedupe, Local
    <2>3. proc'[w].pc \in {"park", "route"} \/ Handled(proc[w].group, proc[w].event)'
      BY <1>2, <1>p, <1>b, <2>1 DEF Dedupe, Local, Handled
    <2>4. QED
      BY <2>1, <2>2, <2>3 DEF LeaseMove, Ending
  <1>3. CASE Run(w)
    <2>1. proc[w].pc # "idle" /\ proc[w].event # NoEvent
      BY <1>3, <1>g, DeliveryAssumption DEF Run
    <2>2. proc'[w].group = proc[w].group /\ proc'[w].seq = proc[w].seq /\ proc'[w].event = proc[w].event
      BY <1>3, <1>p, <1>b DEF Run, Local
    <2>3. proc[w].event \in processed'[proc[w].group]
      BY <1>3, <1>g, <2>1 DEF Run, Commit, Typed, StoreOK
    <2>4. QED
      BY <2>1, <2>2, <2>3 DEF LeaseMove, Handled
  <1>4. CASE Conflict(w)
    BY <1>4, <1>p, <1>b DEF Conflict, Local, LeaseMove, Ending
  <1>5. CASE Ack(w) \/ Nack(w) \/ Park(w)
    <2>1. Become(w, Idle)
      BY <1>5 DEF Ack, Nack, Park
    <2>2. proc'[w] = Idle
      BY <2>1, <1>b
    <2>3. QED
      BY <2>2 DEF Idle, LeaseMove
  <1>6. QED
    BY <1>1, <1>2, <1>3, <1>4, <1>5 DEF WorkerStep

LEMMA LeaseNext == ASSUME Typed, [Next]_vars, NEW w \in Worker PROVE LeaseMove(w)
  <1>p. w \in Process /\ w \notin Client /\ ProcOK /\ proc[w] \in Local /\ Worker \subseteq Process /\ Client \subseteq Process
    BY DeliveryAssumption DEF Typed, ProcOK, Process
  <1>k. ASSUME NEW p \in Process, p # w, UNCHANGED proc \/ \E local : Become(p, local) PROVE LeaseMove(w)
    BY <1>p, <1>k, OthersKeepTheirs DEF LeaseMove
  <1>1. CASE UNCHANGED vars
    BY <1>1 DEF vars, LeaseMove
  <1>2. ASSUME NEW p \in Client, Begin(p) \/ ClientStep(p) PROVE LeaseMove(w)
    BY <1>2, <1>p, <1>k, ClientBecomes
  <1>3. ASSUME NEW v \in Worker, WorkerStep(v) PROVE LeaseMove(w)
    BY <1>3, <1>p, <1>k, WorkerBecomes, StepKeepsLease
  <1>4. ASSUME NEW p \in Process, RelayStep(p) PROVE LeaseMove(w)
    BY <1>4, <1>k, RelayBecomes, RelayKeepsLease
  <1>5. ASSUME NEW v \in Worker, NEW m \in messages, Claim(v, m) PROVE LeaseMove(w)
    <2>1. CASE v = w
      BY <1>5, <2>1 DEF LeaseMove
    <2>2. CASE v # w
      BY <1>5, <2>2, <1>p, <1>k DEF Claim
    <2>3. QED
      BY <2>1, <2>2
  <1>6. ASSUME NEW p \in Process, Fault(p) \/ Crash(p) PROVE LeaseMove(w)
    <2>1. \E local : Become(p, local)
      BY <1>6 DEF Fault, Crash
    <2>2. CASE p = w
      <3>1. ASSUME NEW local, Become(w, local) PROVE proc'[w] = local
        BY <1>p, <3>1 DEF Become, ProcOK
      <3>2. proc[w].pc # "idle" /\ (proc'[w] = Idle \/ proc'[w] = [Aborted(w) EXCEPT !.pc = "park"])
        BY <1>6, <2>2, <3>1 DEF Fault, Crash
      <3>3. CASE proc'[w] = Idle
        BY <3>3 DEF Idle, LeaseMove
      <3>4. CASE proc'[w] = [Aborted(w) EXCEPT !.pc = "park"]
        <4>1. /\ proc'[w].group = proc[w].group /\ proc'[w].seq = proc[w].seq /\ proc'[w].event = proc[w].event
              /\ proc'[w].pc = "park"
          BY <1>p, <3>4 DEF Aborted, Local
        <4>2. QED
          BY <3>2, <4>1 DEF LeaseMove, Ending
      <3>5. QED
        BY <3>2, <3>3, <3>4
    <2>3. QED
      BY <1>k, <2>1, <2>2
  <1>7. ASSUME NEW m, LeaseEnds(m) PROVE LeaseMove(w)
    BY <1>7 DEF LeaseEnds, LeaseMove
  <1>8. ASSUME NEW c \in Exec, BackgroundCreate(c) PROVE LeaseMove(w)
    BY <1>8 DEF BackgroundCreate, LeaseMove
  <1>9. QED
    BY <1>1, <1>2, <1>3, <1>4, <1>5, <1>6, <1>7, <1>8 DEF Next, ClaimOf, LeaseOf, Group
-----------------------------------------------------------------------------
(* Where the messages of a queue come from, and where they go *)

Same(m, n) == m.group = n.group /\ m.seq = n.seq /\ m.event = n.event

\* No queue gains a message.
Quiet ==
  /\ \A n \in messages' : \E m \in messages : Same(m, n)
  /\ UNCHANGED <<msgSeq, arrival>>

\* One message more, the last of its group.
Gains(g, e) ==
  /\ messages' = messages \cup {[group |-> g, seq |-> msgSeq[g] + 1, event |-> e, locked |-> FALSE]}
  /\ msgSeq'[g] = msgSeq[g] + 1
  /\ \A x \in Exec : x # g => msgSeq'[x] = msgSeq[x] /\ arrival'[x] = arrival[x]
  /\ \/ Arrived(g, e) /\ arrival'[g] = arrival[g]
     \/ ~Arrived(g, e) /\ arrival'[g] = Append(arrival[g], e)

LEMMA PublishGains ==
  ASSUME TransportOK, NEW g \in Exec, NEW e \in Event, Publish(g, e)
  PROVE  Gains(g, e)
  BY DEF Publish, Gains, TransportOK, Arrived

LEMMA QuietOrGains ==
  ASSUME Typed, [Next]_vars
  PROVE  Quiet \/ \E g \in Exec, e \in Event : Publishes(g, e) /\ Gains(g, e)
  <1>t. TransportOK
    BY DEF Typed
  <1>1. CASE UNCHANGED <<messages, msgSeq, arrival>>
    BY <1>1 DEF Quiet, Same
  <1>2. ASSUME NEW g \in Exec, NEW e \in Event, Publishes(g, e) PROVE Gains(g, e)
    BY <1>2, <1>t, PublishGains DEF Publishes
  <1>3. ASSUME NEW g \in Exec, NEW seq \in Nat, NEW locked \in BOOLEAN, SetLock(g, seq, locked), UNCHANGED <<msgSeq, arrival>>
        PROVE  Quiet
    <2>1. ASSUME NEW m \in messages PROVE Same(m, IF m.group = g /\ m.seq = seq THEN [m EXCEPT !.locked = locked] ELSE m)
      BY <1>t DEF TransportOK, Message, Same
    <2>2. QED
      BY <1>3, <2>1 DEF SetLock, Quiet
  <1>4. ASSUME NEW w \in Worker, Ack(w) PROVE Quiet
    BY <1>4 DEF Ack, Remove, Quiet, Same, history
  <1>5. QED
    BY <1>1, <1>2, <1>3, <1>4, QueuesNext DEF QueuesMove

\* A message stays until a worker acks it.
LEMMA MessageStays ==
  ASSUME Typed, [Next]_vars, NEW m \in messages
  PROVE  \/ \E n \in messages' : Same(m, n)
         \/ \E w \in Worker : Ack(w) /\ proc[w].group = m.group /\ proc[w].seq = m.seq
  <1>t. TransportOK
    BY DEF Typed
  <1>1. CASE UNCHANGED <<messages, msgSeq, arrival>>
    BY <1>1 DEF Same
  <1>2. ASSUME NEW g \in Exec, NEW e \in Event, Publishes(g, e) PROVE \E n \in messages' : Same(m, n)
    BY <1>2 DEF Publishes, Publish, Same
  <1>3. ASSUME NEW g \in Exec, NEW seq \in Nat, NEW locked \in BOOLEAN, SetLock(g, seq, locked) PROVE \E n \in messages' : Same(m, n)
    <2>1. Same(m, IF m.group = g /\ m.seq = seq THEN [m EXCEPT !.locked = locked] ELSE m)
      BY <1>t DEF TransportOK, Message, Same
    <2>2. QED
      BY <1>3, <2>1 DEF SetLock
  <1>4. ASSUME NEW w \in Worker, Ack(w), ~(proc[w].group = m.group /\ proc[w].seq = m.seq) PROVE \E n \in messages' : Same(m, n)
    BY <1>4 DEF Ack, Remove, Same
  <1>5. QED
    BY <1>1, <1>2, <1>3, <1>4, QueuesNext DEF QueuesMove

LEMMA AppendFacts ==
  ASSUME NEW s \in Seq(Event), NEW e \in Event
  PROVE  /\ DOMAIN Append(s, e) = DOMAIN s \cup {Len(s) + 1}
         /\ Append(s, e)[Len(s) + 1] = e
         /\ \A i \in DOMAIN s : Append(s, e)[i] = s[i] /\ i \in Nat /\ i < Len(s) + 1
  OBVIOUS

\* What arrived stays where it is in the order of arrival; at most one event joins it, at the end.
LEMMA ArrivalNext ==
  ASSUME Typed, [Next]_vars, NEW x \in Exec
  PROVE  /\ DOMAIN arrival[x] \subseteq DOMAIN arrival'[x]
         /\ \A i \in DOMAIN arrival[x] : arrival'[x][i] = arrival[x][i]
         /\ \A i \in DOMAIN arrival'[x] :
              i \in DOMAIN arrival[x] \/ /\ i = Len(arrival[x]) + 1 /\ ~Arrived(x, arrival'[x][i])
                                         /\ \E e \in Event : Gains(x, e) /\ Publishes(x, e) /\ arrival'[x][i] = e
  <1>t. arrival[x] \in Seq(Event)
    BY DEF Typed, TransportOK
  <1>1. CASE arrival'[x] = arrival[x]
    BY <1>1
  <1>2. ASSUME NEW e \in Event, Gains(x, e), Publishes(x, e), ~Arrived(x, e), arrival'[x] = Append(arrival[x], e)
        PROVE  /\ DOMAIN arrival[x] \subseteq DOMAIN arrival'[x]
               /\ \A i \in DOMAIN arrival[x] : arrival'[x][i] = arrival[x][i]
               /\ \A i \in DOMAIN arrival'[x] : i \in DOMAIN arrival[x] \/ (i = Len(arrival[x]) + 1 /\ arrival'[x][i] = e)
    BY <1>t, <1>2, AppendFacts
  <1>3. QED
    BY <1>1, <1>2, QuietOrGains DEF Quiet, Gains

LEMMA ArrivedNext == ASSUME Typed, [Next]_vars, NEW x \in Exec, NEW e, Arrived(x, e) PROVE Arrived(x, e)'
  BY ArrivalNext DEF Arrived

LEMMA PublishArrives == ASSUME TransportOK, NEW g \in Exec, NEW e \in Event, Publish(g, e) PROVE Arrived(g, e)'
  <1>1. Gains(g, e) /\ arrival[g] \in Seq(Event)
    BY PublishGains DEF TransportOK
  <1>2. CASE arrival'[g] = Append(arrival[g], e)
    <2>1. Len(arrival[g]) + 1 \in DOMAIN arrival'[g] /\ arrival'[g][Len(arrival[g]) + 1] = e
      BY <1>1, <1>2
    <2>2. QED
      BY <2>1 DEF Arrived
  <1>3. QED
    BY <1>1, <1>2 DEF Gains, Arrived
-----------------------------------------------------------------------------
(* The queues: what leaves one was handled, and what arrived first is handled first *)

LEMMA SeqsGrow ==
  ASSUME Typed, [Next]_vars, NEW x \in Exec
  PROVE  msgSeq[x] \in Nat /\ msgSeq'[x] \in Nat /\ msgSeq[x] <= msgSeq'[x]
  <1>1. msgSeq \in [Exec -> Nat]
    BY DEF Typed, TransportOK
  <1>2. QED
    BY <1>1, QuietOrGains DEF Quiet, Gains

\* A message is an old one, or the one published, whose seq is new.
LEMMA MessageComes ==
  ASSUME Typed, [Next]_vars, NEW n \in messages'
  PROVE  \/ \E m \in messages : Same(m, n)
         \/ \E g \in Exec, e \in Event : /\ Gains(g, e) /\ Publishes(g, e)
                                         /\ n.group = g /\ n.event = e /\ n.seq = msgSeq[g] + 1 /\ n.seq = msgSeq'[g]
  BY QuietOrGains DEF Quiet, Gains, Same

LEMMA MessagesKept ==
  ASSUME Typed, MessagesOK, [Next]_vars
  PROVE  /\ \A m \in messages' : m.seq <= msgSeq'[m.group] /\ Arrived(m.group, m.event)'
         /\ \A m, n \in messages' : m.group = n.group /\ m.seq = n.seq => m.event = n.event
  <1>t. TransportOK /\ messages \subseteq Message
    BY DEF Typed, TransportOK
  <1>1. ASSUME NEW n \in messages' PROVE n.seq <= msgSeq'[n.group] /\ Arrived(n.group, n.event)'
    <2>1. ASSUME NEW m \in messages, Same(m, n) PROVE n.seq <= msgSeq'[n.group] /\ Arrived(n.group, n.event)'
      <3>1. m.group \in Exec /\ m.seq \in Nat /\ m.seq <= msgSeq[m.group] /\ Arrived(m.group, m.event)
        BY <1>t DEF Message, MessagesOK
      <3>2. QED
        BY <2>1, <3>1, SeqsGrow, ArrivedNext DEF Same
    <2>2. ASSUME NEW g \in Exec, NEW e \in Event, Publishes(g, e), n.group = g, n.event = e, n.seq = msgSeq'[g]
          PROVE  n.seq <= msgSeq'[n.group] /\ Arrived(n.group, n.event)'
      BY <1>t, <2>2, SeqsGrow, PublishArrives DEF Publishes
    <2>3. QED
      BY <2>1, <2>2, MessageComes
  <1>2. ASSUME NEW m \in messages', NEW n \in messages', m.group = n.group, m.seq = n.seq PROVE m.event = n.event
    <2>1. ASSUME NEW a \in messages, NEW b \in messages, Same(a, m), Same(b, n) PROVE m.event = n.event
      BY <1>2, <2>1 DEF Same, MessagesOK
    <2>2. ASSUME NEW a \in messages, NEW b, Same(a, b), b.seq = msgSeq[b.group] + 1 PROVE FALSE
      <3>1. a.group \in Exec /\ a.seq \in Nat /\ a.seq <= msgSeq[a.group] /\ msgSeq[a.group] \in Nat
        BY <1>t, SeqsGrow DEF Message, MessagesOK
      <3>2. QED
        BY <2>2, <3>1 DEF Same
    <2>3. ASSUME ~\E a \in messages : Same(a, m), ~\E a \in messages : Same(a, n) PROVE m.event = n.event
      <3>1. m \notin messages /\ n \notin messages
        BY <2>3 DEF Same
      <3>2. \E new : messages' = messages \cup {new}
        BY <2>3, QuietOrGains DEF Quiet, Gains
      <3>3. QED
        BY <3>1, <3>2
    <2>4. QED
      BY <1>2, <2>1, <2>2, <2>3, MessageComes DEF Same
  <1>3. QED
    BY <1>1, <1>2

LEMMA LeaseKept ==
  ASSUME Typed, MessagesOK, [Next]_vars, NEW w \in Worker
  PROVE  LeaseOK(w)'
  <1>t. TransportOK /\ messages \subseteq Message
    BY DEF Typed, TransportOK
  <1>p. w \in Process /\ proc[w] \in Local /\ (proc[w].pc # "idle" => proc[w].group \in Exec)
    BY DEF Typed, ProcOK, LocalOK, Process
  <1>1. ASSUME proc[w].pc # "idle",
               proc'[w].group = proc[w].group, proc'[w].seq = proc[w].seq, proc'[w].event = proc[w].event,
               proc'[w].pc \in Ending => proc[w].pc \in Ending \/ Handled(proc[w].group, proc[w].event)'
        PROVE  LeaseOK(w)'
    <2> DEFINE g == proc[w].group
               k == proc[w].seq
               e == proc[w].event
    <2>1. g \in Exec /\ k \in Nat /\ k <= msgSeq[g] /\ k <= msgSeq'[g]
      BY <1>1, <1>p, SeqsGrow DEF MessagesOK, LeaseOK, Local
    <2>2. ASSUME NEW n \in messages', n.group = g, n.seq = k PROVE n.event = e
      <3>1. ASSUME NEW m \in messages, Same(m, n) PROVE n.event = e
        BY <1>1, <2>2, <3>1 DEF Same, MessagesOK, LeaseOK
      <3>2. n.seq # msgSeq[g] + 1
        BY <2>1, <2>2, SeqsGrow
      <3>3. QED
        BY <2>2, <3>1, <3>2, MessageComes
    <2>3. proc'[w].pc \in Ending => Handled(g, e)'
      BY <1>1, <2>1, HandledNext DEF MessagesOK, LeaseOK
    <2>4. QED
      BY <1>1, <2>1, <2>2, <2>3 DEF LeaseOK, Handled
  <1>2. CASE proc'[w] = proc[w]
    <2>1. CASE proc[w].pc = "idle"
      BY <1>2, <2>1 DEF LeaseOK
    <2>2. CASE proc[w].pc # "idle"
      BY <1>1, <1>2, <2>2
    <2>3. QED
      BY <2>1, <2>2
  <1>3. ASSUME NEW m \in messages, Claim(w, m) PROVE LeaseOK(w)'
    <2>1. proc'[w].pc = "load" /\ proc'[w].group = m.group /\ proc'[w].seq = m.seq /\ proc'[w].event = m.event
      BY <1>3, <1>p DEF Claim, Become, Typed, ProcOK, Idle
    <2>2. msgSeq' = msgSeq /\ arrival' = arrival /\ m.group \in Exec
      BY <1>3, <1>t DEF Claim, Message, history
    <2>3. ASSUME NEW n \in messages', n.group = m.group, n.seq = m.seq PROVE n.event = m.event
      <3>1. SetLock(m.group, m.seq, TRUE)
        BY <1>3 DEF Claim
      <3>2. \E a \in messages : Same(a, n)
        BY <3>1, <1>t DEF SetLock, Same, Message
      <3>3. QED
        BY <2>3, <3>2 DEF Same, MessagesOK
    <2>4. QED
      BY <2>1, <2>2, <2>3 DEF LeaseOK, Ending, MessagesOK
  <1>4. CASE proc'[w].pc = "idle"
    BY <1>4 DEF LeaseOK
  <1>5. QED
    BY <1>1, <1>2, <1>3, <1>4, LeaseNext DEF LeaseMove

\* A message is still there after a step, or its event was handled.
LEMMA StillThere ==
  ASSUME Typed, MessagesOK, [Next]_vars, NEW m \in messages
  PROVE  Handled(m.group, m.event)' \/ \E n \in messages' : Same(m, n)
  <1>1. m.group \in Exec
    BY DEF Typed, TransportOK, Message
  <1>2. ASSUME NEW w \in Worker, Ack(w), proc[w].group = m.group, proc[w].seq = m.seq PROVE Handled(m.group, m.event)'
    <2>1. proc[w].pc = "ack" /\ proc[w].pc # "idle" /\ proc[w].pc \in Ending
      BY <1>2 DEF Ack, Ending
    <2>2. Handled(m.group, m.event)
      BY <1>2, <2>1 DEF MessagesOK, LeaseOK
    <2>3. QED
      BY <1>1, <2>2, HandledNext
  <1>3. QED
    BY <1>2, MessageStays

LEMMA VanishingKept ==
  ASSUME Typed, MessagesOK, NothingVanishes, [Next]_vars
  PROVE  NothingVanishes'
  <1>t. TransportOK
    BY DEF Typed
  <1>1. ASSUME NEW x \in Exec, NEW e, Handled(x, e) \/ Queued(x, e) PROVE Handled(x, e)' \/ Queued(x, e)'
    <2>1. CASE Handled(x, e)
      BY <2>1, HandledNext
    <2>2. ASSUME NEW m \in messages, m.group = x, m.event = e PROVE Handled(x, e)' \/ Queued(x, e)'
      BY <2>2, StillThere DEF Queued, Same
    <2>3. QED
      BY <1>1, <2>1, <2>2 DEF Queued
  <1>2. ASSUME NEW x \in Exec, NEW e \in Event, Gains(x, e) PROVE Queued(x, e)'
    <2> DEFINE new == [group |-> x, seq |-> msgSeq[x] + 1, event |-> e, locked |-> FALSE]
    <2>1. new \in messages' /\ new.group = x /\ new.event = e
      BY <1>2 DEF Gains
    <2>2. QED
      BY <2>1 DEF Queued
  <1>3. ASSUME NEW x \in Exec, NEW e, NEW i \in DOMAIN arrival'[x], e = arrival'[x][i]
        PROVE  Handled(x, e)' \/ Queued(x, e)'
    <2>1. CASE i \in DOMAIN arrival[x]
      BY <1>1, <1>3, <2>1, ArrivalNext DEF NothingVanishes
    <2>2. CASE i \notin DOMAIN arrival[x]
      BY <1>2, <1>3, <2>2, ArrivalNext
    <2>3. QED
      BY <2>1, <2>2
  <1>4. QED
    BY <1>3 DEF NothingVanishes, Handled, Queued

LEMMA FirstComeKept ==
  ASSUME Typed, MessagesOK, NothingVanishes, FirstCome, [Next]_vars
  PROVE  FirstCome'
  <1> SUFFICES ASSUME NEW x \in Exec, NEW i \in DOMAIN arrival'[x], NEW j \in DOMAIN arrival'[x], NEW d, NEW e,
                      d = arrival'[x][i], e = arrival'[x][j]
               PROVE  /\ d = e => i = j
                      /\ i < j => \/ Handled(x, d)'
                                  \/ \E m \in messages' : /\ m.group = x /\ m.event = d
                                                          /\ \A n \in messages' : n.group = x /\ n.event = e => m.seq < n.seq
    BY DEF FirstCome, Handled
  <1>t. messages \subseteq Message /\ arrival[x] \in Seq(Event) /\ msgSeq[x] \in Nat
    BY DEF Typed, TransportOK
  <1>l. /\ i \in DOMAIN arrival[x] => i \in Nat /\ i < Len(arrival[x]) + 1
        /\ j \in DOMAIN arrival[x] => j \in Nat /\ j < Len(arrival[x]) + 1
        /\ Len(arrival[x]) \in Nat
    BY <1>t
  <1>1. d = e => i = j
    <2>1. CASE i \in DOMAIN arrival[x] /\ j \in DOMAIN arrival[x]
      <3>1. d = arrival[x][i] /\ e = arrival[x][j]
        BY <2>1, ArrivalNext
      <3>2. arrival[x][i] = arrival[x][j] => i = j
        BY <2>1 DEF FirstCome
      <3>3. QED
        BY <3>1, <3>2
    <2>2. CASE i \notin DOMAIN arrival[x] /\ j \notin DOMAIN arrival[x]
      BY <2>2, ArrivalNext
    <2>3. ASSUME NEW a \in DOMAIN arrival'[x], NEW b \in DOMAIN arrival'[x], a \in DOMAIN arrival[x], b \notin DOMAIN arrival[x]
          PROVE  arrival'[x][a] # arrival'[x][b]
      <3>1. arrival'[x][a] = arrival[x][a] /\ ~Arrived(x, arrival'[x][b])
        BY <2>3, ArrivalNext
      <3>2. QED
        BY <2>3, <3>1 DEF Arrived
    <2>4. QED
      BY <2>1, <2>2, <2>3
  \* An old message of the event that came first stays ahead of those of the other.
  <1>2. ASSUME NEW m \in messages, m.group = x, m.event = d,
               \A n \in messages : n.group = x /\ n.event = e => m.seq < n.seq
        PROVE  \/ Handled(x, d)'
               \/ \E a \in messages' : /\ a.group = x /\ a.event = d
                                       /\ \A n \in messages' : n.group = x /\ n.event = e => a.seq < n.seq
    <2>1. m.seq \in Nat /\ m.seq < msgSeq[x] + 1
      BY <1>t, <1>2 DEF Message, MessagesOK
    <2>2. ASSUME NEW a \in messages', Same(m, a), NEW n \in messages', n.group = x, n.event = e PROVE a.seq < n.seq
      BY <1>2, <2>1, <2>2, MessageComes DEF Same
    <2>3. QED
      BY <1>2, <2>2, StillThere DEF Same
  <1>3. ASSUME i < j, i \in DOMAIN arrival[x], j \in DOMAIN arrival[x]
        PROVE  \/ Handled(x, d)'
               \/ \E a \in messages' : /\ a.group = x /\ a.event = d
                                       /\ \A n \in messages' : n.group = x /\ n.event = e => a.seq < n.seq
    <2>1. d = arrival[x][i] /\ e = arrival[x][j]
      BY <1>3, ArrivalNext
    <2>2. QED
      BY <1>2, <1>3, <2>1, HandledNext DEF FirstCome
  <1>4. ASSUME i < j, i \in DOMAIN arrival[x], j \notin DOMAIN arrival[x]
        PROVE  \/ Handled(x, d)'
               \/ \E a \in messages' : /\ a.group = x /\ a.event = d
                                       /\ \A n \in messages' : n.group = x /\ n.event = e => a.seq < n.seq
    <2>1. d = arrival[x][i] /\ ~Arrived(x, e)
      BY <1>4, ArrivalNext
    <2>2. \A n \in messages : ~(n.group = x /\ n.event = e)
      BY <2>1 DEF MessagesOK
    <2>3. Handled(x, d) \/ \E m \in messages : m.group = x /\ m.event = d
      BY <1>4, <2>1 DEF NothingVanishes, Queued
    <2>4. QED
      BY <1>2, <2>2, <2>3, HandledNext
  <1>5. i < j /\ i \notin DOMAIN arrival[x] => FALSE
    BY <1>l, ArrivalNext
  <1>6. QED
    BY <1>1, <1>3, <1>4, <1>5

LEMMA EarlierNext ==
  ASSUME Typed, [Next]_vars, NEW x \in Exec, NEW e, EarlierHandled(x, e)
  PROVE  EarlierHandled(x, e)'
  <1>1. PICK j \in DOMAIN arrival[x] : arrival[x][j] = e /\ \A i \in DOMAIN arrival[x] : i < j => Handled(x, arrival[x][i])
    BY DEF EarlierHandled
  <1>2. arrival[x] \in Seq(Event)
    BY DEF Typed, TransportOK
  <1>3. j \in DOMAIN arrival'[x] /\ arrival'[x][j] = e /\ j < Len(arrival[x]) + 1 /\ j \in Nat
    BY <1>1, <1>2, ArrivalNext
  <1>4. ASSUME NEW i \in DOMAIN arrival'[x], i < j, NEW d, d = arrival'[x][i] PROVE Handled(x, d)'
    <2>1. i \in DOMAIN arrival[x]
      BY <1>2, <1>3, <1>4, ArrivalNext
    <2>2. QED
      BY <1>1, <1>4, <2>1, ArrivalNext, HandledNext
  <1>5. QED
    BY <1>3, <1>4 DEF EarlierHandled, Handled

\* A worker claims the head: what arrived before its event is not queued any more.
LEMMA ClaimInTurn ==
  ASSUME Typed, MessagesOK, FirstCome, NEW w \in Worker, NEW m \in messages, Claim(w, m)
  PROVE  EarlierHandled(m.group, m.event)
  <1> DEFINE x == m.group
  <1>1. x \in Exec /\ m.seq \in Nat /\ \A n \in messages : n.seq \in Nat
    BY DEF Typed, TransportOK, Message
  <1>2. PICK j \in DOMAIN arrival[x] : arrival[x][j] = m.event
    BY DEF MessagesOK, Arrived
  <1>3. \A n \in messages : n.group = x => m.seq <= n.seq
    BY DEF Claim, Claimable, IsHead, Group
  <1>4. ASSUME NEW i \in DOMAIN arrival[x], i < j PROVE Handled(x, arrival[x][i])
    <2>1. ASSUME NEW n \in messages, n.group = x, n.seq < m.seq PROVE FALSE
      BY <1>1, <1>3, <2>1
    <2>2. QED
      BY <1>1, <1>2, <1>4, <2>1 DEF FirstCome
  <1>5. QED
    BY <1>2, <1>4 DEF EarlierHandled

LEMMA TurnsKept ==
  ASSUME IInv, MessagesOK, NothingVanishes, TurnsOK, [Next]_vars
  PROVE  TurnsOK'
  <1>t. Typed /\ FirstCome
    BY DEF IInv, TurnsOK
  <1>1. FirstCome'
    BY <1>t, FirstComeKept
  <1>2. ASSUME NEW w \in Worker, proc'[w].pc # "idle" PROVE EarlierHandled(proc[w].group, proc[w].event)'
    <2>1. proc[w].pc # "idle" => proc[w].group \in Exec /\ EarlierHandled(proc[w].group, proc[w].event)
      BY <1>t DEF TurnsOK, Typed, ProcOK, LocalOK, Process
    <2>2. ASSUME proc[w].pc # "idle", proc'[w].group = proc[w].group, proc'[w].event = proc[w].event
          PROVE  EarlierHandled(proc[w].group, proc[w].event)'
      <3> DEFINE g == proc[w].group
                 e == proc[w].event
      <3>1. \A x \in Exec : \A f : EarlierHandled(x, f) => EarlierHandled(x, f)'
        BY <1>t, EarlierNext
      <3>2. QED
        BY <2>1, <2>2, <3>1 DEF EarlierHandled, Handled
    <2>3. ASSUME NEW m \in messages, Claim(w, m) PROVE EarlierHandled(proc[w].group, proc[w].event)'
      <3>1. proc'[w].group = m.group /\ proc'[w].event = m.event /\ m.group \in Exec
        BY <1>t, <2>3 DEF Claim, Become, Typed, ProcOK, TransportOK, Message, Process, Idle
      <3>2. EarlierHandled(m.group, m.event)'
        BY <1>t, <2>3, <3>1, ClaimInTurn, EarlierNext
      <3>3. QED
        BY <3>1, <3>2 DEF EarlierHandled, Handled
    <2>4. QED
      BY <1>t, <1>2, <2>2, <2>3, LeaseNext DEF LeaseMove
  <1>3. ASSUME NEW x \in Exec, NEW i \in DOMAIN applied'[x], NEW e, e = applied'[x][i] PROVE EarlierHandled(x, e)'
    <2>1. CASE applied' = applied
      BY <1>t, <1>3, <2>1, EarlierNext DEF TurnsOK
    <2>2. ASSUME NEW w \in Worker, Run(w), applied' # applied PROVE EarlierHandled(x, e)'
      <3>1. /\ proc[w].group \in Exec /\ proc[w].event \in Event
            /\ applied' = [applied EXCEPT ![proc[w].group] = Append(@, proc[w].event)]
        BY <2>2, RunAdmitted
      <3>2. applied \in [Exec -> Seq(Event)]
        BY <1>t DEF Typed, RestOK
      <3>3. proc[w].pc # "idle"
        BY <2>2 DEF Run
      <3>4. \/ i \in DOMAIN applied[x] /\ e = applied[x][i]
            \/ x = proc[w].group /\ e = proc[w].event
        <4>1. CASE x = proc[w].group
          <5>1. applied'[x] = Append(applied[x], proc[w].event) /\ applied[x] \in Seq(Event)
            BY <3>1, <3>2, <4>1
          <5>2. QED
            BY <1>3, <3>1, <4>1, <5>1, AppendFacts
        <4>2. CASE x # proc[w].group
          BY <1>3, <3>1, <3>2, <4>2
        <4>3. QED
          BY <4>1, <4>2
      <3>5. EarlierHandled(x, e)
        BY <3>3, <3>4 DEF TurnsOK
      <3>6. QED
        BY <1>t, <3>5, EarlierNext
    <2>3. QED
      BY <1>t, <2>1, <2>2, StepMoves
  <1>4. QED
    BY <1>1, <1>2, <1>3 DEF TurnsOK, EarlierHandled, Handled

LEMMA PrecedesNext ==
  ASSUME Typed, [Next]_vars, NEW x \in Exec, NEW d, NEW e, Precedes(arrival[x], d, e)
  PROVE  Precedes(arrival'[x], d, e)
  BY ArrivalNext DEF Precedes

\* Of two events, the one taken first arrived first, or the other was dropped when it came.
LEMMA EarlierOfTwo ==
  ASSUME NEW x \in Exec, NEW d, NEW e, d # e, arrival[x] \in Seq(Event),
         EarlierHandled(x, d), EarlierHandled(x, e), e \notin processed[x]
  PROVE  Precedes(arrival[x], d, e) \/ <<x, e>> \in dropped
  <1>1. PICK i \in DOMAIN arrival[x] : arrival[x][i] = d /\ \A k \in DOMAIN arrival[x] : k < i => Handled(x, arrival[x][k])
    BY DEF EarlierHandled
  <1>2. PICK j \in DOMAIN arrival[x] : arrival[x][j] = e
    BY DEF EarlierHandled
  <1>3. i # j /\ i \in Nat /\ j \in Nat
    BY <1>1, <1>2
  <1>4. CASE i < j
    BY <1>1, <1>2, <1>4 DEF Precedes
  <1>5. CASE j < i
    BY <1>1, <1>2, <1>5 DEF Handled
  <1>6. QED
    BY <1>3, <1>4, <1>5

LEMMA InOrderKept ==
  ASSUME IInv, MessagesOK, TurnsOK, InOrder, [Next]_vars
  PROVE  InOrder'
  <1>t. Typed /\ applied \in [Exec -> Seq(Event)] /\ arrival \in [Exec -> Seq(Event)] /\ dropped \subseteq dropped'
    BY DroppedGrows DEF IInv, Typed, RestOK, TransportOK
  <1> SUFFICES ASSUME NEW x \in Exec, NEW d \in Event, NEW e \in Event, Precedes(applied'[x], d, e), d # e
               PROVE  Precedes(arrival'[x], d, e) \/ <<x, d>> \in dropped' \/ <<x, e>> \in dropped'
    BY DEF InOrder
  <1>1. CASE Precedes(applied[x], d, e)
    BY <1>t, <1>1, PrecedesNext DEF InOrder
  <1>2. ASSUME NEW w \in Worker, Run(w), ~Precedes(applied[x], d, e), applied' # applied
        PROVE  Precedes(arrival'[x], d, e) \/ <<x, e>> \in dropped'
    <2> DEFINE g == proc[w].group
               f == proc[w].event
    <2>1. /\ g \in Exec /\ f \in Event /\ f \notin processed[g]
          /\ applied' = [applied EXCEPT ![g] = Append(@, f)]
      BY <1>2, RunAdmitted
    <2>2. g = x
      BY <1>t, <1>2, <2>1
    <2>3. applied[x] \in Seq(Event) /\ applied'[x] = Append(applied[x], f)
      BY <1>t, <2>1, <2>2
    <2> HIDE DEF f
    <2>4. PICK i \in DOMAIN applied'[x], j \in DOMAIN applied'[x] : i < j /\ applied'[x][i] = d /\ applied'[x][j] = e
      BY DEF Precedes
    <2>5. j \notin DOMAIN applied[x] /\ i \in DOMAIN applied[x]
      <3>1. \A k \in DOMAIN applied'[x] : k \in DOMAIN applied[x] \/ k = Len(applied[x]) + 1
        BY <2>1, <2>3, AppendFacts
      <3>2. ASSUME i \in DOMAIN applied[x], j \in DOMAIN applied[x] PROVE FALSE
        <4>1. applied'[x][i] = applied[x][i] /\ applied'[x][j] = applied[x][j]
          BY <2>1, <2>3, <3>2, AppendFacts
        <4>2. applied[x][i] = d /\ applied[x][j] = e
          BY <2>4, <4>1
        <4>3. QED
          BY <1>2, <2>4, <3>2, <4>2 DEF Precedes
      <3>3. i \in DOMAIN applied[x]
        BY <2>1, <2>3, <2>4, <3>1
      <3>4. QED
        BY <3>2, <3>3
    <2>6. e = f /\ d = applied[x][i]
      BY <2>1, <2>3, <2>4, <2>5, AppendFacts
    <2>7. EarlierHandled(x, d)
      BY <2>5, <2>6 DEF TurnsOK
    <2>8. EarlierHandled(x, e)
      <3>1. proc[w].pc # "idle"
        BY <1>2 DEF Run
      <3>2. QED
        BY <2>2, <2>6, <3>1 DEF TurnsOK, f
    <2>9. e \notin processed[x]
      BY <2>1, <2>2, <2>6 DEF f
    <2>10. QED
      BY <1>t, <2>7, <2>8, <2>9, EarlierOfTwo, PrecedesNext
  <1>3. QED
    BY <1>t, <1>1, <1>2, StepMoves

QueueInv == IInv /\ MessagesOK /\ NothingVanishes /\ TurnsOK /\ InOrder

LEMMA QueueInit == Init => QueueInv
  <1> SUFFICES ASSUME Init PROVE QueueInv
    OBVIOUS
  <1>1. IInv
    BY IInvInit
  <1>2. MessagesOK
    BY DEF Init, MessagesOK, LeaseOK, Idle, Process
  <1>3. NothingVanishes
    BY DEF Init, NothingVanishes
  <1>4. TurnsOK
    BY DEF Init, TurnsOK, FirstCome, Idle, Process
  <1>5. InOrder
    BY DEF Init, InOrder, Precedes
  <1>6. QED
    BY <1>1, <1>2, <1>3, <1>4, <1>5 DEF QueueInv

LEMMA QueueNext == QueueInv /\ [Next]_vars => QueueInv'
  <1> SUFFICES ASSUME QueueInv, [Next]_vars PROVE QueueInv'
    OBVIOUS
  <1>0. IInv /\ Typed /\ MessagesOK /\ NothingVanishes /\ TurnsOK /\ InOrder
    BY DEF QueueInv, IInv
  <1>1. IInv'
    BY <1>0, IInvNext
  <1>2. MessagesOK'
    BY <1>0, MessagesKept, LeaseKept DEF MessagesOK
  <1>3. NothingVanishes'
    BY <1>0, VanishingKept
  <1>4. TurnsOK'
    BY <1>0, TurnsKept
  <1>5. InOrder'
    BY <1>0, InOrderKept
  <1>6. QED
    BY <1>1, <1>2, <1>3, <1>4, <1>5 DEF QueueInv

\* An execution takes its events in the order in which they reached its group, through
\* nacks, parks, leases that run out under a worker, and crashes.
THEOREM TakenInOrder == Spec => []InOrder
  BY QueueInit, QueueNext, PTL DEF Spec, QueueInv
-----------------------------------------------------------------------------
(* The rows of the outbox *)

\* Rows.  The outbox and the relays' snapshots are of committed rows, with seqs of their own.
RowsOK ==
  /\ outbox \subseteq emitted
  /\ \A p \in Process : proc[p].todo \subseteq emitted
  /\ \A r \in emitted : r.seq <= outSeq
  /\ \A r, s \in emitted : r.seq = s.seq => r = s

\* A row that left the outbox has arrived; so has the one a relay is about to ack, and every
\* row older than one of its snapshot that the snapshot lacks.
ToldOK(p) ==
  /\ proc[p].pc = "directack" => Arrived(proc[p].group, proc[p].event)
  /\ proc[p].pc = "ackbox" => \A r \in proc[p].todo : IsFirst(r, proc[p].todo) => Arrived(r.to, r.event)
  /\ \A s \in proc[p].todo : \A r \in emitted : r.seq < s.seq => r \in proc[p].todo \/ Arrived(r.to, r.event)

RelayOK ==
  /\ \A r \in emitted : r \in outbox \/ Arrived(r.to, r.event)
  /\ \A p \in Process : ToldOK(p)

\* Ids.  A row's event is its own; one a client may send is the Start of the row's target.
OriginOK(r) ==
  /\ SentTo[r.event] # NoExec => SentTo[r.event] = r.to /\ KindOf[r.event] = "Start"
  /\ \A x \in Exec : \A f \in Event \cup {NoEvent} : \A i \in DOMAIN Emits[x][f] :
       EmittedAt(r.event, x, f, i) => IF f = NoEvent THEN Exists(x) ELSE f \in processed[x]

IdsOK ==
  /\ \A r \in emitted : OriginOK(r)
  /\ \A r, s \in emitted : r.event = s.event => r = s
  /\ \A p \in Process : proc[p].pc \in {"direct", "directack"} =>
       SentTo[proc[p].event] = proc[p].group /\ KindOf[proc[p].event] = "Start"
  /\ \A x \in Exec : \A i \in DOMAIN arrival[x] : SentTo[arrival[x][i]] # NoExec \/ Emitted(arrival[x][i])

\* Children.  A relay acks the spawns it read once each child is there; until then it is to be
\* looked up, or to be created.
Cared(p) == \A c \in proc[p].spawned : c \in proc[p].load \/ c \in proc[p].create \/ Exists(c)

ChildrenOK ==
  /\ NoChildLost
  /\ \A p \in Process : proc[p].pc = "create" => Cared(p)
-----------------------------------------------------------------------------
(* What a step does to the rows *)

\* A commit that enqueues emissions, and where their ids come from: the caller of a start or
\* of a cancel made one up, or the machine of x ran on an event it had not taken.
Origin(x, emits) ==
  \/ \E e \in Event : /\ emits = <<[to |-> x, event |-> e]>> /\ ~Emitted(e)
                      /\ \/ SentTo[e] = x /\ KindOf[e] = "Start"
                         \/ SentTo[e] = NoExec /\ ~ByMachine(e)
  \/ \E f \in Event : emits = Emits[x][f] /\ f \notin processed[x] /\ f \in processed'[x]
  \/ emits = Emits[x][NoEvent] /\ ~Exists(x) /\ Exists(x)'

Inserts(x, emits) ==
  /\ outbox' = outbox \cup NewRows(emits)
  /\ emitted' = emitted \cup NewRows(emits)
  /\ outSeq' = outSeq + Len(emits)
  /\ arrival' = arrival
  /\ Origin(x, emits)

RowsMove ==
  \/ UNCHANGED <<outbox, emitted, outSeq>>
  \/ \E x \in Exec, emits \in Seq(Emission) : Inserts(x, emits)
  \/ \E p \in Process : (AckDirect(p) \/ AckNext(p)) /\ UNCHANGED <<emitted, outSeq>>

LEMMA NoRows == ASSUME outSeq \in Nat PROVE NewRows(<<>>) = {} /\ outSeq + Len(<<>>) = outSeq
  BY DEF NewRows

LEMMA EmptyCommit ==
  ASSUME outSeq \in Nat, NEW x, NEW version, NEW status, NEW event, NEW children,
         Commit(x, version, status, <<>>, event, children)
  PROVE  UNCHANGED <<outbox, emitted, outSeq>>
  BY NoRows DEF Commit

LEMMA CommitInserts ==
  ASSUME NEW x \in Exec, NEW version, NEW status, NEW emits \in Seq(Emission), NEW event, NEW children,
         Commit(x, version, status, emits, event, children), arrival' = arrival, Origin(x, emits)
  PROVE  RowsMove
  BY DEF Commit, Inserts, RowsMove

LEMMA EffectIs ==
  ASSUME NEW x \in Exec, NEW e \in Event \cup {NoEvent}, NEW status, NEW effect \in Effects(x, e, status)
  PROVE  effect.emits = <<>> \/ effect.emits = Emits[x][e]
  BY DEF Effects, NoEffect

LEMMA StartChildRows ==
  ASSUME Typed, NEW c \in Exec, StartChild(c), arrival' = arrival
  PROVE  RowsMove
  <1>1. PICK status \in Outcome("Start", "PENDING") :
          \E effect \in Effects(c, NoEvent, status) : Commit(c, 0, status, effect.emits, NoEvent, effect.forks)
    BY DEF StartChild
  <1>2. PICK effect \in Effects(c, NoEvent, status) : Commit(c, 0, status, effect.emits, NoEvent, effect.forks)
    BY <1>1
  <1>3. effect.emits \in Seq(Emission) /\ effect.forks \in SUBSET Exec /\ outSeq \in Nat
    BY EffectsType DEF Typed, StoreOK
  <1>4. CASE effect.emits = <<>>
    BY <1>2, <1>3, <1>4, EmptyCommit DEF RowsMove
  <1>5. CASE effect.emits = Emits[c][NoEvent]
    <2>1. ~Exists(c) /\ Exists(c)'
      BY <1>2 DEF Commit, Exists, Typed, StoreOK
    <2>2. Origin(c, effect.emits)
      BY <1>5, <2>1 DEF Origin
    <2>3. QED
      BY <1>2, <1>3, <2>2, CommitInserts
  <1>6. QED
    BY <1>4, <1>5, EffectIs

LEMMA RunRows ==
  ASSUME IInv, NEW w \in Worker, Run(w)
  PROVE  RowsMove
  <1> DEFINE x == proc[w].group
             e == proc[w].event
             was == proc[w].status
  <1>1. /\ x \in Exec /\ e \in Event /\ e \notin processed[x]
        /\ processed' = [processed EXCEPT ![x] = @ \cup {e}]
    BY RunAdmitted
  <1>2. e \in processed'[x] /\ arrival' = arrival /\ outSeq \in Nat
    BY <1>1 DEF Run, IInv, Typed, StoreOK
  <1>3. PICK status \in IF Takes(KindOf[e], was) THEN Outcome(KindOf[e], was) ELSE {was} :
          \E effect \in IF Takes(KindOf[e], was) THEN Effects(x, e, status) ELSE {NoEffect} :
             Commit(x, proc[w].version, status, effect.emits, e, effect.forks)
    BY DEF Run
  <1>4. PICK effect \in IF Takes(KindOf[e], was) THEN Effects(x, e, status) ELSE {NoEffect} :
          Commit(x, proc[w].version, status, effect.emits, e, effect.forks)
    BY <1>3
  <1>5. effect \in Effects(x, e, status)
    BY DEF Effects
  <1> HIDE DEF x, e, was
  <1>6. effect.emits \in Seq(Emission) /\ (effect.emits = <<>> \/ effect.emits = Emits[x][e])
    BY <1>1, <1>5, EffectsType, EffectIs
  <1>7. CASE effect.emits = <<>>
    BY <1>2, <1>4, <1>7, EmptyCommit DEF RowsMove
  <1>8. CASE effect.emits = Emits[x][e]
    <2>1. Origin(x, effect.emits)
      BY <1>1, <1>2, <1>8 DEF Origin
    <2>2. QED
      BY <1>1, <1>2, <1>4, <1>6, <2>1, CommitInserts
  <1>9. QED
    BY <1>6, <1>7, <1>8

LEMMA RowsNext == ASSUME IInv, [Next]_vars PROVE RowsMove
  <1>t. Typed /\ outSeq \in Nat
    BY DEF IInv, Typed, StoreOK
  <1>1. CASE UNCHANGED vars
    BY <1>1 DEF vars, store, history, RowsMove
  <1>2. ASSUME NEW p \in Client, Begin(p) \/ ClientStep(p) PROVE RowsMove
    <2>1. ASSUME NEW x \in Exec, NEW e \in Event, Create(p, x, e) \/ StartDeferred(p, x, e) \/ CancelCooperatively(p, x, e)
          PROVE  RowsMove
      <3>1. [to |-> x, event |-> e] \in Emission
        BY DEF Emission
      <3>2. <<[to |-> x, event |-> e]>> \in Seq(Emission)
        BY <3>1
      <3>3. arrival' = arrival /\ Origin(x, <<[to |-> x, event |-> e]>>)
        BY <2>1 DEF Create, StartDeferred, CancelCooperatively, Origin
      <3>4. QED
        BY <2>1, <3>2, <3>3, CommitInserts DEF Create, StartDeferred, CancelCooperatively
    <2>2. ASSUME NEW x \in Exec, CreateDeferred(p, x) PROVE RowsMove
      BY <1>t, <2>2, EmptyCommit DEF CreateDeferred, RowsMove
    <2>3. ASSUME NEW x \in Exec, SetStatus(p, x) PROVE RowsMove
      <3>1. CASE exe[x].status \in {"CANCELLED", "DONE"}
        BY <2>3, <3>1 DEF SetStatus, store, RowsMove
      <3>2. CASE exe[x].status \notin {"CANCELLED", "DONE"}
        BY <1>t, <2>3, <3>2, EmptyCommit DEF SetStatus, RowsMove
      <3>3. QED
        BY <3>1, <3>2
    <2>4. ASSUME NEW x \in Exec, Suspend(p, x) \/ Resume(p, x) \/ Terminate(p, x) \/ CancelForcefully(p, x) \/ Propagate(p, x)
          PROVE  RowsMove
      BY <2>4 DEF Suspend, Resume, Terminate, CancelForcefully, Propagate, Look, store, history, RowsMove
    <2>5. ASSUME NEW e \in Event, Send(p, e) PROVE RowsMove
      BY <2>5 DEF Send, store, RowsMove
    <2>6. CASE PublishDirect(p) \/ CommandDone(p)
      BY <2>6 DEF PublishDirect, CommandDone, store, history, RowsMove
    <2>7. CASE AckDirect(p)
      BY <2>7 DEF AckDirect, history, RowsMove, Process
    <2>8. QED
      BY <1>2, <2>1, <2>2, <2>3, <2>4, <2>5, <2>6, <2>7 DEF Begin, ClientStep
  <1>3. ASSUME NEW w \in Worker, WorkerStep(w), ~Run(w) PROVE RowsMove
    BY <1>3 DEF WorkerStep, Load, Dedupe, Conflict, Ack, Nack, Park, store, history, RowsMove
  <1>4. ASSUME NEW p \in Process, RelayStep(p) PROVE RowsMove
    <2>1. ASSUME NEW c \in Exec, CreateChild(p, c) PROVE RowsMove
      BY <1>t, <2>1, StartChildRows DEF CreateChild, transport
    <2>2. CASE AckNext(p)
      BY <2>2 DEF AckNext, history, RowsMove
    <2>3. CASE ReadSpawns(p) \/ ReadOutbox(p) \/ PublishNext(p)
      BY <2>3 DEF ReadSpawns, ReadOutbox, PublishNext, store, history, RowsMove
    <2>4. ASSUME NEW c \in Exec, LoadChild(p, c) \/ CreateConflict(p, c) \/ AckSpawn(p, c) PROVE RowsMove
      BY <2>4 DEF LoadChild, CreateConflict, AckSpawn, store, history, RowsMove
    <2>5. QED
      BY <1>4, <2>1, <2>2, <2>3, <2>4 DEF RelayStep
  <1>5. ASSUME NEW c \in Exec, BackgroundCreate(c) PROVE RowsMove
    BY <1>t, <1>5, StartChildRows DEF BackgroundCreate, store, RowsMove
  <1>6. ASSUME NEW w, NEW m, Claim(w, m) \/ LeaseEnds(m) PROVE RowsMove
    BY <1>6 DEF Claim, LeaseEnds, store, history, RowsMove
  <1>7. ASSUME NEW p, Fault(p) \/ Crash(p) PROVE RowsMove
    BY <1>7 DEF Fault, Crash, store, history, RowsMove
  <1>8. QED
    BY <1>1, <1>2, <1>3, <1>4, <1>5, <1>6, <1>7, RunRows DEF Next, ClaimOf, LeaseOf, WorkerStep
-----------------------------------------------------------------------------
(* What a step does to a flow that holds rows *)

Holding == {"direct", "directack", "ackbox"}

\* A flow's rows stay, go, are read anew, or are worked on.
TodoMove(p) ==
  \/ proc'[p] = proc[p]
  \/ (proc'[p].todo = {} \/ proc'[p].todo = proc[p].todo) /\ proc'[p].pc \notin Holding
  \/ proc'[p].todo = outbox /\ proc'[p].pc \notin Holding
  \/ /\ proc'[p].todo = {} /\ proc'[p].pc = "direct"
     /\ SentTo[proc'[p].event] = proc'[p].group /\ KindOf[proc'[p].event] = "Start"
  \/ /\ proc'[p] = [proc[p] EXCEPT !.pc = "directack"] /\ proc[p].pc = "direct"
     /\ Publish(proc[p].group, proc[p].event)
  \/ PublishNext(p)
  \/ AckNext(p)

LEMMA ClientTodo ==
  ASSUME Typed, NEW p \in Client, Begin(p) \/ ClientStep(p)
  PROVE  TodoMove(p)
  <1>p. p \in Process /\ proc \in [Process -> Local] /\ proc[p] \in Local
    BY DEF Typed, ProcOK, Process
  <1>b. ASSUME NEW local, Become(p, local) PROVE proc'[p] = local
    BY <1>p, <1>b DEF Become
  <1>1. ASSUME NEW x \in Exec, NEW e \in Event, Create(p, x, e) \/ StartDeferred(p, x, e) PROVE TodoMove(p)
    <2>1. proc'[p] = [Idle EXCEPT !.pc = "direct", !.group = x, !.event = e] /\ KindOf[e] = "Start" /\ SentTo[e] = x
      BY <1>1, <1>b DEF Create, StartDeferred
    <2>2. QED
      BY <2>1 DEF Idle, TodoMove
  <1>3. ASSUME NEW x \in Exec, Suspend(p, x) \/ Resume(p, x) \/ Terminate(p, x) \/ CancelForcefully(p, x) PROVE TodoMove(p)
    <2>1. ASSUME NEW seen, NEW status, NEW pc \in {"command", "cancel"}, Look(p, x, seen, status, pc) PROVE TodoMove(p)
      <3>1. proc'[p] = [Idle EXCEPT !.pc = pc, !.group = x, !.status = status, !.load = {x}]
        BY <2>1, <1>b DEF Look
      <3>2. QED
        BY <3>1 DEF Idle, TodoMove, Holding
    <2>2. QED
      BY <1>3, <2>1 DEF Suspend, Resume, Terminate, CancelForcefully
  <1>4. ASSUME NEW x \in Exec, NEW e \in Event, CancelCooperatively(p, x, e) PROVE TodoMove(p)
    <2>1. proc'[p] = [Idle EXCEPT !.pc = "cancel", !.group = x, !.status = "CANCELLED", !.create = {x}]
      BY <1>4, <1>b DEF CancelCooperatively
    <2>2. QED
      BY <2>1 DEF Idle, TodoMove, Holding
  <1>5. ASSUME NEW x \in Exec, SetStatus(p, x) \/ Propagate(p, x) PROVE TodoMove(p)
    <2>1. proc'[p].todo = proc[p].todo /\ proc'[p].pc = proc[p].pc /\ proc[p].pc \notin Holding
      BY <1>5, <1>p, <1>b DEF SetStatus, Propagate, Commanding, Holding, Local
    <2>2. QED
      BY <2>1 DEF TodoMove
  <1>6. CASE AckDirect(p)
    <2>1. proc'[p] = Idle
      BY <1>6, <1>b DEF AckDirect
    <2>2. QED
      BY <2>1 DEF Idle, TodoMove, Holding
  <1>7. CASE CommandDone(p)
    <2>1. proc'[p] = Idle \/ proc'[p] = [Idle EXCEPT !.pc = "relay"]
      BY <1>7, <1>b DEF CommandDone
    <2>2. QED
      BY <2>1 DEF Idle, TodoMove, Holding
  <1>8. CASE PublishDirect(p)
    BY <1>8, <1>b DEF PublishDirect, TodoMove
  <1>9. ASSUME NEW x \in Exec, CreateDeferred(p, x) PROVE TodoMove(p)
    BY <1>9 DEF CreateDeferred, TodoMove
  <1>10. ASSUME NEW e \in Event, Send(p, e) PROVE TodoMove(p)
    BY <1>10 DEF Send, TodoMove
  <1>11. QED
    BY <1>1, <1>3, <1>4, <1>5, <1>6, <1>7, <1>8, <1>9, <1>10 DEF Begin, ClientStep

LEMMA WorkerTodo ==
  ASSUME Typed, NEW w \in Worker, WorkerStep(w)
  PROVE  TodoMove(w)
  <1>p. w \in Process /\ proc \in [Process -> Local] /\ proc[w] \in Local
    BY DEF Typed, ProcOK, Process
  <1>b. ASSUME NEW local, Become(w, local) PROVE proc'[w] = local
    BY <1>p, <1>b DEF Become
  <1>1. CASE Ack(w) \/ Nack(w) \/ Park(w)
    <2>1. proc'[w] = Idle
      BY <1>1, <1>b DEF Ack, Nack, Park
    <2>2. QED
      BY <2>1 DEF Idle, TodoMove, Holding
  <1>2. CASE Load(w) \/ Dedupe(w) \/ Run(w) \/ Conflict(w)
    <2>1. proc'[w].todo = proc[w].todo /\ proc'[w].pc \in {"dedupe", "ack", "park", "route", "relay", "nack"}
      BY <1>2, <1>p, <1>b DEF Load, Dedupe, Run, Conflict, Local
    <2>2. QED
      BY <2>1 DEF TodoMove, Holding
  <1>3. QED
    BY <1>1, <1>2 DEF WorkerStep

LEMMA RelayTodo ==
  ASSUME Typed, NEW p \in Process, RelayStep(p)
  PROVE  TodoMove(p)
  <1>p. proc \in [Process -> Local] /\ proc[p] \in Local
    BY DEF Typed, ProcOK
  <1>b. ASSUME NEW local, Become(p, local) PROVE proc'[p] = local
    BY <1>p, <1>b DEF Become
  <1>f. ASSUME NEW local, local = Flushed(p) \/ local = Aborted(p), proc'[p] = local
        PROVE  TodoMove(p)
    <2>1. CASE local = Idle
      BY <1>f, <2>1 DEF Idle, TodoMove, Holding
    <2>2. CASE local = [proc[p] EXCEPT !.pc = "ack"]
      <3>1. local.todo = proc[p].todo /\ local.pc = "ack"
        BY <1>p, <2>2 DEF Local
      <3>2. QED
        BY <1>f, <3>1 DEF TodoMove, Holding
    <2>3. CASE local = [proc[p] EXCEPT !.pc = "nack", !.spawned = {}, !.load = {}, !.create = {}, !.todo = {}]
      <3>1. local.todo = {} /\ local.pc = "nack"
        BY <1>p, <2>3 DEF Local
      <3>2. QED
        BY <1>f, <3>1 DEF TodoMove, Holding
    <2>4. QED
      BY <1>f, <2>1, <2>2, <2>3 DEF Flushed, Aborted
  <1>1. CASE ReadSpawns(p)
    <2>1. proc'[p].todo = proc[p].todo /\ proc'[p].pc = "readbox"
      BY <1>1, <1>p, <1>b DEF ReadSpawns, Local
    <2>2. QED
      BY <2>1 DEF TodoMove, Holding
  <1>2. CASE ReadOutbox(p)
    <2>1. CASE proc[p].spawned = {} /\ outbox = {}
      BY <1>2, <1>b, <1>f, <2>1 DEF ReadOutbox
    <2>2. CASE ~(proc[p].spawned = {} /\ outbox = {})
      <3>1. proc'[p].todo = outbox /\ proc'[p].pc \in {"publish", "create"}
        BY <1>2, <1>p, <1>b, <2>2 DEF ReadOutbox, Local
      <3>2. QED
        BY <3>1 DEF TodoMove, Holding
    <2>3. QED
      BY <2>1, <2>2
  <1>3. ASSUME NEW c \in Exec, LoadChild(p, c) \/ CreateChild(p, c) \/ AckSpawn(p, c) PROVE TodoMove(p)
    <2>1. proc'[p].todo = proc[p].todo /\ proc'[p].pc \in {"create", "relay", "publish"}
      <3>1. CASE LoadChild(p, c)
        BY <3>1, <1>p, <1>b DEF LoadChild, Relaying, Local
      <3>2. CASE CreateChild(p, c)
        BY <3>2, <1>p, <1>b DEF CreateChild, Relaying, Local
      <3>3. CASE AckSpawn(p, c)
        BY <3>3, <1>p, <1>b DEF AckSpawn, Relaying, Local
      <3>4. QED
        BY <1>3, <3>1, <3>2, <3>3
    <2>2. QED
      BY <2>1 DEF TodoMove, Holding
  <1>4. ASSUME NEW c \in Exec, CreateConflict(p, c) PROVE TodoMove(p)
    BY <1>4, <1>b, <1>f DEF CreateConflict
  <1>5. CASE PublishNext(p) \/ AckNext(p)
    BY <1>5 DEF TodoMove
  <1>6. QED
    BY <1>1, <1>2, <1>3, <1>4, <1>5 DEF RelayStep

LEMMA TodoNext == ASSUME Typed, [Next]_vars, NEW p \in Process PROVE TodoMove(p)
  <1>p. ProcOK /\ proc[p] \in Local /\ Worker \subseteq Process /\ Client \subseteq Process
    BY DEF Typed, ProcOK, Process
  <1>k. ASSUME NEW q \in Process, q # p, UNCHANGED proc \/ \E local : Become(q, local) PROVE TodoMove(p)
    BY <1>p, <1>k, OthersKeepTheirs DEF TodoMove
  <1>1. CASE UNCHANGED vars
    BY <1>1 DEF vars, TodoMove
  <1>2. ASSUME NEW q \in Client, Begin(q) \/ ClientStep(q) PROVE TodoMove(p)
    BY <1>2, <1>p, <1>k, ClientBecomes, ClientTodo
  <1>3. ASSUME NEW q \in Worker, WorkerStep(q) PROVE TodoMove(p)
    BY <1>3, <1>p, <1>k, WorkerBecomes, WorkerTodo
  <1>4. ASSUME NEW q \in Process, RelayStep(q) PROVE TodoMove(p)
    BY <1>4, <1>k, RelayBecomes, RelayTodo
  <1>5. ASSUME NEW q \in Worker, NEW m \in messages, Claim(q, m) PROVE TodoMove(p)
    <2>1. CASE q = p
      <3>1. proc'[p] = [Idle EXCEPT !.pc = "load", !.group = m.group, !.seq = m.seq, !.event = m.event]
        BY <1>5, <1>p, <2>1 DEF Claim, Become, ProcOK
      <3>2. QED
        BY <3>1 DEF Idle, TodoMove, Holding
    <2>2. CASE q # p
      BY <1>5, <2>2, <1>p, <1>k DEF Claim
    <2>3. QED
      BY <2>1, <2>2
  <1>6. ASSUME NEW q \in Process, Fault(q) \/ Crash(q) PROVE TodoMove(p)
    <2>1. \E local : Become(q, local)
      BY <1>6 DEF Fault, Crash
    <2>2. CASE q = p
      <3>1. proc'[p] = Idle \/ proc'[p] = [Aborted(p) EXCEPT !.pc = "park"]
        BY <1>6, <2>2, <1>p DEF Fault, Crash, Become, ProcOK
      <3>2. CASE proc'[p] = Idle
        BY <3>2 DEF Idle, TodoMove, Holding
      <3>3. CASE proc'[p] = [Aborted(p) EXCEPT !.pc = "park"]
        <4>1. proc'[p].todo = {} /\ proc'[p].pc = "park"
          BY <1>p, <3>3 DEF Aborted, Local, Idle
        <4>2. QED
          BY <4>1 DEF TodoMove, Holding
      <3>4. QED
        BY <3>1, <3>2, <3>3
    <2>3. QED
      BY <1>k, <2>1, <2>2
  <1>7. ASSUME NEW m, LeaseEnds(m) PROVE TodoMove(p)
    BY <1>7 DEF LeaseEnds, TodoMove
  <1>8. ASSUME NEW c \in Exec, BackgroundCreate(c) PROVE TodoMove(p)
    BY <1>8 DEF BackgroundCreate, TodoMove
  <1>9. QED
    BY <1>1, <1>2, <1>3, <1>4, <1>5, <1>6, <1>7, <1>8 DEF Next, ClaimOf, LeaseOf, Group
-----------------------------------------------------------------------------
(* Rows and relays *)

LEMMA NewRowsFacts ==
  ASSUME outSeq \in Nat, NEW emits \in Seq(Emission)
  PROVE  /\ \A r \in NewRows(emits) : outSeq < r.seq /\ r.seq <= outSeq + Len(emits)
         /\ \A r, s \in NewRows(emits) : r.seq = s.seq => r = s
  <1>1. \A i \in DOMAIN emits : i \in Nat /\ 0 < i /\ i <= Len(emits)
    OBVIOUS
  <1>2. ASSUME NEW r \in NewRows(emits) PROVE \E i \in DOMAIN emits : r = [seq |-> outSeq + i, to |-> emits[i].to, event |-> emits[i].event]
    BY DEF NewRows
  <1>3. ASSUME NEW r \in NewRows(emits) PROVE outSeq < r.seq /\ r.seq <= outSeq + Len(emits)
    BY <1>1, <1>2
  <1>4. ASSUME NEW r \in NewRows(emits), NEW s \in NewRows(emits), r.seq = s.seq PROVE r = s
    <2>1. PICK i \in DOMAIN emits : r = [seq |-> outSeq + i, to |-> emits[i].to, event |-> emits[i].event]
      BY <1>2
    <2>2. PICK j \in DOMAIN emits : s = [seq |-> outSeq + j, to |-> emits[j].to, event |-> emits[j].event]
      BY <1>2
    <2>3. i = j
      BY <1>1, <1>4, <2>1, <2>2
    <2>4. QED
      BY <2>1, <2>2, <2>3
  <1>5. QED
    BY <1>3, <1>4

\* A row that a step adds is younger than all there were.
LEMMA EmittedNext ==
  ASSUME Typed, RowsOK, RowsMove
  PROVE  /\ emitted \subseteq emitted' /\ outSeq <= outSeq'
         /\ \A r \in emitted' : r.seq <= outSeq' /\ (r \in emitted \/ outSeq < r.seq)
         /\ \A r, s \in emitted' : r.seq = s.seq => r = s
  <1>t. outSeq \in Nat /\ emitted \subseteq OutboxRow
    BY DEF Typed, StoreOK
  <1>1. CASE UNCHANGED <<emitted, outSeq>>
    BY <1>1, <1>t DEF RowsOK
  <1>2. ASSUME NEW x \in Exec, NEW emits \in Seq(Emission), Inserts(x, emits)
        PROVE  /\ emitted \subseteq emitted' /\ outSeq <= outSeq'
               /\ \A r \in emitted' : r.seq <= outSeq' /\ (r \in emitted \/ outSeq < r.seq)
               /\ \A r, s \in emitted' : r.seq = s.seq => r = s
    <2>1. emitted' = emitted \cup NewRows(emits) /\ outSeq' = outSeq + Len(emits) /\ Len(emits) \in Nat
      BY <1>2 DEF Inserts
    <2>2. NewRows(emits) \subseteq OutboxRow
      BY <1>t, NewRowsType
    <2>3. \A r \in emitted \cup NewRows(emits) : r.seq \in Nat
      BY <1>t, <2>2 DEF OutboxRow
    <2>4. \A r \in emitted : r.seq <= outSeq
      BY DEF RowsOK
    <2>5. \A r \in NewRows(emits) : outSeq < r.seq /\ r.seq <= outSeq + Len(emits)
      BY <1>t, NewRowsFacts
    <2>6. \A r, s \in NewRows(emits) : r.seq = s.seq => r = s
      BY <1>t, NewRowsFacts
    <2>7. \A r, s \in emitted : r.seq = s.seq => r = s
      BY DEF RowsOK
    <2>8. ASSUME NEW r \in emitted', NEW s \in emitted', r.seq = s.seq PROVE r = s
      BY <1>t, <2>1, <2>3, <2>4, <2>5, <2>6, <2>7, <2>8
    <2>9. QED
      BY <1>t, <2>1, <2>3, <2>4, <2>5, <2>8
  <1>3. QED
    BY <1>1, <1>2 DEF RowsMove

\* A flow's rows are none, the same, the outbox, or the same but the first.
LEMMA TodoIs ==
  ASSUME Typed, NEW p \in Process, TodoMove(p)
  PROVE  \/ proc'[p].todo = {} \/ proc'[p].todo = proc[p].todo \/ proc'[p].todo = outbox
         \/ \E r \in proc[p].todo : proc'[p].todo = proc[p].todo \ {r} /\ IsFirst(r, proc[p].todo)
  <1>p. proc \in [Process -> Local] /\ proc[p] \in Local
    BY DEF Typed, ProcOK
  <1>1. CASE proc'[p] = [proc[p] EXCEPT !.pc = "directack"] \/ PublishNext(p)
    BY <1>p, <1>1 DEF PublishNext, Become, Local
  <1>2. CASE AckNext(p)
    BY <1>p, <1>2 DEF AckNext, Become, Local
  <1>3. QED
    BY <1>1, <1>2 DEF TodoMove

LEMMA RowsKept ==
  ASSUME Typed, RowsOK, RowsMove, \A p \in Process : TodoMove(p)
  PROVE  RowsOK'
  <1>1. outbox' \subseteq emitted'
    BY DEF RowsMove, Inserts, RowsOK, AckDirect, AckNext
  <1>2. ASSUME NEW p \in Process PROVE proc'[p].todo \subseteq emitted'
    <2>1. proc[p].todo \subseteq emitted /\ outbox \subseteq emitted /\ emitted \subseteq emitted'
      BY EmittedNext DEF RowsOK
    <2>2. QED
      BY <2>1, TodoIs
  <1>3. QED
    BY <1>1, <1>2, EmittedNext DEF RowsOK
-----------------------------------------------------------------------------
(* Ids *)

LEMMA RowsAre ==
  ASSUME NEW emits, NEW r \in NewRows(emits)
  PROVE  \E i \in DOMAIN emits : r = [seq |-> outSeq + i, to |-> emits[i].to, event |-> emits[i].event]
  BY DEF NewRows

\* The id of a new row is of the call, or of the event, that made it.
LEMMA NewOrigin ==
  ASSUME NEW x \in Exec, NEW emits \in Seq(Emission), Origin(x, emits), NEW r \in NewRows(emits)
  PROVE  OriginOK(r)'
  <1>r. PICK i \in DOMAIN emits : r = [seq |-> outSeq + i, to |-> emits[i].to, event |-> emits[i].event]
    BY RowsAre
  <1>n. NoExec \notin Exec /\ NoEvent \notin Event
    BY DeliveryAssumption
  <1>1. ASSUME NEW e \in Event, emits = <<[to |-> x, event |-> e]>>,
               (SentTo[e] = x /\ KindOf[e] = "Start") \/ (SentTo[e] = NoExec /\ ~ByMachine(e))
        PROVE  OriginOK(r)'
    <2>1. r.event = e /\ r.to = x
      BY <1>r, <1>1
    <2>2. ~ByMachine(e)
      BY <1>1, <1>n, FreshIds
    <2>3. QED
      BY <1>1, <2>1, <2>2 DEF OriginOK, ByMachine
  <1>2. ASSUME NEW f \in Event \cup {NoEvent}, emits = Emits[x][f], IF f = NoEvent THEN Exists(x)' ELSE f \in processed'[x]
        PROVE  OriginOK(r)'
    <2>1. EmittedAt(r.event, x, f, i) /\ i \in DOMAIN Emits[x][f]
      BY <1>r, <1>2 DEF EmittedAt
    <2>2. r.event \in Event
      <3>1. emits[i] \in Emission
        OBVIOUS
      <3>2. QED
        BY <3>1, <1>r DEF Emission
    <2>3. SentTo[r.event] = NoExec
      BY <2>1, <2>2, FreshIds DEF ByMachine
    <2>4. ASSUME NEW y \in Exec, NEW g \in Event \cup {NoEvent}, NEW j \in DOMAIN Emits[y][g], EmittedAt(r.event, y, g, j)
          PROVE  y = x /\ g = f
      BY <2>1, <2>4, FreshIds DEF EmittedAt
    <2>5. QED
      BY <1>2, <2>3, <2>4 DEF OriginOK
  <1>3. QED
    BY <1>1, <1>2, <1>n DEF Origin

\* It is an id that no row had.
LEMMA NewIds ==
  ASSUME Typed, NEW x \in Exec, NEW emits \in Seq(Emission), Origin(x, emits), NEW r \in NewRows(emits), IdsOK
  PROVE  /\ \A s \in emitted : s.event # r.event
         /\ \A s \in NewRows(emits) : s.event = r.event => s = r
  <1>r. PICK i \in DOMAIN emits : r = [seq |-> outSeq + i, to |-> emits[i].to, event |-> emits[i].event]
    BY RowsAre
  <1>n. NoEvent \notin Event
    BY DeliveryAssumption
  <1>1. ASSUME NEW e \in Event, emits = <<[to |-> x, event |-> e]>>, ~Emitted(e)
        PROVE  /\ \A s \in emitted : s.event # r.event
               /\ \A s \in NewRows(emits) : s.event = r.event => s = r
    <2>1. DOMAIN emits = {1} /\ i = 1 /\ r.event = e
      BY <1>r, <1>1
    <2>2. ASSUME NEW s \in NewRows(emits) PROVE s = r
      <3>1. PICK j \in DOMAIN emits : s = [seq |-> outSeq + j, to |-> emits[j].to, event |-> emits[j].event]
        BY RowsAre
      <3>2. QED
        BY <1>r, <2>1, <3>1
    <2>3. QED
      BY <1>1, <2>1, <2>2 DEF Emitted
  <1>2. ASSUME NEW f \in Event \cup {NoEvent}, emits = Emits[x][f], IF f = NoEvent THEN ~Exists(x) ELSE f \notin processed[x]
        PROVE  /\ \A s \in emitted : s.event # r.event
               /\ \A s \in NewRows(emits) : s.event = r.event => s = r
    <2>1. EmittedAt(r.event, x, f, i) /\ i \in DOMAIN Emits[x][f]
      BY <1>r, <1>2 DEF EmittedAt
    <2>2. ASSUME NEW s \in emitted, s.event = r.event PROVE FALSE
      <3>1. OriginOK(s)
        BY DEF IdsOK
      <3>2. EmittedAt(s.event, x, f, i)
        BY <2>1, <2>2
      <3>3. IF f = NoEvent THEN Exists(x) ELSE f \in processed[x]
        BY <2>1, <3>1, <3>2 DEF OriginOK
      <3>4. QED
        BY <1>2, <3>3
    <2>3. ASSUME NEW s \in NewRows(emits), s.event = r.event PROVE s = r
      <3>1. PICK j \in DOMAIN emits : s = [seq |-> outSeq + j, to |-> emits[j].to, event |-> emits[j].event]
        BY RowsAre
      <3>2. Emits[x][f][i].event = Emits[x][f][j].event
        BY <1>r, <1>2, <2>3, <3>1
      <3>3. i = j
        BY <1>2, <3>2, FreshIds
      <3>4. QED
        BY <1>r, <3>1, <3>3
    <2>4. QED
      BY <2>2, <2>3
  <1>3. QED
    BY <1>1, <1>2, <1>n DEF Origin

LEMMA OriginStays ==
  ASSUME Typed, Moves, NEW r, OriginOK(r)
  PROVE  OriginOK(r)'
  <1>1. ASSUME NEW x \in Exec PROVE processed[x] \subseteq processed'[x] /\ (Exists(x) => Exists(x)')
    BY DEF Moves, Typed, StoreOK, Exists
  <1>2. QED
    BY <1>1 DEF OriginOK

LEMMA IdsKept ==
  ASSUME Typed, [Next]_vars, RowsOK, IdsOK, RowsMove, \A p \in Process : TodoMove(p)
  PROVE  IdsOK'
  <1>m. Moves
    BY StepMoves
  <1>e. emitted \subseteq emitted'
    BY EmittedNext
  <1>1. ASSUME NEW r \in emitted' PROVE OriginOK(r)'
    BY <1>m, OriginStays, NewOrigin DEF RowsMove, Inserts, IdsOK
  <1>2. ASSUME NEW r \in emitted', NEW s \in emitted', r.event = s.event PROVE r = s
    <2>1. CASE emitted' = emitted
      BY <1>2, <2>1 DEF IdsOK
    <2>2. ASSUME NEW x \in Exec, NEW emits \in Seq(Emission), Inserts(x, emits) PROVE r = s
      <3>1. emitted' = emitted \cup NewRows(emits) /\ Origin(x, emits)
        BY <2>2 DEF Inserts
      <3>2. CASE r \in emitted /\ s \in emitted
        BY <1>2, <3>2 DEF IdsOK
      <3>3. CASE r \in NewRows(emits)
        BY <1>2, <3>1, <3>3, NewIds
      <3>4. CASE s \in NewRows(emits)
        BY <1>2, <3>1, <3>4, NewIds
      <3>5. QED
        BY <3>1, <3>2, <3>3, <3>4
    <2>3. QED
      BY <2>1, <2>2 DEF RowsMove
  <1>3. ASSUME NEW p \in Process, proc'[p].pc \in {"direct", "directack"}
        PROVE  SentTo[proc'[p].event] = proc'[p].group /\ KindOf[proc'[p].event] = "Start"
    <2>p. proc \in [Process -> Local] /\ proc[p] \in Local
      BY DEF Typed, ProcOK
    <2>i. proc[p].pc \in {"direct", "directack"} => SentTo[proc[p].event] = proc[p].group /\ KindOf[proc[p].event] = "Start"
      BY DEF IdsOK
    <2>1. CASE proc'[p] = [proc[p] EXCEPT !.pc = "directack"] /\ proc[p].pc = "direct"
      BY <2>p, <2>i, <2>1 DEF Local
    <2>2. CASE PublishNext(p)
      BY <1>3, <2>p, <2>2 DEF PublishNext, Become, Local
    <2>3. CASE AckNext(p)
      BY <1>3, <2>p, <2>3 DEF AckNext, Become, Local
    <2>4. QED
      BY <1>3, <2>i, <2>1, <2>2, <2>3 DEF TodoMove, Holding
  <1>4. ASSUME NEW x \in Exec, NEW i \in DOMAIN arrival'[x], NEW e, arrival'[x][i] = e
        PROVE  SentTo[e] # NoExec \/ \E r \in emitted' : r.event = e
    <2>1. Emitted(e) => \E r \in emitted' : r.event = e
      BY <1>e DEF Emitted
    <2>2. CASE i \in DOMAIN arrival[x]
      <3>1. SentTo[arrival[x][i]] # NoExec \/ Emitted(arrival[x][i])
        BY <2>2 DEF IdsOK
      <3>2. arrival'[x][i] = arrival[x][i]
        BY <2>2, ArrivalNext
      <3>3. QED
        BY <1>4, <2>1, <3>1, <3>2
    <2>3. ASSUME e \in Event, Publishes(x, e) PROVE SentTo[e] # NoExec \/ Emitted(e)
      <3>1. NoExec \notin Exec
        BY DeliveryAssumption
      <3>2. QED
        BY <2>3, <3>1 DEF Publishes, IdsOK, RowsOK, Emitted, IsFirst
    <2>4. QED
      <3>1. CASE i \notin DOMAIN arrival[x]
        <4>1. e \in Event /\ Publishes(x, e)
          BY <1>4, <3>1, ArrivalNext
        <4>2. QED
          BY <2>1, <2>3, <4>1
      <3>2. QED
        BY <2>2, <3>1
  <1>5. QED
    BY <1>1, <1>2, <1>3, <1>4 DEF IdsOK, Emitted
-----------------------------------------------------------------------------
(* A row leaves the outbox once it arrived *)

LEMMA RowsTyped == ASSUME Typed, NEW r \in emitted PROVE r.seq \in Nat /\ r.to \in Exec /\ r.event \in Event
  BY DEF Typed, StoreOK, OutboxRow

LEMMA OutboxKept ==
  ASSUME Typed, [Next]_vars, RowsOK, IdsOK, RelayOK, RowsMove, NEW r \in emitted'
  PROVE  r \in outbox' \/ Arrived(r.to, r.event)'
  <1>1. CASE UNCHANGED <<outbox, emitted, outSeq>>
    BY <1>1, RowsTyped, ArrivedNext DEF RelayOK
  <1>2. ASSUME NEW x \in Exec, NEW emits \in Seq(Emission), Inserts(x, emits) PROVE r \in outbox' \/ Arrived(r.to, r.event)'
    BY <1>2, RowsTyped, ArrivedNext DEF RelayOK, Inserts
  <1>3. ASSUME NEW p \in Process, AckDirect(p), r \in emitted PROVE r \in outbox' \/ Arrived(r.to, r.event)'
    <2>1. CASE r.event # proc[p].event \/ r \notin outbox
      BY <1>3, <2>1, RowsTyped, ArrivedNext DEF AckDirect, RelayOK
    <2>2. CASE r.event = proc[p].event
      <3>1. proc[p].pc = "directack" /\ Arrived(proc[p].group, proc[p].event)
        BY <1>3 DEF AckDirect, RelayOK, ToldOK
      <3>2. SentTo[r.event] = proc[p].group /\ proc[p].group # NoExec
        BY <2>2, <3>1, DeliveryAssumption DEF IdsOK, Typed, ProcOK, LocalOK
      <3>3. r.to = proc[p].group
        BY <1>3, <3>2 DEF IdsOK, OriginOK
      <3>4. QED
        BY <1>3, <2>2, <3>1, <3>3, RowsTyped, ArrivedNext
    <2>3. QED
      BY <2>1, <2>2
  <1>4. ASSUME NEW p \in Process, AckNext(p), r \in emitted PROVE r \in outbox' \/ Arrived(r.to, r.event)'
    <2>1. PICK q \in proc[p].todo : IsFirst(q, proc[p].todo) /\ outbox' = outbox \ {q}
      BY <1>4 DEF AckNext
    <2>2. Arrived(q.to, q.event)
      BY <1>4, <2>1 DEF AckNext, Relaying, RelayOK, ToldOK
    <2>3. r \in outbox' \/ Arrived(r.to, r.event)
      BY <1>4, <2>1, <2>2 DEF RelayOK
    <2>4. QED
      BY <1>4, <2>3, RowsTyped, ArrivedNext
  <1>5. QED
    BY <1>1, <1>2, <1>3, <1>4 DEF RowsMove

\* What a flow's snapshot lacks of older rows has arrived, and stays so.
LEMMA OlderTold ==
  ASSUME Typed, [Next]_vars, RowsOK, RelayOK, RowsMove, NEW p \in Process, TodoMove(p),
         NEW s \in proc'[p].todo, NEW r \in emitted', r.seq < s.seq
  PROVE  r \in proc'[p].todo \/ Arrived(r.to, r.event)'
  <1>1. s \in emitted
    BY TodoIs DEF RowsOK
  <1>2. r \in emitted
    <2>1. outSeq \in Nat /\ s.seq \in Nat /\ s.seq <= outSeq
      BY <1>1, RowsTyped DEF RowsOK, Typed, StoreOK
    <2>2. r \in emitted \/ outSeq < r.seq
      BY EmittedNext
    <2>3. r.seq \in Nat
      <3>1. emitted' \subseteq OutboxRow
        BY TypedNext DEF Typed, StoreOK
      <3>2. QED
        BY <3>1 DEF OutboxRow
    <2>4. QED
      BY <2>1, <2>2, <2>3
  <1>3. SUFFICES r \in proc'[p].todo \/ Arrived(r.to, r.event)
    BY <1>2, RowsTyped, ArrivedNext
  <1>4. CASE proc'[p].todo = proc[p].todo
    BY <1>2, <1>4 DEF RelayOK, ToldOK
  <1>5. CASE proc'[p].todo = outbox
    BY <1>2, <1>5 DEF RelayOK
  <1>6. ASSUME NEW q \in proc[p].todo, proc'[p].todo = proc[p].todo \ {q}, AckNext(p), IsFirst(q, proc[p].todo)
        PROVE  r \in proc'[p].todo \/ Arrived(r.to, r.event)
    <2>1. Arrived(q.to, q.event)
      BY <1>6 DEF AckNext, Relaying, RelayOK, ToldOK
    <2>2. r \in proc[p].todo \/ Arrived(r.to, r.event)
      BY <1>2, <1>6 DEF RelayOK, ToldOK
    <2>3. QED
      BY <1>6, <2>1, <2>2
  <1>7. AckNext(p) => \E q \in proc[p].todo : proc'[p].todo = proc[p].todo \ {q} /\ IsFirst(q, proc[p].todo)
    <2>1. proc \in [Process -> Local] /\ proc[p] \in Local
      BY DEF Typed, ProcOK
    <2>2. QED
      BY <2>1 DEF AckNext, Become, Local
  <1>8. PublishNext(p) => proc'[p].todo = proc[p].todo
    <2>1. proc \in [Process -> Local] /\ proc[p] \in Local
      BY DEF Typed, ProcOK
    <2>2. QED
      BY <2>1 DEF PublishNext, Become, Local
  <1>9. proc'[p] = [proc[p] EXCEPT !.pc = "directack"] => proc'[p].todo = proc[p].todo
    BY DEF Typed, ProcOK, Local
  <1>10. QED
    BY <1>4, <1>5, <1>6, <1>7, <1>8, <1>9 DEF TodoMove

LEMMA ToldKept ==
  ASSUME Typed, [Next]_vars, RowsOK, RelayOK, RowsMove, NEW p \in Process, TodoMove(p)
  PROVE  ToldOK(p)'
  <1>p. proc \in [Process -> Local] /\ proc[p] \in Local
    BY DEF Typed, ProcOK
  <1>t. proc[p].todo \subseteq emitted
    BY DEF RowsOK
  <1>1. ASSUME proc'[p].pc = "directack", NEW x, x = proc'[p].group, NEW e, e = proc'[p].event PROVE Arrived(x, e)'
    <2>1. CASE proc'[p] = proc[p]
      <3>1. Arrived(x, e) /\ x \in Exec
        BY <1>1, <2>1 DEF RelayOK, ToldOK, Typed, ProcOK, LocalOK
      <3>2. QED
        BY <3>1, ArrivedNext
    <2>2. CASE proc'[p] = [proc[p] EXCEPT !.pc = "directack"] /\ proc[p].pc = "direct" /\ Publish(proc[p].group, proc[p].event)
      <3>1. x \in Exec /\ e \in Event /\ x = proc[p].group /\ e = proc[p].event
        BY <1>1, <1>p, <2>2 DEF Typed, ProcOK, LocalOK, Local
      <3>2. Publish(x, e)
        BY <2>2, <3>1
      <3>3. QED
        BY <3>1, <3>2, PublishArrives DEF Typed
    <2>3. CASE PublishNext(p)
      BY <1>1, <1>p, <2>3 DEF PublishNext, Become, Local
    <2>4. CASE AckNext(p)
      BY <1>1, <1>p, <2>4 DEF AckNext, Become, Local
    <2>5. QED
      BY <1>1, <2>1, <2>2, <2>3, <2>4 DEF TodoMove, Holding
  <1>2. ASSUME proc'[p].pc = "ackbox", NEW r \in proc'[p].todo, IsFirst(r, proc'[p].todo) PROVE Arrived(r.to, r.event)'
    <2>1. CASE proc'[p] = proc[p]
      <3>1. Arrived(r.to, r.event) /\ r.to \in Exec
        BY <1>2, <1>t, <2>1, RowsTyped DEF RelayOK, ToldOK
      <3>2. QED
        BY <3>1, ArrivedNext
    <2>2. CASE PublishNext(p)
      <3>1. PICK q \in proc[p].todo : IsFirst(q, proc[p].todo) /\ Publish(q.to, q.event)
        BY <2>2 DEF PublishNext
      <3>2. proc'[p].todo = proc[p].todo
        BY <1>p, <2>2 DEF PublishNext, Become, Local
      <3>3. r.seq = q.seq
        BY <1>2, <1>t, <3>1, <3>2, RowsTyped DEF IsFirst
      <3>4. r = q
        BY <1>2, <1>t, <3>2, <3>3 DEF RowsOK
      <3>5. QED
        BY <1>t, <3>1, <3>4, RowsTyped, PublishArrives DEF Typed
    <2>3. CASE AckNext(p)
      BY <1>2, <1>p, <2>3 DEF AckNext, Become, Local
    <2>4. CASE proc'[p] = [proc[p] EXCEPT !.pc = "directack"]
      BY <1>2, <1>p, <2>4 DEF Local
    <2>5. QED
      BY <1>2, <2>1, <2>2, <2>3, <2>4 DEF TodoMove, Holding
  <1>3. \A s \in proc'[p].todo : \A r \in emitted' : r.seq < s.seq => r \in proc'[p].todo \/ Arrived(r.to, r.event)'
    BY OlderTold
  <1>4. QED
    BY <1>1, <1>2, <1>3 DEF ToldOK, IsFirst, Arrived

LEMMA RelayKept ==
  ASSUME Typed, [Next]_vars, RowsOK, IdsOK, RelayOK, RowsMove, \A p \in Process : TodoMove(p)
  PROVE  RelayOK'
  BY OutboxKept, ToldKept DEF RelayOK
-----------------------------------------------------------------------------
(* The order of publication *)

\* A row's event that arrives now is published by a relay whose snapshot starts with that row.
LEMMA RowArrives ==
  ASSUME Typed, RowsOK, IdsOK, NEW s \in emitted, KindOf[s.event] # "Start", Publishes(s.to, s.event)
  PROVE  \E p \in Process : s \in proc[p].todo /\ IsFirst(s, proc[p].todo)
  <1>1. SentTo[s.event] = NoExec
    BY DEF IdsOK, OriginOK
  <1>2. ASSUME NEW p \in Process, proc[p].pc = "direct", proc[p].event = s.event PROVE FALSE
    BY <1>2 DEF IdsOK
  <1>3. ASSUME NEW p \in Process, NEW q \in proc[p].todo, IsFirst(q, proc[p].todo), q.event = s.event
        PROVE  q = s
    BY <1>3 DEF RowsOK, IdsOK
  <1>4. QED
    BY <1>1, <1>2, <1>3 DEF Publishes

LEMMA PublishedKept ==
  ASSUME Typed, [Next]_vars, RowsOK, IdsOK, RelayOK, PublishedInCommitOrder, RowsMove, IdsOK'
  PROVE  PublishedInCommitOrder'
  <1> SUFFICES ASSUME NEW r \in emitted', NEW s \in emitted', r.to = s.to, r.seq < s.seq, KindOf[s.event] # "Start",
                      NEW j \in DOMAIN arrival'[s.to], arrival'[s.to][j] = s.event
               PROVE  Precedes(arrival[r.to], r.event, s.event)'
    BY DEF PublishedInCommitOrder
  <1>t. emitted' \subseteq OutboxRow /\ outSeq \in Nat /\ r.to \in Exec /\ s.to \in Exec /\ r.seq \in Nat /\ s.seq \in Nat
    <2>1. emitted' \subseteq OutboxRow
      BY TypedNext DEF Typed, StoreOK
    <2>2. QED
      BY <2>1 DEF OutboxRow, Typed, StoreOK
  <1>1. s \in emitted
    <2>1. ASSUME NEW x \in Exec, NEW emits \in Seq(Emission), Inserts(x, emits), s \notin emitted PROVE FALSE
      <3>1. arrival' = arrival /\ emitted \subseteq emitted'
        BY <2>1 DEF Inserts
      <3>2. SentTo[s.event] = NoExec
        <4>1. OriginOK(s)'
          BY DEF IdsOK
        <4>2. QED
          BY <4>1 DEF OriginOK
      <3>3. Emitted(s.event)
        BY <1>t, <3>1, <3>2 DEF IdsOK
      <3>4. PICK q \in emitted : q.event = s.event
        BY <3>3 DEF Emitted
      <3>5. q = s
        BY <3>1, <3>4 DEF IdsOK
      <3>6. QED
        BY <2>1, <3>4, <3>5
    <2>2. QED
      BY <2>1 DEF RowsMove
  <1>2. r \in emitted
    <2>1. s.seq <= outSeq
      BY <1>1 DEF RowsOK
    <2>2. r \in emitted \/ outSeq < r.seq
      BY EmittedNext
    <2>3. QED
      BY <1>t, <2>1, <2>2
  <1>3. CASE j \in DOMAIN arrival[s.to]
    <2>1. arrival[s.to][j] = s.event
      BY <1>t, <1>3, ArrivalNext
    <2>2. Precedes(arrival[r.to], r.event, s.event)
      BY <1>1, <1>2, <1>3, <2>1 DEF PublishedInCommitOrder
    <2>3. QED
      BY <1>t, <2>2, PrecedesNext
  <1>4. CASE j \notin DOMAIN arrival[s.to]
    <2>1. Publishes(s.to, s.event) /\ j = Len(arrival[s.to]) + 1
      BY <1>t, <1>4, ArrivalNext
    <2>2. PICK p \in Process : s \in proc[p].todo /\ IsFirst(s, proc[p].todo)
      BY <1>1, <2>1, RowArrives
    <2>3. r \notin proc[p].todo
      BY <1>t, <2>2 DEF IsFirst
    <2>4. Arrived(r.to, r.event)
      BY <1>2, <2>2, <2>3 DEF RelayOK, ToldOK
    <2>5. PICK i \in DOMAIN arrival[r.to] : arrival[r.to][i] = r.event
      BY <2>4 DEF Arrived
    <2>6. i \in DOMAIN arrival'[r.to] /\ arrival'[r.to][i] = r.event
      BY <1>t, <2>5, ArrivalNext
    <2>7. i < j
      <3>1. arrival[r.to] \in Seq(Event)
        BY <1>t DEF Typed, TransportOK
      <3>2. QED
        BY <2>1, <2>5, <3>1
    <2>8. QED
      BY <2>6, <2>7 DEF Precedes
  <1>5. QED
    BY <1>3, <1>4
-----------------------------------------------------------------------------
(* Children *)

\* The three things that happen to the spawns.
SpawnsMove ==
  \/ UNCHANGED <<spawns, forked>>
  \/ \E children : spawns' = spawns \cup children /\ forked' = forked \cup children
  \/ /\ UNCHANGED forked
     /\ \E p \in Process : /\ proc[p].pc = "create" /\ proc[p].load = {} /\ proc[p].create = {}
                           /\ spawns \ proc[p].spawned \subseteq spawns'

LEMMA CommitSpawns ==
  ASSUME NEW x, NEW version, NEW status, NEW emits, NEW event, NEW children,
         Commit(x, version, status, emits, event, children)
  PROVE  SpawnsMove
  BY DEF Commit, SpawnsMove

LEMMA SpawnsNext == ASSUME Typed, [Next]_vars PROVE SpawnsMove
  <1>1. CASE UNCHANGED vars
    BY <1>1 DEF vars, store, history, SpawnsMove
  <1>2. ASSUME NEW p \in Client, Begin(p) \/ ClientStep(p) PROVE SpawnsMove
    <2>1. ASSUME NEW x \in Exec, NEW e \in Event, Create(p, x, e) \/ StartDeferred(p, x, e) \/ CancelCooperatively(p, x, e)
          PROVE  SpawnsMove
      BY <2>1, CommitSpawns DEF Create, StartDeferred, CancelCooperatively
    <2>2. ASSUME NEW x \in Exec, CreateDeferred(p, x) PROVE SpawnsMove
      BY <2>2, CommitSpawns DEF CreateDeferred
    <2>3. ASSUME NEW x \in Exec, SetStatus(p, x) PROVE SpawnsMove
      <3>1. CASE exe[x].status \in {"CANCELLED", "DONE"}
        BY <2>3, <3>1 DEF SetStatus, store, SpawnsMove
      <3>2. CASE exe[x].status \notin {"CANCELLED", "DONE"}
        BY <2>3, <3>2, CommitSpawns DEF SetStatus
      <3>3. QED
        BY <3>1, <3>2
    <2>4. ASSUME NEW x \in Exec, Suspend(p, x) \/ Resume(p, x) \/ Terminate(p, x) \/ CancelForcefully(p, x) \/ Propagate(p, x)
          PROVE  SpawnsMove
      BY <2>4 DEF Suspend, Resume, Terminate, CancelForcefully, Propagate, Look, store, history, SpawnsMove
    <2>5. ASSUME NEW e \in Event, Send(p, e) PROVE SpawnsMove
      BY <2>5 DEF Send, store, SpawnsMove
    <2>6. CASE PublishDirect(p) \/ CommandDone(p) \/ AckDirect(p)
      BY <2>6 DEF PublishDirect, CommandDone, AckDirect, store, history, SpawnsMove
    <2>7. QED
      BY <1>2, <2>1, <2>2, <2>3, <2>4, <2>5, <2>6 DEF Begin, ClientStep
  <1>3. ASSUME NEW w \in Worker, WorkerStep(w) PROVE SpawnsMove
    <2>1. CASE Run(w)
      BY <2>1, CommitSpawns DEF Run
    <2>2. CASE ~Run(w)
      BY <1>3, <2>2 DEF WorkerStep, Load, Dedupe, Conflict, Ack, Nack, Park, store, history, SpawnsMove
    <2>3. QED
      BY <2>1, <2>2
  <1>4. ASSUME NEW p \in Process, RelayStep(p) PROVE SpawnsMove
    <2>1. ASSUME NEW c \in Exec, CreateChild(p, c) PROVE SpawnsMove
      BY <2>1, CommitSpawns DEF CreateChild, StartChild
    <2>2. ASSUME NEW c \in Exec, AckSpawn(p, c) PROVE SpawnsMove
      BY <2>2 DEF AckSpawn, Relaying, history, SpawnsMove
    <2>3. CASE ReadSpawns(p) \/ ReadOutbox(p) \/ PublishNext(p) \/ AckNext(p)
      BY <2>3 DEF ReadSpawns, ReadOutbox, PublishNext, AckNext, store, history, SpawnsMove
    <2>4. ASSUME NEW c \in Exec, LoadChild(p, c) \/ CreateConflict(p, c) PROVE SpawnsMove
      BY <2>4 DEF LoadChild, CreateConflict, store, history, SpawnsMove
    <2>5. QED
      BY <1>4, <2>1, <2>2, <2>3, <2>4 DEF RelayStep
  <1>5. ASSUME NEW c \in Exec, BackgroundCreate(c) PROVE SpawnsMove
    <2>1. CASE Exists(c)
      BY <1>5, <2>1 DEF BackgroundCreate, store, SpawnsMove
    <2>2. CASE ~Exists(c)
      BY <1>5, <2>2, CommitSpawns DEF BackgroundCreate, StartChild
    <2>3. QED
      BY <2>1, <2>2
  <1>6. ASSUME NEW w, NEW m, Claim(w, m) \/ LeaseEnds(m) PROVE SpawnsMove
    BY <1>6 DEF Claim, LeaseEnds, store, history, SpawnsMove
  <1>7. ASSUME NEW p \in Process, Fault(p) PROVE SpawnsMove
    <2>1. forked' = forked
      BY <1>7 DEF Fault, history
    <2>2. CASE UNCHANGED spawns
      BY <2>1, <2>2 DEF SpawnsMove
    <2>3. ASSUME proc[p].pc = "create", NEW c \in proc[p].spawned, proc[p].load = {}, proc[p].create = {},
                 spawns' = spawns \ (proc[p].spawned \ {c})
          PROVE  SpawnsMove
      BY <2>1, <2>3 DEF SpawnsMove
    <2>4. QED
      BY <1>7, <2>2, <2>3 DEF Fault
  <1>8. ASSUME NEW p, Crash(p) PROVE SpawnsMove
    BY <1>8 DEF Crash, store, history, SpawnsMove
  <1>9. QED
    BY <1>1, <1>2, <1>3, <1>4, <1>5, <1>6, <1>7, <1>8 DEF Next, ClaimOf, LeaseOf

LEMMA StartExists == ASSUME Typed, NEW c \in Exec, StartChild(c) PROVE Exists(c)'
  BY DEF StartChild, Commit, Exists, Typed, StoreOK

LEMMA CareKept ==
  ASSUME Typed, [Next]_vars, NEW p \in Process, NEW q \in Process, proc[p].pc = "create" => Cared(p), proc'[p].pc = "create",
         p # q, UNCHANGED proc \/ \E local : Become(q, local)
  PROVE  Cared(p)'
  <1>1. proc'[p] = proc[p]
    BY OthersKeepTheirs DEF Typed
  <1>2. \A c \in proc[p].spawned : Exists(c) => Exists(c)'
    <2>1. proc[p].spawned \subseteq Exec
      BY DEF Typed, ProcOK, Local
    <2>2. QED
      BY <2>1, StepMoves DEF Moves, Typed, StoreOK, Exists
  <1>3. QED
    BY <1>1, <1>2 DEF Cared

LEMMA CareNext ==
  ASSUME Typed, [Next]_vars, NEW p \in Process, proc[p].pc = "create" => Cared(p), proc'[p].pc = "create"
  PROVE  Cared(p)'
  <1>p. proc \in [Process -> Local] /\ proc[p] \in Local /\ Worker \subseteq Process /\ Client \subseteq Process
    BY DEF Typed, ProcOK, Process
  <1>b. ASSUME NEW local, Become(p, local) PROVE proc'[p] = local
    BY <1>p, <1>b DEF Become
  <1>k. ASSUME NEW q \in Process, q # p, UNCHANGED proc \/ \E local : Become(q, local) PROVE Cared(p)'
    BY <1>k, CareKept
  <1>e. ASSUME NEW c \in proc[p].spawned, Exists(c) PROVE Exists(c)'
    <2>1. proc[p].spawned \subseteq Exec
      BY <1>p DEF Local
    <2>2. QED
      BY <1>e, <2>1, StepMoves DEF Moves, Typed, StoreOK, Exists
  <1>s. CASE proc'[p] = proc[p]
    BY <1>e, <1>s DEF Cared
  <1>1. CASE UNCHANGED vars
    BY <1>1, <1>s DEF vars
  <1>2. ASSUME NEW q \in Client, Begin(q) \/ ClientStep(q), q = p PROVE Cared(p)'
    <2>1. ASSUME NEW x \in Exec, SetStatus(p, x) \/ Propagate(p, x) PROVE FALSE
      BY <2>1, <1>p, <1>b DEF SetStatus, Propagate, Commanding, Local
    <2>2. ASSUME NEW x \in Exec, NEW e \in Event, Create(p, x, e) \/ StartDeferred(p, x, e) \/ CancelCooperatively(p, x, e)
          PROVE  FALSE
      <3>1. proc'[p].pc \in {"direct", "cancel"}
        <4>1. CASE Create(p, x, e)
          BY <4>1, <1>b DEF Create, Idle
        <4>2. CASE StartDeferred(p, x, e)
          BY <4>2, <1>b DEF StartDeferred, Idle
        <4>3. CASE CancelCooperatively(p, x, e)
          BY <4>3, <1>b DEF CancelCooperatively, Idle
        <4>4. QED
          BY <2>2, <4>1, <4>2, <4>3
      <3>2. QED
        BY <3>1
    <2>3. ASSUME NEW x \in Exec, NEW seen, NEW status, NEW pc \in {"command", "cancel"}, Look(p, x, seen, status, pc) PROVE FALSE
      BY <2>3, <1>b DEF Look, Idle
    <2>4. ASSUME NEW x \in Exec, Suspend(p, x) \/ Resume(p, x) \/ Terminate(p, x) \/ CancelForcefully(p, x) PROVE FALSE
      BY <2>3, <2>4 DEF Suspend, Resume, Terminate, CancelForcefully
    <2>5. CASE CommandDone(p) \/ AckDirect(p)
      BY <2>5, <1>b DEF CommandDone, AckDirect, Idle
    <2>6. CASE PublishDirect(p)
      BY <2>6, <1>p, <1>b DEF PublishDirect, Local
    <2>7. ASSUME NEW x \in Exec, CreateDeferred(p, x) PROVE proc'[p] = proc[p]
      BY <2>7 DEF CreateDeferred
    <2>8. ASSUME NEW e \in Event, Send(p, e) PROVE proc'[p] = proc[p]
      BY <2>8 DEF Send
    <2>9. QED
      BY <1>2, <1>s, <2>1, <2>2, <2>4, <2>5, <2>6, <2>7, <2>8 DEF Begin, ClientStep
  <1>3. ASSUME NEW q \in Worker, WorkerStep(q), q = p PROVE Cared(p)'
    <2>1. CASE Ack(p) \/ Nack(p) \/ Park(p)
      <3>1. proc'[p] = Idle
        BY <2>1, <1>b DEF Ack, Nack, Park
      <3>2. QED
        BY <3>1 DEF Idle
    <2>2. CASE Load(p) \/ Dedupe(p) \/ Run(p) \/ Conflict(p)
      <3>1. proc'[p].pc \in {"dedupe", "ack", "park", "route", "relay", "nack"}
        BY <2>2, <1>p, <1>b DEF Load, Dedupe, Run, Conflict, Local
      <3>2. QED
        BY <3>1
    <2>3. QED
      BY <1>3, <2>1, <2>2 DEF WorkerStep
  <1>4. CASE RelayStep(p)
    <2>1. CASE ReadSpawns(p)
      BY <2>1, <1>p, <1>b DEF ReadSpawns, Local
    <2>2. CASE ReadOutbox(p)
      <3>1. CASE proc[p].spawned = {} /\ outbox = {}
        BY <2>2, <1>p, <1>b, <3>1 DEF ReadOutbox, Flushed, Idle, Local
      <3>2. CASE ~(proc[p].spawned = {} /\ outbox = {})
        <4>1. proc'[p].spawned = proc[p].spawned /\ proc'[p].load = proc[p].spawned
          BY <2>2, <1>p, <1>b, <3>2 DEF ReadOutbox, Local
        <4>2. QED
          BY <4>1 DEF Cared
      <3>3. QED
        BY <3>1, <3>2
    <2>3. CASE PublishNext(p)
      BY <2>3, <1>p, <1>b DEF PublishNext, Local
    <2>4. CASE AckNext(p)
      BY <2>4, <1>p, <1>b DEF AckNext, Local
    <2>5. ASSUME NEW c \in Exec, LoadChild(p, c) PROVE Cared(p)'
      <3>1. /\ proc'[p].spawned = proc[p].spawned /\ proc'[p].load = proc[p].load \ {c}
            /\ proc'[p].create = IF Exists(c) THEN proc[p].create ELSE proc[p].create \cup {c}
            /\ proc[p].pc = "create"
        BY <2>5, <1>p, <1>b DEF LoadChild, Relaying, Local
      <3>2. QED
        BY <3>1, <1>e DEF Cared
    <2>6. ASSUME NEW c \in Exec, CreateChild(p, c) PROVE Cared(p)'
      <3>1. /\ proc'[p].spawned = proc[p].spawned /\ proc'[p].load = proc[p].load
            /\ proc'[p].create = proc[p].create \ {c} /\ proc[p].pc = "create" /\ StartChild(c)
        BY <2>6, <1>p, <1>b DEF CreateChild, Relaying, Local
      <3>2. Exists(c)'
        BY <3>1, StartExists
      <3>3. QED
        BY <3>1, <3>2, <1>e DEF Cared
    <2>7. ASSUME NEW c \in Exec, CreateConflict(p, c) PROVE Cared(p)'
      <3>1. proc'[p] = Aborted(p)
        BY <2>7, <1>b DEF CreateConflict
      <3>2. Aborted(p).pc \in {"nack", "idle"}
        BY <1>p DEF Aborted, Idle, Local
      <3>3. QED
        BY <3>1, <3>2
    <2>8. ASSUME NEW c \in Exec, AckSpawn(p, c) PROVE Cared(p)'
      <3>1. /\ proc'[p].spawned = proc[p].spawned \ {c} /\ proc'[p].load = proc[p].load
            /\ proc'[p].create = proc[p].create /\ proc[p].pc = "create"
        BY <2>8, <1>p, <1>b DEF AckSpawn, Relaying, Local
      <3>2. QED
        BY <3>1, <1>e DEF Cared
    <2>9. QED
      BY <1>4, <2>1, <2>2, <2>3, <2>4, <2>5, <2>6, <2>7, <2>8 DEF RelayStep
  <1>5. ASSUME NEW q \in Worker, NEW m \in messages, Claim(q, m), q = p PROVE Cared(p)'
    BY <1>5, <1>b DEF Claim, Idle
  <1>6. ASSUME NEW q \in Process, Fault(q) \/ Crash(q), q = p PROVE Cared(p)'
    <2>1. proc'[p] = Idle \/ proc'[p] = [Aborted(p) EXCEPT !.pc = "park"]
      BY <1>6, <1>b DEF Fault, Crash
    <2>2. QED
      BY <2>1, <1>p DEF Aborted, Idle, Local
  <1>7. ASSUME NEW m, NEW c \in Exec, LeaseEnds(m) \/ BackgroundCreate(c) PROVE Cared(p)'
    BY <1>7, <1>s DEF LeaseEnds, BackgroundCreate
  <1>8. ASSUME NEW q \in Client, Begin(q) \/ ClientStep(q) PROVE Cared(p)'
    BY <1>8, <1>2, <1>k, <1>p, ClientBecomes
  <1>9. ASSUME NEW q \in Worker, WorkerStep(q) PROVE Cared(p)'
    BY <1>9, <1>3, <1>k, <1>p, WorkerBecomes
  <1>10. ASSUME NEW q \in Process, RelayStep(q) PROVE Cared(p)'
    BY <1>10, <1>4, <1>k, RelayBecomes
  <1>11. ASSUME NEW q \in Worker, NEW m \in messages, Claim(q, m) PROVE Cared(p)'
    BY <1>11, <1>5, <1>k, <1>p DEF Claim
  <1>12. ASSUME NEW q \in Process, Fault(q) \/ Crash(q) PROVE Cared(p)'
    BY <1>12, <1>6, <1>k DEF Fault, Crash
  <1>13. QED
    BY <1>1, <1>7, <1>8, <1>9, <1>10, <1>11, <1>12 DEF Next, ClaimOf, LeaseOf, Group

LEMMA ChildrenKept ==
  ASSUME Typed, [Next]_vars, NoChildLost, \A p \in Process : proc[p].pc = "create" => Cared(p)
  PROVE  NoChildLost' /\ \A p \in Process : proc'[p].pc = "create" => Cared(p)'
  <1>e. ASSUME NEW c \in Exec, Exists(c) PROVE Exists(c)'
    BY <1>e, StepMoves DEF Moves, Typed, StoreOK, Exists
  <1>t. forked \subseteq Exec
    BY DEF Typed, StoreOK
  <1>1. ASSUME UNCHANGED <<spawns, forked>> PROVE NoChildLost'
    BY <1>1, <1>e, <1>t DEF NoChildLost
  <1>2. ASSUME NEW children, spawns' = spawns \cup children, forked' = forked \cup children PROVE NoChildLost'
    BY <1>2, <1>e, <1>t DEF NoChildLost
  <1>3. ASSUME NEW p \in Process, proc[p].pc = "create", proc[p].load = {}, proc[p].create = {},
               spawns \ proc[p].spawned \subseteq spawns', forked' = forked
        PROVE  NoChildLost'
    <2>1. \A c \in proc[p].spawned : Exists(c)
      BY <1>3 DEF Cared
    <2>2. QED
      BY <1>3, <1>e, <1>t, <2>1 DEF NoChildLost
  <1>4. NoChildLost'
    BY <1>1, <1>2, <1>3, SpawnsNext DEF SpawnsMove
  <1>5. QED
    BY <1>4, CareNext
-----------------------------------------------------------------------------
RowsInv == QueueInv /\ RowsOK /\ IdsOK /\ RelayOK /\ ChildrenOK /\ PublishedInCommitOrder

LEMMA RowsInit == Init => RowsInv
  <1> SUFFICES ASSUME Init PROVE RowsInv
    OBVIOUS
  <1>1. QueueInv
    BY QueueInit
  <1>2. RowsOK
    BY DEF Init, RowsOK, Idle
  <1>3. IdsOK
    BY DEF Init, IdsOK, Idle
  <1>4. RelayOK
    BY DEF Init, RelayOK, ToldOK, Idle
  <1>5. ChildrenOK
    BY DEF Init, ChildrenOK, NoChildLost, Idle
  <1>6. PublishedInCommitOrder
    BY DEF Init, PublishedInCommitOrder
  <1>7. QED
    BY <1>1, <1>2, <1>3, <1>4, <1>5, <1>6 DEF RowsInv

LEMMA RowsInvNext == RowsInv /\ [Next]_vars => RowsInv'
  <1> SUFFICES ASSUME RowsInv, [Next]_vars PROVE RowsInv'
    OBVIOUS
  <1>0. QueueInv /\ IInv /\ Typed /\ RowsOK /\ IdsOK /\ RelayOK /\ ChildrenOK /\ PublishedInCommitOrder
    BY DEF RowsInv, QueueInv, IInv
  <1>m. RowsMove /\ \A p \in Process : TodoMove(p)
    BY <1>0, RowsNext, TodoNext
  <1>1. QueueInv'
    BY <1>0, QueueNext
  <1>2. RowsOK'
    BY <1>0, <1>m, RowsKept
  <1>3. IdsOK'
    BY <1>0, <1>m, IdsKept
  <1>4. RelayOK'
    BY <1>0, <1>m, RelayKept
  <1>5. ChildrenOK'
    BY <1>0, ChildrenKept DEF ChildrenOK
  <1>6. PublishedInCommitOrder'
    BY <1>0, <1>m, <1>3, PublishedKept
  <1>7. QED
    BY <1>1, <1>2, <1>3, <1>4, <1>5, <1>6 DEF RowsInv

LEMMA RowsAlways == Spec => []RowsInv
  BY RowsInit, RowsInvNext, PTL DEF Spec

\* A row's event reaches its target's group only after every older row's for that target,
\* although any number of relays drain the same outbox.
THEOREM PublishedInOrder == Spec => []PublishedInCommitOrder
  BY RowsAlways, PTL DEF RowsInv

LEMMA RowsWait == RowsInv => NoRowLost
  <1> SUFFICES ASSUME RowsInv, NEW r \in emitted, r \notin outbox
               PROVE  Handled(r.to, r.event) \/ \E m \in Group(r.to) : m.event = r.event
    BY DEF NoRowLost, Handled
  <1>1. Arrived(r.to, r.event) /\ r.to \in Exec
    BY RowsTyped DEF RowsInv, RelayOK, QueueInv, IInv
  <1>2. Handled(r.to, r.event) \/ Queued(r.to, r.event)
    BY <1>1 DEF Arrived, RowsInv, QueueInv, NothingVanishes
  <1>3. QED
    BY <1>2 DEF Queued, Group

\* Whatever a commit enqueues, an event for another execution or a child to create, is owed,
\* on its way or done, whoever stops or fails in between.
THEOREM NothingIsLost == Spec => []NothingLost
  <1>1. RowsInv => NothingLost
    BY RowsWait DEF NothingLost, RowsInv, ChildrenOK
  <1>2. QED
    BY <1>1, RowsAlways, PTL
=============================================================================
