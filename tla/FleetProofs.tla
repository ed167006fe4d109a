----------------------------- MODULE FleetProofs -----------------------------
(***************************************************************************)
(* What the publication of machines at a worker's start gives, for every   *)
(* set of workers, images, sources and executions, and any deployment of   *)
(* them.  The argument: the store never has two sources of one release; a  *)
(* worker takes work only once the store has every source of its files; so *)
(* whatever a lookup finds is the one published source of the release, and *)
(* a started execution records it.                                         *)
(***************************************************************************)
EXTENDS Fleet, TLAPS

Typed ==
    /\ published \subseteq Sources
    /\ phase \in [Workers -> {"down", "publishing", "up", "stopping"}]
    /\ image \in [Workers -> Images]
    /\ todo \in [Workers -> SUBSET Sources]
    /\ clash \in [Workers -> BOOLEAN]
    /\ exe \in [Executions -> Records]
    /\ task \in [Executions -> Tasks]

OnePerRelease == \A s, t \in published : SameRelease(s, t) => s = t

(* A worker on its way has published, or is still to publish, what it has, or was refused. *)
PublishOK(w) ==
    /\ phase[w] = "publishing" => clash[w] \/ \A s \in Own[image[w]] : s \in todo[w] \/ s \in published
    /\ Working(w) => Own[image[w]] \subseteq published

(* A started execution records the published source of its release, and ran no other. *)
RecordOK(x) ==
    /\ x.status # "FAILED" /\ (x.status = "absent" => x = Absent)
    /\ x.at = "none" => x.status \in {"absent", "PENDING"} /\ x.ran = {}
    /\ Started(x) => x.digest = NoSource \/ x.digest \in OfRelease(published, x)
    /\ x.ran \subseteq {x.digest} /\ NoSource \notin x.ran

(* A step under way has found the published source of the release. *)
StepOK(e) ==
    task[e].at = "run" => exe[e].status # "absent" /\ task[e].first \in OfRelease(published, exe[e])

IInv ==
    /\ Typed /\ OnePerRelease
    /\ \A w \in Workers : PublishOK(w)
    /\ \A e \in Executions : RecordOK(exe[e]) /\ StepOK(e)
-----------------------------------------------------------------------------
(* What a step leaves alone. *)

Quiet == UNCHANGED <<published, phase, image, todo, clash, exe, task>>

LEMMA QuietKept == IInv /\ Quiet => IInv'
  BY DEF IInv, Quiet, Typed, OnePerRelease, PublishOK, RecordOK, StepOK, Working, SameRelease, OfRelease, Started

(* What is published stays, so the records and the steps under way stay right. *)
LEMMA MorePublished ==
    ASSUME IInv, published \subseteq published', UNCHANGED <<exe, task>>
    PROVE  \A e \in Executions : RecordOK(exe[e])' /\ StepOK(e)'
  BY DEF IInv, RecordOK, StepOK, OfRelease, Started

(* A step of the task of one execution that runs nothing. *)
LEMMA TaskKept ==
    ASSUME IInv, NEW e \in Executions, NEW t \in Tasks, task' = [task EXCEPT ![e] = t],
           t.at = "run" => exe[e].status # "absent" /\ t.first \in OfRelease(published, exe[e]),
           UNCHANGED <<published, phase, image, todo, clash, exe>>
    PROVE  IInv'
  <1>1. Typed'
    BY DEF IInv, Typed
  <1>2. OnePerRelease'
    BY DEF IInv, OnePerRelease, SameRelease
  <1>3. \A w \in Workers : PublishOK(w)'
    BY DEF IInv, PublishOK, Working
  <1>4. ASSUME NEW d \in Executions PROVE RecordOK(exe[d])' /\ StepOK(d)'
    <2>1. RecordOK(exe[d]) /\ StepOK(d)
      BY DEF IInv
    <2>2. RecordOK(exe[d])'
      BY <2>1 DEF RecordOK, OfRelease, Started
    <2>3. StepOK(d)'
      BY <2>1 DEF IInv, Typed, StepOK, OfRelease
    <2>4. QED
      BY <2>2, <2>3
  <1>5. QED
    BY <1>1, <1>2, <1>3, <1>4 DEF IInv
-----------------------------------------------------------------------------
(* The processes. *)

LEMMA BootKept ==
    ASSUME IInv, Publishing = Workers, NEW w \in Workers, NEW i \in Deploys[w], Boot(w, i)
    PROVE  IInv'
  <1>1. i \in Images /\ Own[i] \subseteq Sources
    BY FleetAssumption
  <1>2. Typed'
    BY <1>1 DEF IInv, Typed, Boot, store, group
  <1>3. OnePerRelease'
    BY DEF IInv, OnePerRelease, Boot, store, SameRelease
  <1>4. ASSUME NEW v \in Workers PROVE PublishOK(v)'
    <2>1. CASE v = w
      BY <2>1 DEF IInv, Typed, PublishOK, Boot, Working, store
    <2>2. CASE v # w
      BY <2>2 DEF IInv, Typed, PublishOK, Boot, Working, store
    <2>3. QED
      BY <2>1, <2>2
  <1>5. \A e \in Executions : RecordOK(exe[e])' /\ StepOK(e)'
    BY MorePublished DEF Boot, store
  <1>6. QED
    BY <1>2, <1>3, <1>4, <1>5 DEF IInv

(* The first source of a release stays. *)
LEMMA StoredIs ==
    ASSUME IInv, NEW s \in Sources
    PROVE  /\ Stored(s) \subseteq Sources
           /\ \A t, u \in published \cup Stored(s) : SameRelease(t, u) => t = u
  <1>1. CASE \E t \in published : SameRelease(s, t)
    <2>1. Stored(s) \subseteq published
      BY <1>1 DEF Stored
    <2>2. QED
      BY <2>1 DEF IInv, Typed, OnePerRelease
  <1>2. CASE ~\E t \in published : SameRelease(s, t)
    <2>1. Stored(s) = {s}
      BY <1>2 DEF Stored
    <2>2. \A t \in published : ~SameRelease(t, s)
      BY <1>2 DEF SameRelease
    <2>3. QED
      BY <1>2, <2>1, <2>2 DEF IInv, OnePerRelease
  <1>3. QED
    BY <1>1, <1>2

LEMMA PublishKept ==
    ASSUME IInv, NEW w \in Workers, NEW s \in Sources, Publish(w, s)
    PROVE  IInv'
  <1>1. published' = published \cup Stored(s)
    BY DEF Publish
  <1>2. Typed'
    BY <1>1, StoredIs DEF IInv, Typed, Publish
  <1>3. OnePerRelease'
    BY <1>1, StoredIs DEF OnePerRelease, SameRelease
  <1>4. ASSUME NEW v \in Workers PROVE PublishOK(v)'
    <2>1. PublishOK(v)
      BY DEF IInv
    <2>2. CASE v = w
      BY <1>1, <2>1, <2>2 DEF IInv, Typed, PublishOK, Publish, Working
    <2>3. CASE v # w
      BY <1>1, <2>1, <2>3 DEF IInv, Typed, PublishOK, Publish, Working
    <2>4. QED
      BY <2>2, <2>3
  <1>5. \A e \in Executions : RecordOK(exe[e])' /\ StepOK(e)'
    BY <1>1, MorePublished DEF Publish
  <1>6. QED
    BY <1>2, <1>3, <1>4, <1>5 DEF IInv

LEMMA PhaseKept ==
    ASSUME IInv, NEW w \in Workers, Ready(w) \/ Stop(w) \/ Stopped(w)
    PROVE  IInv'
  <1>1. UNCHANGED <<published, image, todo, clash, exe, task>>
    BY DEF Ready, Stop, Stopped, store
  <1>2. Typed'
    BY <1>1 DEF IInv, Typed, Ready, Stop, Stopped
  <1>3. OnePerRelease'
    BY <1>1 DEF IInv, OnePerRelease, SameRelease
  <1>4. ASSUME NEW v \in Workers PROVE PublishOK(v)'
    <2>1. PublishOK(v)
      BY DEF IInv
    <2>2. CASE v = w
      BY <1>1, <2>1, <2>2 DEF IInv, Typed, PublishOK, Ready, Stop, Stopped, Working
    <2>3. CASE v # w
      BY <1>1, <2>1, <2>3 DEF IInv, Typed, PublishOK, Ready, Stop, Stopped, Working
    <2>4. QED
      BY <2>2, <2>3
  <1>5. \A e \in Executions : RecordOK(exe[e])' /\ StepOK(e)'
    BY <1>1, MorePublished
  <1>6. QED
    BY <1>2, <1>3, <1>4, <1>5 DEF IInv

LEMMA CrashKept ==
    ASSUME IInv, NEW w \in Workers, Crash(w)
    PROVE  IInv'
  <1>1. UNCHANGED <<published, image, clash, exe>>
    BY DEF Crash, store
  <1>2. ASSUME NEW e \in Executions PROVE task'[e] \in Tasks /\ (task'[e].at = "run" => task'[e] = task[e])
    <2>1. task[e] \in Tasks
      BY DEF IInv, Typed
    <2>2. task'[e] = task[e] \/ task'[e] = [task[e] EXCEPT !.at = "lost", !.saw = {}]
      BY DEF Crash
    <2>3. QED
      BY <2>1, <2>2 DEF Tasks
  <1>3. Typed'
    <2>1. task' \in [Executions -> Tasks]
      BY <1>2 DEF Crash
    <2>2. QED
      BY <1>1, <2>1 DEF IInv, Typed, Crash
  <1>4. OnePerRelease'
    BY <1>1 DEF IInv, OnePerRelease, SameRelease
  <1>5. ASSUME NEW v \in Workers PROVE PublishOK(v)'
    <2>1. PublishOK(v)
      BY DEF IInv
    <2>2. CASE v = w
      BY <1>1, <2>1, <2>2 DEF IInv, Typed, PublishOK, Crash, Working
    <2>3. CASE v # w
      BY <1>1, <2>1, <2>3 DEF IInv, Typed, PublishOK, Crash, Working
    <2>4. QED
      BY <2>2, <2>3
  <1>6. ASSUME NEW e \in Executions PROVE RecordOK(exe[e])' /\ StepOK(e)'
    BY <1>1, <1>2 DEF IInv, RecordOK, StepOK, OfRelease, Started
  <1>7. QED
    BY <1>3, <1>4, <1>5, <1>6 DEF IInv
-----------------------------------------------------------------------------
(* The lookups. *)

LEMMA LookupIs ==
    ASSUME IInv, NEW w \in Workers, Working(w), NEW x, NEW s \in Lookup(image[w], x)
    PROVE  s \in OfRelease(published, x)
  <1>1. Own[image[w]] \subseteq published
    BY DEF IInv, PublishOK
  <1>2. s \in OfRelease(Own[image[w]], x) \/ s \in OfRelease(published, x)
    BY DEF Lookup
  <1>3. QED
    BY <1>1, <1>2 DEF OfRelease

LEMMA OneOfRelease ==
    ASSUME IInv, NEW x, NEW s \in OfRelease(published, x), NEW t \in OfRelease(published, x)
    PROVE  s = t
  BY DEF IInv, OnePerRelease, OfRelease, SameRelease

LEMMA AliveWorks == ASSUME NEW e \in Executions, Alive(e) PROVE task[e].by \in Workers /\ Working(task[e].by)
  BY DEF Alive, Working

LEMMA LookKept == ASSUME IInv, NEW e \in Executions, Look(e) PROVE IInv'
  <1> DEFINE w == task[e].by
  <1>1. w \in Workers /\ Working(w)
    BY AliveWorks DEF Look, At
  <1>2. PICK s \in Lookup(image[w], exe[e]) : task' = [task EXCEPT ![e].at = "run", ![e].first = s]
    BY DEF Look
  <1>3. s \in OfRelease(published, exe[e]) /\ s \in Sources
    BY <1>1, LookupIs DEF OfRelease, IInv, Typed
  <1>4. exe[e].status # "absent"
    <2>1. exe[e] # Absent
      BY DEF Look, Dropped
    <2>2. QED
      BY <2>1 DEF IInv, RecordOK
  <1> DEFINE t == [task[e] EXCEPT !.at = "run", !.first = s]
  <1>5. t \in Tasks /\ t.at = "run" /\ t.first = s
    <2>1. task[e] \in Tasks
      BY DEF IInv, Typed
    <2>2. QED
      BY <1>3, <2>1 DEF Tasks
  <1>6. task' = [task EXCEPT ![e] = t]
    BY <1>2 DEF IInv, Typed
  <1> HIDE DEF t
  <1>7. QED
    BY <1>3, <1>4, <1>5, <1>6, TaskKept DEF Look, process, store

(* The other steps of a task: it moves on, is put back, ends, or is lost. *)
LEMMA TaskMoves ==
    ASSUME IInv, NEW e \in Executions,
           \/ task' = [task EXCEPT ![e] = Idle]
           \/ \E saw \in SUBSET Executions, at \in {"ack", "create", "relay", "lost"} :
                task' = [task EXCEPT ![e].at = at, ![e].saw = saw],
           UNCHANGED <<published, phase, image, todo, clash, exe>>
    PROVE  IInv'
  <1>1. task[e] \in Tasks
    BY DEF IInv, Typed
  <1>2. CASE task' = [task EXCEPT ![e] = Idle]
    <2>1. Idle \in Tasks /\ Idle.at # "run"
      BY DEF Idle, Tasks
    <2>2. QED
      BY <1>2, <2>1, TaskKept
  <1>3. ASSUME NEW saw \in SUBSET Executions, NEW at \in {"ack", "create", "relay", "lost"},
               task' = [task EXCEPT ![e].at = at, ![e].saw = saw]
        PROVE  IInv'
    <2> DEFINE t == [task[e] EXCEPT !.at = at, !.saw = saw]
    <2>1. t \in Tasks /\ t.at # "run"
      BY <1>1 DEF Tasks
    <2>2. task' = [task EXCEPT ![e] = t]
      BY <1>3 DEF IInv, Typed
    <2> HIDE DEF t
    <2>3. QED
      BY <2>1, <2>2, TaskKept
  <1>4. QED
    BY <1>2, <1>3

LEMMA HandleKept ==
    ASSUME IInv, NEW e \in Executions,
           Discard(e) \/ NotLoaded(e) \/ Relay(e) \/ CreateChildren(e) \/ ChildRefused(e) \/ Ack(e) \/ HandleFails(e) \/ Expire(e)
    PROVE  IInv'
  <1>t. task \in [Executions -> Tasks] /\ task[e] \in Tasks
    BY DEF IInv, Typed
  <1>u. UNCHANGED <<published, phase, image, todo, clash, exe>>
    BY DEF Discard, NotLoaded, Relay, CreateChildren, ChildRefused, Ack, HandleFails, Expire, process, store
  <1>1. CASE Discard(e) \/ NotLoaded(e) \/ ChildRefused(e) \/ Ack(e) \/ Expire(e)
    <2>1. task' = [task EXCEPT ![e] = Idle]
      BY <1>1 DEF Discard, NotLoaded, ChildRefused, Ack, Expire, Finish, PutBack
    <2>2. QED
      BY <1>u, <2>1, TaskMoves
  <1>2. CASE Relay(e)
    <2> DEFINE pending == {p \in Executions : spawn[p] = "pending"}
    <2>1. \E at \in {"ack", "create"} : task' = [task EXCEPT ![e].at = at, ![e].saw = pending]
      BY <1>2 DEF Relay
    <2>2. QED
      BY <1>u, <2>1, TaskMoves
  <1>3. CASE CreateChildren(e)
    <2>1. task' = [task EXCEPT ![e].at = "relay", ![e].saw = {}]
      BY <1>3 DEF CreateChildren
    <2>2. QED
      BY <1>u, <2>1, TaskMoves
  <1>4. CASE HandleFails(e)
    <2>1. task' = [task EXCEPT ![e] = Idle] \/ task' = [task EXCEPT ![e].at = "lost", ![e].saw = {}]
      BY <1>4 DEF HandleFails, PutBack
    <2>2. QED
      BY <1>u, <2>1, TaskMoves
  <1>5. QED
    BY <1>1, <1>2, <1>3, <1>4

LEMMA ClaimKept == ASSUME IInv, NEW w \in Workers, NEW e \in Executions, Claim(w, e) PROVE IInv'
  <1> DEFINE t == [Idle EXCEPT !.by = w, !.at = "load"]
  <1>1. t \in Tasks /\ t.at # "run"
    BY DEF Idle, Tasks
  <1>2. task' = [task EXCEPT ![e] = t]
    BY DEF Claim
  <1> HIDE DEF t
  <1>3. QED
    BY <1>1, <1>2, TaskKept DEF Claim, process, store
-----------------------------------------------------------------------------
(* The records. *)

(* A step that rewrites one record. *)
LEMMA RecordKept ==
    ASSUME IInv, NEW e \in Executions, NEW y \in Records, RecordOK(y), exe' = [exe EXCEPT ![e] = y],
           UNCHANGED <<published, phase, image, todo, clash>>,
           task' \in [Executions -> Tasks], task'[e].at # "run", \A d \in Executions \ {e} : task'[d] = task[d]
    PROVE  IInv'
  <1>1. Typed'
    BY DEF IInv, Typed
  <1>2. OnePerRelease'
    BY DEF IInv, OnePerRelease, SameRelease
  <1>3. \A w \in Workers : PublishOK(w)'
    BY DEF IInv, PublishOK, Working
  <1>4. ASSUME NEW d \in Executions PROVE RecordOK(exe[d])' /\ StepOK(d)'
    <2>1. CASE d = e
      <3>1. exe'[d] = y
        BY <2>1 DEF IInv, Typed
      <3>2. RecordOK(exe[d])'
        BY <3>1 DEF RecordOK, OfRelease, Started
      <3>3. QED
        BY <2>1, <3>2 DEF StepOK
    <2>2. CASE d # e
      <3>1. exe'[d] = exe[d] /\ task'[d] = task[d] /\ RecordOK(exe[d]) /\ StepOK(d)
        BY <2>2 DEF IInv, Typed
      <3>2. QED
        BY <3>1 DEF RecordOK, StepOK, OfRelease, Started
    <2>3. QED
      BY <2>1, <2>2
  <1>5. QED
    BY <1>1, <1>2, <1>3, <1>4 DEF IInv

LEMMA CreateKept == ASSUME IInv, NEW e \in Executions, NEW i \in Senders, NEW s \in Sources, Create(e, i, s) PROVE IInv'
  <1> DEFINE y == [Absent EXCEPT !.machine = MachineOf[s], !.version = VersionOf[s], !.digest = s, !.status = "PENDING"]
  <1>1. MachineOf[s] \in Machines /\ VersionOf[s] \in Nat
    BY FleetAssumption
  <1>2. y \in Records
    BY <1>1 DEF Absent, Records
  <1>3. RecordOK(y)
    BY DEF Absent, RecordOK, Started
  <1>4. exe' = [exe EXCEPT ![e] = y]
    BY DEF Create
  <1>5. task' = task /\ task[e].at # "run"
    <2>1. exe[e].status = "absent"
      BY DEF Create, Absent
    <2>2. QED
      BY <2>1 DEF Create, IInv, StepOK
  <1> HIDE DEF y
  <1>6. QED
    BY <1>2, <1>3, <1>4, <1>5, RecordKept DEF Create, process, IInv, Typed

(* The record after a step is pinned to the source found, and ran it. *)
LEMMA OutcomeOK ==
    ASSUME IInv, NEW e \in Executions, NEW s \in OfRelease(published, exe[e]), exe[e].status # "absent", NEW kind
    PROVE  Outcome(exe[e], s, s, kind) \in Records /\ RecordOK(Outcome(exe[e], s, s, kind))
  <1> DEFINE x == exe[e]
             p == Pinned(x, s)
             q == Stepped(p, kind)
  <1>1. x \in Records /\ RecordOK(x) /\ s \in Sources /\ MachineOf[s] = x.machine /\ VersionOf[s] = x.version /\ NoSource \notin Sources
    BY FleetAssumption DEF IInv, Typed, OfRelease
  <1>2. Started(x) => x.digest = NoSource \/ x.digest = s
    BY <1>1, OneOfRelease DEF RecordOK
  <1>3. /\ p \in Records /\ p.digest = s /\ p.machine = x.machine /\ p.version = x.version
        /\ p.status = x.status /\ p.at = x.at /\ p.ran = x.ran
    BY <1>1, <1>2 DEF Pinned, Records
  <1> HIDE DEF p
  <1>4. Outcome(x, s, s, kind) = [q EXCEPT !.ran = @ \cup {s}]
    BY <1>3 DEF Outcome, DefinitionProblem, p
  <1>5. /\ q \in Records /\ q.digest = s /\ q.machine = x.machine /\ q.version = x.version /\ q.ran = x.ran
        /\ q.status \notin {"FAILED", "absent"} /\ q.at # "none"
    <2>1. p.status \notin {"FAILED", "absent"} /\ (p.at = "none" => p.status = "PENDING")
      BY <1>1, <1>3 DEF RecordOK
    <2>2. CASE p.status = "PENDING"
      <3>1. q = [p EXCEPT !.status = "RUNNING", !.at = "waiting"]
        BY <2>2 DEF Stepped, Forks, Ends
      <3>2. QED
        BY <1>3, <3>1 DEF Records
    <2>3. CASE p.status # "PENDING" /\ Forks(p, kind)
      <3>1. q = [p EXCEPT !.at = "forked"]
        BY <2>3 DEF Stepped, Forks, Ends
      <3>2. QED
        BY <1>3, <2>1, <3>1 DEF Records
    <2>4. CASE p.status # "PENDING" /\ ~Forks(p, kind) /\ Ends(p, kind)
      <3>1. q = [p EXCEPT !.status = "DONE", !.at = "ended"]
        BY <2>4 DEF Stepped
      <3>2. QED
        BY <1>3, <3>1 DEF Records
    <2>5. CASE p.status # "PENDING" /\ ~Forks(p, kind) /\ ~Ends(p, kind)
      <3>1. q = p
        BY <2>5 DEF Stepped
      <3>2. QED
        BY <1>3, <2>1, <2>5, <3>1
    <2>6. QED
      BY <2>2, <2>3, <2>4, <2>5
  <1>6. x.ran \subseteq {s}
    BY <1>1, <1>2 DEF RecordOK, Started
  <1> DEFINE y == [q EXCEPT !.ran = @ \cup {s}]
  <1>7. /\ y \in Records /\ y.digest = s /\ y.machine = x.machine /\ y.version = x.version /\ y.ran = {s}
        /\ y.status \notin {"FAILED", "absent"} /\ y.at # "none"
    BY <1>1, <1>5, <1>6 DEF Records
  <1> HIDE DEF y, q
  <1>8. RecordOK(y)
    BY <1>1, <1>7 DEF RecordOK, OfRelease, Started
  <1>9. QED
    BY <1>4, <1>7, <1>8 DEF y

LEMMA RunKept == ASSUME IInv, NEW e \in Executions, Run(e) PROVE IInv'
  <1> DEFINE w == task[e].by
             x == exe[e]
             kind == Head(queue[e])
  <1>1. w \in Workers /\ Working(w) /\ task[e].at = "run"
    BY AliveWorks DEF Run, At
  <1>2. PICK s \in Lookup(image[w], x) :
          LET y == Outcome(x, s, task[e].first, kind)
              forks == y.status # "FAILED" /\ Forks(x, kind)
          IN  exe' = [exe EXCEPT ![e] = y] /\ Move(e, IF forks THEN "relay" ELSE "ack")
    BY DEF Run
  <1>3. s \in OfRelease(published, x) /\ task[e].first = s /\ x.status # "absent"
    <2>1. s \in OfRelease(published, x)
      BY <1>1, LookupIs
    <2>2. task[e].first \in OfRelease(published, x) /\ x.status # "absent"
      BY <1>1 DEF IInv, StepOK
    <2>3. QED
      BY <2>1, <2>2, OneOfRelease
  <1> DEFINE y == Outcome(x, s, s, kind)
  <1>4. y \in Records /\ RecordOK(y)
    BY <1>3, OutcomeOK
  <1>5. \E at \in {"relay", "ack"} : task' = [task EXCEPT ![e].at = at]
    BY <1>2 DEF Move
  <1>6. task' \in [Executions -> Tasks] /\ task'[e].at # "run" /\ \A d \in Executions \ {e} : task'[d] = task[d]
    BY <1>5 DEF IInv, Typed, Tasks
  <1>7. exe' = [exe EXCEPT ![e] = y]
    BY <1>2, <1>3
  <1> HIDE DEF y
  <1>8. QED
    BY <1>4, <1>6, <1>7, RecordKept DEF Run, process
-----------------------------------------------------------------------------
LEMMA InvInit == Init => IInv
  <1> SUFFICES ASSUME Init PROVE IInv
    OBVIOUS
  <1>1. ASSUME NEW e \in Executions PROVE exe[e] \in Records /\ RecordOK(exe[e])
    <2>1. CASE Legacy[e] = NoSource
      <3>1. exe[e] = Absent
        BY <2>1 DEF Init
      <3>2. QED
        BY <3>1 DEF Absent, Records, RecordOK, Started
    <2>2. CASE Legacy[e] # NoSource
      <3>1. Legacy[e] \in Sources /\ MachineOf[Legacy[e]] \in Machines
        BY <2>2, FleetAssumption
      <3>2. exe[e] = [machine |-> MachineOf[Legacy[e]], version |-> 1, digest |-> NoSource,
                      status |-> "RUNNING", at |-> "forked", ran |-> {}]
        BY <2>2 DEF Init
      <3>3. QED
        BY <3>1, <3>2 DEF Records, RecordOK, Started
    <2>3. QED
      BY <2>1, <2>2
  <1>2. Typed
    <2>1. exe \in [Executions -> Records]
      BY <1>1 DEF Init
    <2>2. task \in [Executions -> Tasks]
      BY DEF Init, Idle, Tasks
    <2>3. QED
      BY <2>1, <2>2 DEF Init, Typed
  <1>3. OnePerRelease /\ \A w \in Workers : PublishOK(w)
    BY DEF Init, OnePerRelease, PublishOK, Working
  <1>4. \A e \in Executions : StepOK(e)
    BY DEF Init, StepOK, Idle
  <1>5. QED
    BY <1>1, <1>2, <1>3, <1>4 DEF IInv

LEMMA InvNext == Publishing = Workers /\ IInv /\ [Next]_vars => IInv'
  <1> SUFFICES ASSUME Publishing = Workers, IInv, [Next]_vars PROVE IInv'
    OBVIOUS
  <1>1. CASE UNCHANGED vars
    BY <1>1, QuietKept DEF vars, Quiet
  <1>2. ASSUME NEW w \in Workers,
               \/ \E i \in Deploys[w] : Boot(w, i)
               \/ \E s \in Sources : Publish(w, s)
               \/ Ready(w) \/ Crash(w) \/ Stop(w) \/ Stopped(w)
        PROVE  IInv'
    BY <1>2, BootKept, PublishKept, PhaseKept, CrashKept
  <1>3. ASSUME NEW w \in Workers,
               \/ ClaimFails(w) \/ SweepFails(w)
               \/ \E due \in SUBSET Executions : Sweep(w, due)
               \/ \E e \in Executions : SweepPublish(w, e) \/ SweepDelete(w, e)
        PROVE  Quiet
    BY <1>3 DEF ClaimFails, SweepFails, Sweep, SweepPublish, SweepDelete, process, store, Quiet
  <1>4. ASSUME NEW e \in Executions, (\E i \in Senders : Send(e, i)) \/ Unpark(e) PROVE Quiet
    BY <1>4 DEF Send, Unpark, process, store, Quiet
  <1>5. ASSUME NEW e \in Executions, \/ \E i \in Senders, s \in Sources : Create(e, i, s)
                                     \/ Handle(e) \/ HandleFails(e) \/ Expire(e)
        PROVE  IInv'
    BY <1>5, CreateKept, LookKept, RunKept, HandleKept DEF Handle
  <1>6. QED
    BY <1>1, <1>2, <1>3, <1>4, <1>5, QuietKept, ClaimKept DEF Next

LEMMA InvAlways == Publishing = Workers => (Spec => []IInv)
  <1> SUFFICES ASSUME Publishing = Workers PROVE Spec => []IInv
    OBVIOUS
  <1>1. IInv /\ [Next]_vars => IInv'
    BY InvNext
  <1>2. QED
    BY <1>1, InvInit, PTL DEF Spec

(* When every worker publishes at its start, two working processes never have two sources of
   one release, whatever is deployed, crashes or is stopped. *)
THEOREM WorkersAgree == Publishing = Workers => (Spec => []FleetAgrees)
  <1> SUFFICES ASSUME Publishing = Workers PROVE Spec => []FleetAgrees
    OBVIOUS
  <1>1. IInv => FleetAgrees
    BY DEF IInv, OnePerRelease, PublishOK, FleetAgrees
  <1>2. QED
    BY <1>1, InvAlways, PTL

(* Then no execution is failed because a definition changed under it. *)
THEOREM OnlyDeploysFail == Publishing = Workers => (Spec => []DeployFailsNotExecutions)
  <1> SUFFICES ASSUME Publishing = Workers PROVE Spec => []DeployFailsNotExecutions
    OBVIOUS
  <1>1. IInv => DeployFailsNotExecutions
    BY DEF IInv, RecordOK, DeployFailsNotExecutions
  <1>2. QED
    BY <1>1, InvAlways, PTL

(* Then an execution runs one source, the one it records, over all its steps, workers and
   the two lookups of each step. *)
THEOREM RunsOneSource == Publishing = Workers => (Spec => []OneSource)
  <1> SUFFICES ASSUME Publishing = Workers PROVE Spec => []OneSource
    OBVIOUS
  <1>1. IInv => OneSource
    BY DEF IInv, RecordOK, OneSource
  <1>2. QED
    BY <1>1, InvAlways, PTL
=============================================================================
