----------------------------- MODULE HostsProofs -----------------------------
(***************************************************************************)
(* An event takes effect once on each execution, for any callers, of any   *)
(* kind, and any regions.  What a caller has looked up it commits only     *)
(* against the version it looked it up at: a commit in between, by whoever *)
(* did take the event, moves the version on.  A sweep forgets a timer only *)
(* when its event was taken, and a call that returns leaves nothing of its *)
(* own behind.                                                             *)
(***************************************************************************)
EXTENDS Hosts, FiniteSetTheorems, TLAPS

\* A copy of a record is never newer than the record; and if it is as new, the event was not
\* processed when it was looked up, and still is not.
JobOK(j) ==
  /\ j.rec.ver <= exe[j.x].ver
  /\ j.at \in {"commit", "rearm"} /\ j.rec.ver = exe[j.x].ver => j.id \notin processed[j.x]
  /\ j.at = "load" /\ j.id.kind = "Start" => j.id = Id("Start", j.x, 0)

JobsOK == \A j \in jobs : JobOK(j)

\* The record a call read first, and the timers a sweep has left.
CallerOK(c) ==
  /\ c.rec.ver <= exe[Root].ver
  /\ c.at = "targets" => c.id \in EventId
  /\ c.at \in {"sweep", "fired", "delete"} => c.op = "sweep"
  /\ c.op = "sweep" => c.at # "targets" /\ \A t \in c.left : t \in EventId /\ t.kind = "Timeout" /\ t.of = Root
  /\ c.at \in {"rows", "row"} => c.rows # <<>>

CallersOK == \A p \in Caller : CallerOK(caller[p])

\* A start is not an event that is looked up.
StartsFree == \A x \in Exec : Id("Start", x, 0) \notin processed[x]

IInv == TypeOK /\ JobsOK /\ CallersOK /\ StartsFree /\ TakenOnce
-----------------------------------------------------------------------------
(* The machine's steps *)

LEMMA InExec == Root \in Exec /\ Region \subseteq Exec
  BY DEF Exec

LEMMA AbsentType == Absent \in Record
  BY DEF Absent, Record, Statuses

LEMMA IdleType == Idle \in CallState
  BY AbsentType DEF Idle, CallState, Places

LEMMA SetToSeqType ==
  ASSUME NEW S, IsFiniteSet(S)
  PROVE  SetToSeq(S) \in Seq(S)
  <1> DEFINE n == Cardinality(S)
  <1>1. n \in Nat /\ ExistsBijection(1..n, S)
    BY FS_CardinalityType
  <1>2. \E f \in [1..n -> S] : IsInjective(f)
    BY <1>1 DEF ExistsBijection, Bijection, Injection, Surjection, IsInjective
  <1>3. SetToSeq(S) \in [1..n -> S]
    BY <1>2 DEF SetToSeq
  <1>4. QED
    BY <1>1, <1>3

Emitted == [to : Exec, id : EventId]
Sound(s) == s.rec \in Record /\ s.emits \in Seq(Emitted)

LEMMA StayType ==
  ASSUME NEW r \in Record
  PROVE  Sound(Stay(r))
  BY DEF Stay, Sound

LEMMA RearmedType ==
  ASSUME NEW r \in Record
  PROVE  Sound(Rearmed(r))
  <1>1. [r EXCEPT !.expires = @ + 1] \in Record
    BY DEF Record
  <1>2. QED
    BY <1>1 DEF Rearmed, Sound

LEMMA CancelsType ==
  ASSUME NEW r \in Record
  PROVE  Cancels(r) \in Seq(Emitted)
  <1> DEFINE S == Region \ r.done
             F(x) == [to |-> x, id |-> Id("Cancel", x, 0)]
             T == {F(x) : x \in S}
  <1>1. IsFiniteSet(S)
    BY HostsAssumption, FS_Subset
  <1>2. IsFiniteSet(T)
    <2>1. [x \in S |-> F(x)] \in Surjection(S, T)
      BY DEF Surjection
    <2>2. QED
      BY <1>1, <2>1, FS_Surjection
  <1>3. T \subseteq Emitted
    BY InExec DEF Emitted, EventId, Id
  <1>4. SetToSeq(T) \in Seq(T)
    BY <1>2, SetToSeqType
  <1>5. SetToSeq(T) \in Seq(Emitted)
    BY <1>3, <1>4
  <1>6. QED
    BY <1>5 DEF Cancels

LEMMA RootStepType ==
  ASSUME NEW r \in Record, NEW id \in EventId
  PROVE  Sound(RootStep(r, id))
  <1>1. CASE id.kind = "Finished"
    <2>1. id.of \in Region
      BY <1>1, HostsAssumption DEF EventId
    <2> DEFINE told == [r EXCEPT !.done = @ \cup {id.of}]
    <2>2. told \in Record
      BY <2>1 DEF Record
    <2>3. Joined(told) \in Record
      BY <2>2 DEF Joined, Record, Statuses
    <2>4. id.kind \notin Event /\ id.kind # "Timeout"
      BY <1>1, HostsAssumption
    <2>5. RootStep(r, id) = Stay(IF Running(r) THEN Joined(told) ELSE told)
      BY <1>1, <2>4 DEF RootStep
    <2>6. QED
      BY <2>2, <2>3, <2>5, StayType
  <1>2. CASE id.kind \in Event /\ Running(r)
    <2>1. Joined(r) \in Record
      BY DEF Joined, Record, Statuses
    <2>5. id.kind # "Finished" /\ id.kind # "Timeout"
      BY <1>2, HostsAssumption
    <2>6. RootStep(r, id) = IF Running(Joined(r)) THEN Rearmed(r) ELSE Stay(Joined(r))
      BY <1>2, <2>5 DEF RootStep
    <2>7. QED
      BY <2>1, <2>6, StayType, RearmedType
  <1>3. CASE id.kind = "Timeout" /\ Running(r) /\ id.n = r.expires
    <2> DEFINE over == [r EXCEPT !.status = "CANCELLED"]
    <2>1. over \in Record
      BY DEF Record, Statuses
    <2>2. id.kind # "Finished" /\ id.kind \notin Event
      BY <1>3, HostsAssumption
    <2>3. RootStep(r, id) = [rec |-> over, emits |-> Cancels(r), arms |-> FALSE]
      BY <1>3, <2>2 DEF RootStep
    <2>4. QED
      BY <2>1, <2>3, CancelsType DEF Sound
  <1>4. CASE /\ id.kind # "Finished" /\ ~(id.kind \in Event /\ Running(r))
             /\ ~(id.kind = "Timeout" /\ Running(r) /\ id.n = r.expires)
    <2>1. RootStep(r, id) = Stay(r)
      BY <1>4 DEF RootStep
    <2>2. QED
      BY <2>1, StayType
  <1>5. QED
    BY <1>1, <1>2, <1>3, <1>4

LEMMA RegionStepType ==
  ASSUME NEW x \in Region, NEW r \in Record, NEW id \in EventId
  PROVE  Sound(RegionStep(x, r, id))
  <1>1. [r EXCEPT !.status = "DONE"] \in Record /\ [r EXCEPT !.status = "CANCELLED"] \in Record
    BY DEF Record, Statuses
  <1>2. Finished(x) \in Seq(Emitted)
    BY InExec DEF Finished, Emitted, EventId, Id
  <1>3. Sound([rec |-> [r EXCEPT !.status = "DONE"], emits |-> Finished(x), arms |-> FALSE])
    BY <1>1, <1>2 DEF Sound
  <1>4. QED
    BY <1>1, <1>3, StayType DEF RegionStep

LEMMA StartStepType ==
  ASSUME NEW x \in Exec
  PROVE  Sound(StartStep(x))
  <1> DEFINE r == [status |-> "RUNNING", ver |-> 0, done |-> {}, expires |-> IF x = Root THEN 1 ELSE 0]
  <1>1. r \in Record
    BY DEF Record, Statuses
  <1>2. StartStep(x).rec = r /\ StartStep(x).emits = <<>>
    BY DEF StartStep, Absent
  <1>3. QED
    BY <1>1, <1>2 DEF Sound

LEMMA StepType ==
  ASSUME NEW x \in Exec, NEW r \in Record, NEW id \in EventId
  PROVE  Sound(Step(x, r, id))
  BY RootStepType, RegionStepType, StartStepType DEF Step, Exec
-----------------------------------------------------------------------------
(* A commit *)

LEMMA CommitKeeps ==
  ASSUME IInv, NEW j \in jobs, j.at \in {"commit", "rearm"}, Wins(j.x, j.rec),
         NEW s, Sound(s), Commit(j.by, j.x, j.id, s)
  PROVE  /\ exe' \in [Exec -> Record] /\ processed' \in [Exec -> SUBSET EventId] /\ again' = again
         /\ outbox' \in Seq(Rows) /\ spawns' \subseteq Spawn /\ timer' \in Nat
         /\ StartsFree'
         /\ \A k \in jobs : JobOK(k) => JobOK(k)'
         /\ exe[Root].ver <= exe'[Root].ver
  <1> DEFINE x == j.x
  <1>1. x \in Exec /\ j.id \in EventId /\ j.by \in Caller /\ j.rec \in Record
    BY DEF IInv, TypeOK, JobState
  <1>2. j.id \notin processed[x] /\ j.rec.ver = exe[x].ver
    BY DEF IInv, JobsOK, JobOK, Wins
  <1>3. exe[x].ver \in Nat /\ \A y \in Exec : exe[y] \in Record
    BY <1>1 DEF IInv, TypeOK, Record
  <1>4. [s.rec EXCEPT !.ver = exe[x].ver + 1] \in Record
    BY <1>3 DEF Sound, Record
  <1>5. [s.rec EXCEPT !.ver = exe[x].ver + 1].ver = exe[x].ver + 1
    BY DEF Sound, Record
  <1>6. /\ exe' \in [Exec -> Record]
        /\ exe'[x].ver = exe[x].ver + 1
        /\ \A y \in Exec : y # x => exe'[y] = exe[y]
    BY <1>1, <1>4, <1>5 DEF Commit, IInv, TypeOK
  <1>7. /\ processed' \in [Exec -> SUBSET EventId]
        /\ processed'[x] = processed[x] \cup ({j.id} \ {Id("Start", x, 0)})
        /\ \A y \in Exec : y # x => processed'[y] = processed[y]
    BY <1>1 DEF Commit, IInv, TypeOK
  <1>8. again' = again
    BY <1>2 DEF Commit
  <1>9. outbox' \in Seq(Rows)
    <2> DEFINE rows == [i \in DOMAIN s.emits |-> Row(s.emits[i].to, s.emits[i].id, j.by)]
    <2>1. s.emits \in Seq(Emitted) /\ Len(s.emits) \in Nat /\ DOMAIN s.emits = 1..Len(s.emits)
      BY DEF Sound
    <2>2. \A i \in DOMAIN s.emits : s.emits[i] \in Emitted
      BY <2>1
    <2>3. \A i \in DOMAIN s.emits : rows[i] \in Rows
      BY <1>1, <2>2 DEF Emitted, Row, Rows
    <2>4. rows \in [1..Len(s.emits) -> Rows]
      BY <2>1, <2>3
    <2>5. rows \in Seq(Rows)
      BY <2>1, <2>4
    <2>6. QED
      BY <2>5 DEF Commit, IInv, TypeOK
  <1>10. spawns' \subseteq Spawn
    BY <1>1 DEF Commit, IInv, TypeOK, Spawn
  <1>11. timer' \in Nat
    BY DEF Commit, IInv, TypeOK, Sound, Record
  <1>12. StartsFree'
    BY <1>7 DEF IInv, StartsFree
  <1>13. ASSUME NEW k \in jobs, JobOK(k)
         PROVE  JobOK(k)'
    <2>1. k.x \in Exec /\ k.rec.ver \in Nat /\ exe[k.x].ver \in Nat
      BY <1>3 DEF IInv, TypeOK, JobState, Record
    <2>2. CASE k.x = x
      <3>1. k.rec.ver < exe'[k.x].ver
        BY <1>3, <1>6, <1>13, <2>1, <2>2 DEF JobOK
      <3>2. QED
        BY <1>3, <1>6, <1>13, <2>1, <2>2, <3>1 DEF JobOK
    <2>3. CASE k.x # x
      BY <1>6, <1>7, <1>13, <2>1, <2>3 DEF JobOK
    <2>4. QED
      BY <2>2, <2>3
  <1>14. exe[Root].ver <= exe'[Root].ver
    BY <1>3, <1>6, InExec DEF Record
  <1>15. QED
    BY <1>6, <1>7, <1>8, <1>9, <1>10, <1>11, <1>12, <1>13, <1>14
-----------------------------------------------------------------------------
(* What a step has to show: with the store left alone, with a commit in it *)

LEMMA CallerSet ==
  ASSUME IInv, NEW p \in Caller, NEW c \in CallState, CallerOK(c),
         caller' = [caller EXCEPT ![p] = c]
  PROVE  caller' \in [Caller -> CallState] /\ \A q \in Caller : CallerOK(caller'[q])
  BY DEF IInv, TypeOK, CallersOK

LEMMA CallersKept ==
  ASSUME IInv, UNCHANGED caller
  PROVE  caller' \in [Caller -> CallState] /\ \A q \in Caller : CallerOK(caller'[q])
  BY DEF IInv, TypeOK, CallersOK

LEMMA Stands ==
  ASSUME IInv, UNCHANGED <<exe, processed, again>>,
         outbox' \in Seq(Rows), spawns' \subseteq Spawn, timer' \in Nat, calls' \in Nat, faults' \in Nat,
         jobs' \subseteq JobState, \A j \in jobs' : JobOK(j),
         caller' \in [Caller -> CallState], \A q \in Caller : CallerOK(caller'[q])
  PROVE  IInv'
  <1>1. TypeOK'
    BY DEF IInv, TypeOK
  <1>2. JobsOK' /\ CallersOK' /\ StartsFree' /\ TakenOnce'
    BY DEF IInv, JobsOK, JobOK, CallersOK, CallerOK, StartsFree, TakenOnce
  <1>3. QED
    BY <1>1, <1>2 DEF IInv

LEMMA StoreStands ==
  ASSUME IInv, UNCHANGED store, calls' \in Nat, faults' \in Nat,
         jobs' \subseteq JobState, \A j \in jobs' : JobOK(j),
         caller' \in [Caller -> CallState], \A q \in Caller : CallerOK(caller'[q])
  PROVE  IInv'
  <1>1. UNCHANGED <<exe, processed, again>> /\ outbox' \in Seq(Rows) /\ spawns' \subseteq Spawn /\ timer' \in Nat
    BY DEF IInv, TypeOK, store
  <1>2. QED
    BY <1>1, Stands

LEMMA JobsHere ==
  ASSUME IInv
  PROVE  jobs \subseteq JobState /\ \A j \in jobs : JobOK(j)
  BY DEF IInv, TypeOK, JobsOK

LEMMA BoundsHere ==
  ASSUME IInv
  PROVE  calls \in Nat /\ faults \in Nat
  BY DEF IInv, TypeOK

LEMMA RecordHere ==
  ASSUME IInv, NEW x \in Exec
  PROVE  exe[x] \in Record /\ exe[x].ver \in Nat
  BY DEF IInv, TypeOK, Record

LEMMA CallHere ==
  ASSUME IInv, NEW p \in Caller
  PROVE  caller[p] \in CallState /\ CallerOK(caller[p])
  BY DEF IInv, TypeOK, CallersOK

LEMMA IdleOK ==
  ASSUME IInv
  PROVE  Idle \in CallState /\ CallerOK(Idle)
  <1>1. exe[Root].ver \in Nat
    BY RecordHere, InExec
  <1>2. QED
    BY <1>1, IdleType DEF CallerOK, Idle, Absent

\* Jobs that start from the record as it is: nothing was looked up for them yet.
LEMMA NewJob ==
  ASSUME IInv, NEW p \in Caller, NEW x \in Exec, NEW id \in EventId, NEW r \in Record,
         NEW at \in {"load", "check"}, r.ver <= exe[x].ver,
         at = "load" /\ id.kind = "Start" => id = Id("Start", x, 0)
  PROVE  Job(p, x, id, at, r) \in JobState /\ JobOK(Job(p, x, id, at, r))
  BY DEF Job, JobState, JobOK

\* Flushing and ending a call.
LEMMA FlushesOK ==
  ASSUME IInv, NEW p \in Caller, Flushes(p)
  PROVE  caller' \in [Caller -> CallState] /\ \A q \in Caller : CallerOK(caller'[q])
  <1> DEFINE c == [Idle EXCEPT !.op = caller[p].op, !.at = "spawns"]
  <1>1. c \in CallState
    BY CallHere, IdleOK DEF CallState, Places
  <1>2. CallerOK(c)
    BY IdleOK DEF CallerOK, Idle
  <1>3. QED
    BY <1>1, <1>2, CallerSet DEF Flushes

LEMMA EndsOK ==
  ASSUME IInv, NEW p \in Caller, Ends(p)
  PROVE  caller' \in [Caller -> CallState] /\ \A q \in Caller : CallerOK(caller'[q])
  BY IdleOK, CallerSet DEF Ends

LEMMA GoesOK ==
  ASSUME IInv, NEW p \in Caller, NEW at \in Places, Goes(p, at), CallerOK([caller[p] EXCEPT !.at = at])
  PROVE  caller' \in [Caller -> CallState] /\ \A q \in Caller : CallerOK(caller'[q])
  <1> DEFINE c == [caller[p] EXCEPT !.at = at]
  <1>1. c \in CallState
    BY CallHere DEF CallState
  <1>2. caller' = [caller EXCEPT ![p] = c]
    BY DEF Goes
  <1>3. QED
    BY <1>1, <1>2, CallerSet

LEMMA OverOK ==
  ASSUME IInv, NEW j \in jobs, NEW ran \in BOOLEAN, Over(j, ran)
  PROVE  caller' \in [Caller -> CallState] /\ \A q \in Caller : CallerOK(caller'[q])
  <1>1. j.by \in Caller
    BY JobsHere DEF JobState
  <1>2. CASE caller[j.by].at = "fired" /\ ~j.stray
    <2> DEFINE at == IF ran THEN "spawns" ELSE "delete"
    <2>1. Goes(j.by, at) /\ at \in Places /\ at \in {"spawns", "delete"}
      BY <1>2 DEF Over, Places
    <2>2. CallerOK([caller[j.by] EXCEPT !.at = at])
      BY <1>1, <1>2, <2>1, CallHere DEF CallerOK, CallState
    <2>3. QED
      BY <1>1, <2>1, <2>2, GoesOK
  <1>3. CASE ~(caller[j.by].at = "fired" /\ ~j.stray)
    BY <1>3, CallersKept DEF Over
  <1>4. QED
    BY <1>2, <1>3

LEMMA Committed ==
  ASSUME IInv, NEW j \in jobs, j.at \in {"commit", "rearm"}, Wins(j.x, j.rec),
         NEW s, Sound(s), Commit(j.by, j.x, j.id, s),
         jobs' \subseteq jobs, calls' \in Nat, faults' \in Nat,
         caller' \in [Caller -> CallState], \A q \in Caller : CallerOK(caller'[q])
  PROVE  IInv'
  <1>1. /\ exe' \in [Exec -> Record] /\ processed' \in [Exec -> SUBSET EventId] /\ again' = again
        /\ outbox' \in Seq(Rows) /\ spawns' \subseteq Spawn /\ timer' \in Nat
        /\ StartsFree'
        /\ \A k \in jobs : JobOK(k) => JobOK(k)'
        /\ exe[Root].ver <= exe'[Root].ver
    BY CommitKeeps
  <1>2. TypeOK'
    BY <1>1, JobsHere DEF IInv, TypeOK
  <1>3. JobsOK'
    BY <1>1, JobsHere DEF JobsOK
  <1>4. CallersOK'
    <2>1. ASSUME NEW q \in Caller
          PROVE  CallerOK(caller[q])'
      <3>1. exe[Root].ver \in Nat /\ exe'[Root].ver \in Nat /\ caller'[q].rec.ver \in Nat
        BY <1>1, RecordHere, InExec DEF Record, CallState
      <3>2. caller'[q].rec.ver <= exe'[Root].ver
        BY <1>1, <3>1 DEF CallerOK
      <3>3. QED
        BY <3>2 DEF CallerOK
    <2>2. QED
      BY <2>1 DEF CallersOK
  <1>5. TakenOnce'
    BY <1>1 DEF IInv, TakenOnce
  <1>6. QED
    BY <1>1, <1>2, <1>3, <1>4, <1>5 DEF IInv
-----------------------------------------------------------------------------
(* The calls *)

LEMMA BeginsOK ==
  ASSUME IInv, NEW p \in Caller, NEW c \in CallState, CallerOK(c), Begins(p, c)
  PROVE  caller' \in [Caller -> CallState] /\ \A q \in Caller : CallerOK(caller'[q])
  BY CallerSet DEF Begins

LEMMA CreateKeeps ==
  ASSUME IInv, NEW p \in Caller, Create(p)
  PROVE  IInv'
  <1> DEFINE c == [Idle EXCEPT !.op = "create", !.at = "spawns"]
             j == Job(p, Root, Id("Start", Root, 0), "commit", Absent)
  <1>1. c \in CallState /\ CallerOK(c)
    BY IdleOK, IdleType DEF CallState, CallerOK, Idle, Places
  <1>2. caller' \in [Caller -> CallState] /\ \A q \in Caller : CallerOK(caller'[q])
    BY <1>1, BeginsOK DEF Create
  <1>3. j \in JobState
    BY InExec, AbsentType DEF Job, JobState, EventId, Id
  <1>4. JobOK(j)
    BY InExec, RecordHere DEF Create, Job, JobOK, Absent, IInv, StartsFree
  <1>5. jobs' \subseteq JobState /\ \A k \in jobs' : JobOK(k)
    BY <1>3, <1>4, JobsHere DEF Create
  <1>6. QED
    BY <1>2, <1>5, StoreStands, BoundsHere DEF Create, Counted

LEMMA ProcessKeeps ==
  ASSUME IInv, NEW p \in Caller, NEW e \in Event, Process(p, e)
  PROVE  IInv'
  <1> DEFINE c == [Idle EXCEPT !.op = "process", !.at = "targets", !.id = Domain(e), !.rec = exe[Root],
                               !.left = Region \ exe[Root].done]
  <1>1. Domain(e) \in EventId /\ exe[Root] \in Record /\ exe[Root].ver \in Nat
    BY InExec, RecordHere DEF Domain, Id, EventId
  <1>2. c \in CallState
    BY <1>1, InExec, IdleType DEF CallState, Idle, Places
  <1>3. c.rec = exe[Root] /\ c.at = "targets" /\ c.op = "process" /\ c.id = Domain(e)
    BY DEF Idle
  <1>4. CallerOK(c)
    BY <1>1, <1>3 DEF CallerOK
  <1>5. caller' \in [Caller -> CallState] /\ \A q \in Caller : CallerOK(caller'[q])
    BY <1>2, <1>4, BeginsOK DEF Process
  <1>6. QED
    BY <1>5, StoreStands, BoundsHere, JobsHere DEF Process, Counted

LEMMA RecoverKeeps ==
  ASSUME IInv, NEW p \in Caller, Recover(p)
  PROVE  IInv'
  <1> DEFINE c == [Idle EXCEPT !.op = "recover", !.at = "spawns"]
  <1>1. c \in CallState /\ CallerOK(c)
    BY IdleOK, IdleType DEF CallState, CallerOK, Idle, Places
  <1>2. caller' \in [Caller -> CallState] /\ \A q \in Caller : CallerOK(caller'[q])
    BY <1>1, BeginsOK DEF Recover
  <1>3. QED
    BY <1>2, StoreStands, BoundsHere, JobsHere DEF Recover, bounds

LEMMA FireDueTimersKeeps ==
  ASSUME IInv, NEW p \in Caller, FireDueTimers(p)
  PROVE  IInv'
  <1> DEFINE t == Id("Timeout", Root, timer)
             c == [Idle EXCEPT !.op = "sweep", !.at = "sweep", !.left = {t}]
  <1>1. t \in EventId /\ t.kind = "Timeout" /\ t.of = Root
    BY InExec DEF Id, EventId, IInv, TypeOK
  <1>2. c \in CallState /\ CallerOK(c)
    BY <1>1, IdleOK, IdleType DEF CallState, CallerOK, Idle, Places
  <1>3. caller' \in [Caller -> CallState] /\ \A q \in Caller : CallerOK(caller'[q])
    BY <1>2, BeginsOK DEF FireDueTimers
  <1>4. QED
    BY <1>3, StoreStands, BoundsHere, JobsHere DEF FireDueTimers, Counted

LEMMA LoadTargetKeeps ==
  ASSUME IInv, NEW p \in Caller, NEW x \in Region, LoadTarget(p, x)
  PROVE  IInv'
  <1> DEFINE old == caller[p]
             c == [old EXCEPT !.left = @ \ {x}, !.found = @ \/ exe[x] # Absent]
             j == Job(p, x, old.id, "check", exe[x])
  <1>1. old \in CallState /\ CallerOK(old) /\ old.at = "targets"
    BY CallHere DEF LoadTarget
  <1>2. c \in CallState
    BY <1>1 DEF CallState
  <1>3. CallerOK(c)
    BY <1>1 DEF CallState, CallerOK
  <1>4. caller' = [caller EXCEPT ![p] = c]
    BY DEF LoadTarget
  <1>5. caller' \in [Caller -> CallState] /\ \A q \in Caller : CallerOK(caller'[q])
    BY <1>2, <1>3, <1>4, CallerSet
  <1>6. j \in JobState /\ JobOK(j)
    BY <1>1, NewJob, RecordHere, InExec DEF CallerOK
  <1>7. jobs' \subseteq jobs \cup {j}
    BY DEF LoadTarget
  <1>8. jobs' \subseteq JobState /\ \A k \in jobs' : JobOK(k)
    BY <1>6, <1>7, JobsHere
  <1>9. QED
    BY <1>5, <1>8, StoreStands, BoundsHere DEF LoadTarget, bounds

LEMMA NoRegionAliveKeeps ==
  ASSUME IInv, NEW p \in Caller, NoRegionAlive(p)
  PROVE  IInv'
  <1> DEFINE j == Job(p, Root, caller[p].id, "check", caller[p].rec)
  <1>1. caller[p] \in CallState /\ CallerOK(caller[p]) /\ caller[p].at = "targets"
    BY CallHere DEF NoRegionAlive
  <1>2. j \in JobState /\ JobOK(j)
    BY <1>1, NewJob, InExec DEF CallerOK, CallState
  <1>3. jobs' = jobs \cup {j} /\ Flushes(p)
    BY DEF NoRegionAlive
  <1>4. jobs' \subseteq JobState /\ \A k \in jobs' : JobOK(k)
    BY <1>2, <1>3, JobsHere
  <1>5. QED
    BY <1>3, <1>4, FlushesOK, StoreStands, BoundsHere DEF NoRegionAlive, bounds

LEMMA RearmKeeps ==
  ASSUME IInv, NEW p \in Caller, Rearm(p)
  PROVE  IInv'
  <1> DEFINE c == caller[p]
             j == Job(p, Root, c.id, "rearm", c.rec)
  <1>1. c \in CallState /\ CallerOK(c) /\ c.at = "targets"
    BY CallHere DEF Rearm
  <1>2. j \in JobState
    BY <1>1, InExec DEF Job, JobState, CallerOK, CallState
  <1>3. jobs' = jobs \/ (jobs' = jobs \cup {j} /\ c.id \notin processed[Root])
    BY DEF Rearm
  <1>4. c.id \notin processed[Root] => JobOK(j)
    BY <1>1 DEF Job, JobOK, CallerOK
  <1>5. jobs' \subseteq JobState /\ \A k \in jobs' : JobOK(k)
    BY <1>2, <1>3, <1>4, JobsHere
  <1>6. QED
    BY <1>5, FlushesOK, StoreStands, BoundsHere DEF Rearm, bounds
-----------------------------------------------------------------------------
(* The flush *)

LEMMA ReadSpawnsKeeps ==
  ASSUME IInv, NEW p \in Caller, ReadSpawns(p)
  PROVE  IInv'
  <1> DEFINE old == caller[p]
             at == IF Kind[p] = "sync" /\ spawns # {} THEN "create" ELSE "outbox"
             c == [old EXCEPT !.kids = spawns, !.found = spawns # {}, !.at = at]
  <1>1. old \in CallState /\ CallerOK(old)
    BY CallHere
  <1>2. c \in CallState
    BY <1>1 DEF CallState, Places, IInv, TypeOK
  <1>3. CallerOK(c)
    BY <1>1 DEF CallState, CallerOK
  <1>4. caller' = [caller EXCEPT ![p] = c]
    BY DEF ReadSpawns
  <1>5. caller' \in [Caller -> CallState] /\ \A q \in Caller : CallerOK(caller'[q])
    BY <1>2, <1>3, <1>4, CallerSet
  <1>6. QED
    BY <1>5, JobsHere, StoreStands, BoundsHere DEF ReadSpawns, bounds

LEMMA ReadOutboxKeeps ==
  ASSUME IInv, NEW p \in Caller, ReadOutbox(p)
  PROVE  IInv'
  <1> DEFINE old == caller[p]
  <1>1. old \in CallState /\ CallerOK(old) /\ old.at = "outbox"
    BY CallHere DEF ReadOutbox
  <1>2. caller' \in [Caller -> CallState] /\ \A q \in Caller : CallerOK(caller'[q])
    <2>1. CASE outbox = <<>> /\ ~old.found /\ old.op = "sweep"
      <3>1. CallerOK([old EXCEPT !.at = "delete"])
        BY <1>1, <2>1 DEF CallerOK, CallState
      <3>2. Goes(p, "delete") /\ "delete" \in Places
        BY <2>1 DEF ReadOutbox, Places
      <3>3. QED
        BY <3>1, <3>2, GoesOK
    <2>2. CASE outbox = <<>> /\ ~old.found /\ old.op # "sweep"
      BY <2>2, EndsOK DEF ReadOutbox
    <2>3. CASE ~(outbox = <<>> /\ ~old.found)
      <3> DEFINE at == IF old.kids # {} THEN "create" ELSE IF outbox = <<>> THEN "spawns" ELSE "rows"
                 c == [old EXCEPT !.rows = outbox, !.found = FALSE, !.at = at]
      <3>1. c \in CallState
        BY <1>1 DEF CallState, Places, IInv, TypeOK
      <3>2. CallerOK(c)
        BY <1>1 DEF CallState, CallerOK
      <3>3. caller' = [caller EXCEPT ![p] = c]
        BY <2>3 DEF ReadOutbox
      <3>4. QED
        BY <3>1, <3>2, <3>3, CallerSet
    <2>4. QED
      BY <2>1, <2>2, <2>3
  <1>3. QED
    BY <1>2, JobsHere, StoreStands, BoundsHere DEF ReadOutbox, bounds

LEMMA CreateChildrenKeeps ==
  ASSUME IInv, NEW p \in Caller, CreateChildren(p)
  PROVE  IInv'
  <1> DEFINE old == caller[p]
  <1>1. old \in CallState /\ CallerOK(old)
    BY CallHere
  <1>2. PICK batch : /\ batch \in (IF Kind[p] = "sync" THEN {{k} : k \in old.kids} ELSE {old.kids})
                     /\ jobs' = jobs \cup {Job(p, k.child, Id("Start", k.child, 0), "load", Absent) : k \in batch}
                     /\ caller' = [caller EXCEPT ![p].batch = batch, ![p].at = "ack"]
    BY DEF CreateChildren
  <1>3. batch \subseteq Spawn
    BY <1>1, <1>2 DEF CallState
  <1> DEFINE c == [old EXCEPT !.batch = batch, !.at = "ack"]
  <1>4. c \in CallState /\ CallerOK(c) /\ caller' = [caller EXCEPT ![p] = c]
    <2>1. c \in CallState
      BY <1>1, <1>3 DEF CallState, Places
    <2>2. CallerOK(c)
      BY <1>1 DEF CallState, CallerOK
    <2>3. caller' = [caller EXCEPT ![p] = c]
      BY <1>2
    <2>4. QED
      BY <2>1, <2>2, <2>3
  <1>5. caller' \in [Caller -> CallState] /\ \A q \in Caller : CallerOK(caller'[q])
    BY <1>4, CallerSet
  <1>6. ASSUME NEW k \in batch
        PROVE  LET j == Job(p, k.child, Id("Start", k.child, 0), "load", Absent)
               IN j \in JobState /\ JobOK(j)
    <2>1. k.child \in Exec /\ Absent.ver = 0 /\ exe[k.child].ver \in Nat
      BY <1>3, InExec, RecordHere DEF Spawn, Absent
    <2>2. Id("Start", k.child, 0) \in EventId
      BY <2>1 DEF Id, EventId
    <2>3. QED
      BY <2>1, <2>2, AbsentType, NewJob
  <1>7. jobs' \subseteq JobState /\ \A j \in jobs' : JobOK(j)
    BY <1>2, <1>6, JobsHere
  <1>8. QED
    BY <1>5, <1>7, StoreStands, BoundsHere DEF CreateChildren, bounds

LEMMA AckSpawnKeeps ==
  ASSUME IInv, NEW p \in Caller, AckSpawn(p)
  PROVE  IInv'
  <1> DEFINE old == caller[p]
  <1>1. old \in CallState /\ CallerOK(old)
    BY CallHere
  <1>2. PICK k \in old.batch :
          /\ spawns' = spawns \ {k}
          /\ caller' = [caller EXCEPT ![p].kids = @ \ {k}, ![p].batch = @ \ {k},
               ![p].at = IF old.batch # {k} THEN "ack"
                         ELSE IF old.kids # {k} THEN "create"
                         ELSE IF Kind[p] = "sync" THEN "outbox"
                         ELSE IF old.rows = <<>> THEN "spawns" ELSE "rows"]
    BY DEF AckSpawn
  <1> DEFINE at == IF old.batch # {k} THEN "ack"
                   ELSE IF old.kids # {k} THEN "create"
                   ELSE IF Kind[p] = "sync" THEN "outbox"
                   ELSE IF old.rows = <<>> THEN "spawns" ELSE "rows"
             c == [old EXCEPT !.kids = @ \ {k}, !.batch = @ \ {k}, !.at = at]
  <1>3. c \in CallState
    BY <1>1 DEF CallState, Places
  <1>4. CallerOK(c)
    BY <1>1 DEF CallState, CallerOK
  <1>5. caller' = [caller EXCEPT ![p] = c]
    BY <1>2
  <1>6. caller' \in [Caller -> CallState] /\ \A q \in Caller : CallerOK(caller'[q])
    BY <1>3, <1>4, <1>5, CallerSet
  <1>7. UNCHANGED <<exe, processed, again>> /\ outbox' \in Seq(Rows) /\ spawns' \subseteq Spawn /\ timer' \in Nat
    BY <1>2 DEF AckSpawn, IInv, TypeOK
  <1>8. UNCHANGED <<jobs, calls, faults>>
    BY DEF AckSpawn, bounds
  <1>9. QED
    BY <1>6, <1>7, <1>8, JobsHere, Stands, BoundsHere

LEMMA HeadTail ==
  ASSUME NEW S, NEW q \in Seq(S), q # <<>>
  PROVE  /\ Head(q) \in S /\ Tail(q) \in Seq(S)
         /\ Len(q) # 1 => Tail(q) # <<>>
  <1>1. Len(q) \in Nat \ {0} /\ Len(Tail(q)) = Len(q) - 1
    OBVIOUS
  <1>2. Len(<<>>) = 0
    OBVIOUS
  <1>3. ASSUME Len(q) # 1, Tail(q) = <<>>
        PROVE  FALSE
    <2>1. Len(Tail(q)) = 0
      BY <1>2, <1>3
    <2>2. Len(q) - 1 = 0
      BY <1>1, <2>1
    <2>3. Len(q) \in Nat /\ Len(q) # 1
      BY <1>1, <1>3
    <2>4. QED
      BY <2>2, <2>3
  <1>4. Head(q) \in S /\ Tail(q) \in Seq(S)
    OBVIOUS
  <1>5. QED
    BY <1>3, <1>4

LEMMA DeliverRowKeeps ==
  ASSUME IInv, NEW p \in Caller, DeliverRow(p)
  PROVE  IInv'
  <1> DEFINE old == caller[p]
             row == Head(old.rows)
             j == Job(p, row.to, row.id, "check", exe[row.to])
  <1>1. old \in CallState /\ CallerOK(old) /\ old.at = "rows"
    BY CallHere DEF DeliverRow
  <1>2. row \in Rows
    BY <1>1, HeadTail DEF CallState, CallerOK
  <1>3. row.to \in Exec /\ row.id \in EventId /\ exe[row.to] \in Record /\ exe[row.to].ver \in Nat
    BY <1>2, RecordHere DEF Rows
  <1>4. j \in JobState /\ JobOK(j)
    BY <1>3, NewJob
  <1>5. jobs' \subseteq jobs \cup {j} /\ Goes(p, "row")
    BY DEF DeliverRow
  <1>6. jobs' \subseteq JobState /\ \A k \in jobs' : JobOK(k)
    BY <1>4, <1>5, JobsHere
  <1>7. CallerOK([old EXCEPT !.at = "row"]) /\ "row" \in Places
    BY <1>1 DEF CallerOK, CallState, Places
  <1>8. QED
    BY <1>5, <1>6, <1>7, GoesOK, StoreStands, BoundsHere DEF DeliverRow, bounds

LEMMA RemoveAtType ==
  ASSUME NEW S, NEW q \in Seq(S), NEW i \in DOMAIN q
  PROVE  RemoveAt(q, i) \in Seq(S)
  <1>1. SubSeq(q, 1, i - 1) \in Seq(S) /\ SubSeq(q, i + 1, Len(q)) \in Seq(S)
    OBVIOUS
  <1>2. QED
    BY <1>1 DEF RemoveAt

LEMMA AckOutboxKeeps ==
  ASSUME IInv, NEW p \in Caller, AckOutbox(p)
  PROVE  IInv'
  <1> DEFINE old == caller[p]
             at == IF Len(old.rows) = 1 THEN "spawns" ELSE "rows"
             c == [old EXCEPT !.rows = Tail(@), !.at = at]
  <1>1. old \in CallState /\ CallerOK(old) /\ old.at = "row"
    BY CallHere DEF AckOutbox
  <1>2. /\ old.rows \in Seq(Rows) /\ old.rows # <<>>
        /\ Tail(old.rows) \in Seq(Rows) /\ (at = "rows" => Tail(old.rows) # <<>>)
    BY <1>1, HeadTail DEF CallState, CallerOK
  <1>3. c \in CallState
    BY <1>1, <1>2 DEF CallState, Places
  <1>4. CallerOK(c)
    BY <1>1, <1>2 DEF CallState, CallerOK
  <1>5. caller' = [caller EXCEPT ![p] = c]
    BY DEF AckOutbox
  <1>6. caller' \in [Caller -> CallState] /\ \A q \in Caller : CallerOK(caller'[q])
    BY <1>3, <1>4, <1>5, CallerSet
  <1>7. outbox' = outbox \/ \E i \in DOMAIN outbox : outbox' = RemoveAt(outbox, i)
    BY DEF AckOutbox
  <1>8. outbox' \in Seq(Rows)
    BY <1>7, RemoveAtType DEF IInv, TypeOK
  <1>9. UNCHANGED <<exe, processed, again>> /\ spawns' \subseteq Spawn /\ timer' \in Nat
    BY DEF AckOutbox, IInv, TypeOK
  <1>10. UNCHANGED <<jobs, calls, faults>>
    BY DEF AckOutbox, bounds
  <1>11. QED
    BY <1>6, <1>8, <1>9, <1>10, JobsHere, Stands, BoundsHere
-----------------------------------------------------------------------------
(* The sweep of due timers *)

LEMMA SweepNextKeeps ==
  ASSUME IInv, NEW p \in Caller, SweepNext(p)
  PROVE  IInv'
  <1> DEFINE old == caller[p]
  <1>1. old \in CallState /\ CallerOK(old) /\ old.at = "sweep"
    BY CallHere DEF SweepNext
  <1>2. CASE old.left = {}
    <2>1. Ends(p) /\ UNCHANGED <<store, jobs, calls, faults>>
      BY <1>2 DEF SweepNext, bounds
    <2>2. QED
      BY <2>1, EndsOK, StoreStands, JobsHere, BoundsHere
  <1>3. CASE old.left # {}
    <2>1. PICK t \in old.left :
            LET next == [old EXCEPT !.left = @ \ {t}, !.timer = t]
            IN \/ caller' = [caller EXCEPT ![p] = next] /\ UNCHANGED jobs
               \/ caller' = [caller EXCEPT ![p] = [next EXCEPT !.at = "delete"]] /\ UNCHANGED jobs
               \/ /\ caller' = [caller EXCEPT ![p] = [next EXCEPT !.at = "fired"]]
                  /\ jobs' = jobs \cup {Job(p, t.of, t, "load", Absent)}
      BY <1>3 DEF SweepNext
    <2> DEFINE next == [old EXCEPT !.left = @ \ {t}, !.timer = t]
               j == Job(p, t.of, t, "load", Absent)
    <2>2. t \in EventId /\ t.kind = "Timeout" /\ t.of = Root
      BY <1>1 DEF CallerOK
    <2>3. \A at \in {"sweep", "delete", "fired"} : [next EXCEPT !.at = at] \in CallState
      BY <1>1, <2>2 DEF CallState, Places
    <2>4. \A at \in {"sweep", "delete", "fired"} : CallerOK([next EXCEPT !.at = at])
      BY <1>1 DEF CallState, CallerOK
    <2>5. next = [next EXCEPT !.at = "sweep"]
      BY <1>1 DEF CallState
    <2>6. \E at \in {"sweep", "delete", "fired"} : caller' = [caller EXCEPT ![p] = [next EXCEPT !.at = at]]
      BY <2>1, <2>5
    <2>7. caller' \in [Caller -> CallState] /\ \A q \in Caller : CallerOK(caller'[q])
      BY <2>3, <2>4, <2>6, CallerSet
    <2>8. j \in JobState /\ JobOK(j)
      BY <2>2, InExec, AbsentType, RecordHere, NewJob DEF Absent, Record
    <2>9. jobs' \subseteq JobState /\ \A k \in jobs' : JobOK(k)
      BY <2>1, <2>8, JobsHere
    <2>10. UNCHANGED <<store, calls, faults>>
      BY DEF SweepNext, bounds
    <2>11. QED
      BY <2>7, <2>9, <2>10, StoreStands, BoundsHere
  <1>4. QED
    BY <1>2, <1>3

LEMMA DeleteTimerKeeps ==
  ASSUME IInv, NEW p \in Caller, DeleteTimer(p)
  PROVE  IInv'
  <1> DEFINE old == caller[p]
             c == [old EXCEPT !.at = "sweep", !.timer = NoId]
  <1>1. old \in CallState /\ CallerOK(old) /\ old.at = "delete"
    BY CallHere DEF DeleteTimer
  <1>2. c \in CallState
    BY <1>1 DEF CallState, Places
  <1>3. CallerOK(c)
    BY <1>1 DEF CallState, CallerOK
  <1>4. caller' = [caller EXCEPT ![p] = c]
    BY DEF DeleteTimer
  <1>5. caller' \in [Caller -> CallState] /\ \A q \in Caller : CallerOK(caller'[q])
    BY <1>2, <1>3, <1>4, CallerSet
  <1>6. UNCHANGED <<exe, processed, again>> /\ outbox' \in Seq(Rows) /\ spawns' \subseteq Spawn /\ timer' \in Nat
    BY DEF DeleteTimer, IInv, TypeOK
  <1>7. UNCHANGED <<jobs, calls, faults>>
    BY DEF DeleteTimer, bounds
  <1>8. QED
    BY <1>5, <1>6, <1>7, JobsHere, Stands, BoundsHere
-----------------------------------------------------------------------------
(* The sub-flows *)

LEMMA JobLoadKeeps ==
  ASSUME IInv, NEW j \in jobs, JobLoad(j)
  PROVE  IInv'
  <1>1. /\ j \in JobState /\ JobOK(j) /\ j.at = "load" /\ j.x \in Exec /\ j.id \in EventId
        /\ exe[j.x] \in Record /\ exe[j.x].ver \in Nat
    BY JobsHere, RecordHere DEF JobLoad, JobState
  <1>2. UNCHANGED <<store, calls, faults>>
    BY DEF JobLoad, bounds
  <1>3. CASE (j.id.kind = "Start") = (exe[j.x] = Absent)
    <2> DEFINE at == IF j.id.kind = "Start" THEN "commit" ELSE "check"
               k == [j EXCEPT !.at = at, !.rec = exe[j.x]]
    <2>1. jobs' = (jobs \ {j}) \cup {k} /\ UNCHANGED caller
      BY <1>3 DEF JobLoad, Becomes
    <2>2. k \in JobState
      BY <1>1 DEF JobState
    <2>3. JobOK(k)
      BY <1>1 DEF JobState, JobOK, IInv, StartsFree
    <2>4. jobs' \subseteq JobState /\ \A q \in jobs' : JobOK(q)
      BY <2>1, <2>2, <2>3, JobsHere
    <2>5. QED
      BY <1>2, <2>1, <2>4, CallersKept, StoreStands, BoundsHere
  <1>4. CASE (j.id.kind = "Start") # (exe[j.x] = Absent)
    <2>1. jobs' = jobs \ {j} /\ Over(j, FALSE)
      BY <1>4 DEF JobLoad, Becomes
    <2>2. QED
      BY <1>2, <2>1, OverOK, JobsHere, StoreStands, BoundsHere
  <1>5. QED
    BY <1>3, <1>4

LEMMA IsProcessedKeeps ==
  ASSUME IInv, NEW j \in jobs, IsProcessed(j)
  PROVE  IInv'
  <1>1. j \in JobState /\ JobOK(j) /\ UNCHANGED <<store, calls, faults>>
    BY JobsHere DEF IsProcessed, bounds
  <1>2. CASE j.id \in processed[j.x]
    <2>1. jobs' = jobs \ {j} /\ Over(j, FALSE)
      BY <1>2 DEF IsProcessed, Becomes
    <2>2. QED
      BY <1>1, <2>1, OverOK, JobsHere, StoreStands, BoundsHere
  <1>3. CASE j.id \notin processed[j.x]
    <2> DEFINE k == [j EXCEPT !.at = "commit"]
    <2>1. jobs' = (jobs \ {j}) \cup {k} /\ UNCHANGED caller
      BY <1>3 DEF IsProcessed, Becomes
    <2>2. k \in JobState /\ JobOK(k)
      BY <1>1, <1>3 DEF JobState, JobOK
    <2>3. jobs' \subseteq JobState /\ \A q \in jobs' : JobOK(q)
      BY <2>1, <2>2, JobsHere
    <2>4. QED
      BY <1>1, <2>1, <2>3, CallersKept, StoreStands, BoundsHere
  <1>4. QED
    BY <1>2, <1>3

LEMMA JobCommitKeeps ==
  ASSUME IInv, NEW j \in jobs, JobCommit(j)
  PROVE  IInv'
  <1>1. j.x \in Exec /\ j.rec \in Record /\ j.id \in EventId
    BY JobsHere DEF JobState
  <1>2. Sound(Step(j.x, j.rec, j.id))
    BY <1>1, StepType
  <1>3. caller' \in [Caller -> CallState] /\ \A q \in Caller : CallerOK(caller'[q])
    BY OverOK DEF JobCommit
  <1>4. jobs' \subseteq jobs /\ UNCHANGED <<calls, faults>>
    BY DEF JobCommit, Becomes, bounds
  <1>5. QED
    BY <1>2, <1>3, <1>4, Committed, BoundsHere DEF JobCommit

LEMMA JobRearmKeeps ==
  ASSUME IInv, NEW j \in jobs, JobRearm(j)
  PROVE  IInv'
  <1>1. Sound(Rearmed(j.rec))
    BY JobsHere, RearmedType DEF JobState
  <1>2. jobs' \subseteq jobs /\ UNCHANGED <<caller, calls, faults>>
    BY DEF JobRearm, Becomes, bounds
  <1>3. QED
    BY <1>1, <1>2, CallersKept, Committed, BoundsHere DEF JobRearm

LEMMA RaisesKeeps ==
  ASSUME IInv, NEW j \in jobs, Raises(j), UNCHANGED store, calls' \in Nat, faults' \in Nat
  PROVE  IInv'
  <1>1. j.by \in Caller
    BY JobsHere DEF JobState
  <1>2. CASE j.stray
    BY <1>2, CallersKept, JobsHere, StoreStands DEF Raises, Becomes
  <1>3. CASE ~j.stray
    <2>1. caller' \in [Caller -> CallState] /\ \A q \in Caller : CallerOK(caller'[q])
      BY <1>1, <1>3, EndsOK DEF Raises
    <2>2. ASSUME NEW k \in jobs
          PROVE  [k EXCEPT !.stray = TRUE] \in JobState /\ JobOK([k EXCEPT !.stray = TRUE])
      BY JobsHere DEF JobState, JobOK
    <2>3. \A q \in jobs' : q \in jobs \/ \E k \in jobs : q = [k EXCEPT !.stray = TRUE]
      BY <1>3 DEF Raises, Own
    <2>4. jobs' \subseteq JobState /\ \A q \in jobs' : JobOK(q)
      BY <2>2, <2>3, JobsHere
    <2>5. QED
      BY <2>1, <2>4, StoreStands
  <1>4. QED
    BY <1>2, <1>3

LEMMA StoreConflictKeeps ==
  ASSUME IInv, NEW j \in jobs, StoreConflict(j)
  PROVE  IInv'
  BY RaisesKeeps, BoundsHere DEF StoreConflict, bounds

LEMMA ActionRaisesKeeps ==
  ASSUME IInv, NEW j \in jobs, ActionRaises(j)
  PROVE  IInv'
  <1>1. calls' \in Nat /\ faults' \in Nat
    BY BoundsHere DEF ActionRaises, Faulty
  <1>2. CASE Policy = "fail" /\ Kind[j.by] # "sync"
    <2>1. [j.rec EXCEPT !.status = "FAILED"] \in Record
      BY JobsHere DEF JobState, Record, Statuses
    <2>2. Sound(Failed(j.rec))
      BY <2>1, StayType DEF Failed
    <2>3. /\ j.at = "commit" /\ Wins(j.x, j.rec) /\ Commit(j.by, j.x, j.id, Failed(j.rec))
          /\ jobs' \subseteq jobs /\ Over(j, TRUE)
      BY <1>2 DEF ActionRaises, Becomes
    <2>4. caller' \in [Caller -> CallState] /\ \A q \in Caller : CallerOK(caller'[q])
      BY <2>3, OverOK
    <2>5. QED
      BY <1>1, <2>2, <2>3, <2>4, Committed
  <1>3. CASE ~(Policy = "fail" /\ Kind[j.by] # "sync")
    BY <1>1, <1>3, RaisesKeeps DEF ActionRaises
  <1>4. QED
    BY <1>2, <1>3
-----------------------------------------------------------------------------
(* Around the callers *)

LEMMA CrashKeeps ==
  ASSUME IInv, NEW p \in Caller, Crash(p)
  PROVE  IInv'
  <1>1. jobs' \subseteq jobs /\ Ends(p) /\ UNCHANGED store
    BY DEF Crash
  <1>2. calls' \in Nat /\ faults' \in Nat
    BY BoundsHere DEF Crash, Faulty
  <1>3. QED
    BY <1>1, <1>2, EndsOK, JobsHere, StoreStands

LEMMA TurnedRecord ==
  ASSUME NEW r \in Record, NEW to \in Statuses
  PROVE  LET t == [r EXCEPT !.status = to, !.ver = @ + 1] IN t \in Record /\ t.ver = r.ver + 1
  <1> DEFINE t == [r EXCEPT !.status = to, !.ver = @ + 1]
  <1>1. r.ver + 1 \in Nat
    BY DEF Record
  <1>2. PICK s \in Statuses, v \in Nat, d \in SUBSET Region, e \in Nat :
          r = [status |-> s, ver |-> v, done |-> d, expires |-> e]
    BY DEF Record
  <1> DEFINE u == [r EXCEPT !.status = to]
  <1>3. u = [status |-> to, ver |-> v, done |-> d, expires |-> e] /\ u.ver = v /\ r.ver = v
    BY <1>2
  <1>4. t = [u EXCEPT !.ver = u.ver + 1]
    OBVIOUS
  <1>5. [u EXCEPT !.ver = v + 1] = [status |-> to, ver |-> v + 1, done |-> d, expires |-> e]
    <2> HIDE DEF u
    <2>1. QED
      BY <1>3
  <1>6. t = [status |-> to, ver |-> v + 1, done |-> d, expires |-> e]
    BY <1>3, <1>4, <1>5
  <1>7. t \in Record /\ t.ver = r.ver + 1
    <2> HIDE DEF t
    <2>1. QED
      BY <1>1, <1>3, <1>6 DEF Record
  <1>8. QED
    BY <1>7

LEMMA TurnedKeeps ==
  ASSUME IInv, NEW from \in Statuses, NEW to \in Statuses, Turned(from, to),
         UNCHANGED <<processed, again, outbox, spawns, timer, caller, jobs>>, calls' \in Nat, faults' \in Nat
  PROVE  IInv'
  <1>1. ASSUME NEW x \in Exec
        PROVE  /\ exe'[x] \in Record /\ exe'[x].ver \in Nat
               /\ exe[x].ver <= exe'[x].ver
    <2>1. exe'[x] = IF exe[x].status = from THEN [exe[x] EXCEPT !.status = to, !.ver = @ + 1] ELSE exe[x]
      BY DEF Turned
    <2>2. exe[x] \in Record /\ exe[x].ver \in Nat
      BY RecordHere
    <2> DEFINE turned == [exe[x] EXCEPT !.status = to, !.ver = @ + 1]
    <2>3. turned \in Record /\ turned.ver = exe[x].ver + 1
      BY <2>2, TurnedRecord
    <2>4. exe[x].ver + 1 \in Nat /\ exe[x].ver <= exe[x].ver + 1 /\ exe[x].ver <= exe[x].ver
      BY <2>2
    <2>5. QED
      BY <2>1, <2>2, <2>3, <2>4
  <1>2. TypeOK'
    BY <1>1 DEF Turned, IInv, TypeOK
  <1>3. JobsOK'
    <2>1. ASSUME NEW j \in jobs
          PROVE  JobOK(j)'
      <3>1. j.x \in Exec /\ j.rec.ver \in Nat /\ exe[j.x].ver \in Nat /\ JobOK(j)
        BY JobsHere, RecordHere DEF JobState, Record
      <3>2. QED
        BY <1>1, <3>1 DEF JobOK
    <2>2. QED
      BY <2>1 DEF JobsOK
  <1>4. CallersOK'
    <2>1. ASSUME NEW q \in Caller
          PROVE  CallerOK(caller[q])'
      <3>1. caller[q].rec.ver \in Nat /\ exe[Root].ver \in Nat /\ CallerOK(caller[q])
        BY CallHere, RecordHere, InExec DEF CallState, Record
      <3>2. QED
        BY <1>1, <3>1, InExec DEF CallerOK
    <2>2. QED
      BY <2>1 DEF CallersOK
  <1>5. StartsFree' /\ TakenOnce'
    BY DEF IInv, StartsFree, TakenOnce
  <1>6. QED
    BY <1>2, <1>3, <1>4, <1>5 DEF IInv

LEMMA SuspendKeeps ==
  ASSUME IInv, Suspend \/ Resume
  PROVE  IInv'
  BY TurnedKeeps, BoundsHere DEF Suspend, Resume, Faulty, Statuses
-----------------------------------------------------------------------------
LEMMA InitHolds == Init => IInv
  <1> SUFFICES ASSUME Init PROVE IInv
    OBVIOUS
  <1>1. TypeOK
    BY AbsentType, IdleType DEF Init, TypeOK
  <1>2. CallersOK
    BY InExec DEF Init, CallersOK, CallerOK, Idle, Absent
  <1>3. JobsOK /\ StartsFree /\ TakenOnce
    BY DEF Init, JobsOK, StartsFree, TakenOnce
  <1>4. QED
    BY <1>1, <1>2, <1>3 DEF IInv

LEMMA WorksKeeps ==
  ASSUME IInv, NEW p \in Caller, Works(p)
  PROVE  IInv'
  <1>1. CASE \E x \in Region : LoadTarget(p, x)
    BY <1>1, LoadTargetKeeps
  <1>2. CASE NoRegionAlive(p) \/ Rearm(p)
    BY <1>2, NoRegionAliveKeeps, RearmKeeps
  <1>3. CASE Flush(p)
    BY <1>3, ReadSpawnsKeeps, ReadOutboxKeeps, CreateChildrenKeeps, AckSpawnKeeps, DeliverRowKeeps,
       AckOutboxKeeps DEF Flush
  <1>4. CASE SweepNext(p) \/ DeleteTimer(p)
    BY <1>4, SweepNextKeeps, DeleteTimerKeeps
  <1>5. CASE \E j \in jobs : j.by = p /\ SubFlow(j)
    BY <1>5, JobLoadKeeps, IsProcessedKeeps, JobCommitKeeps, JobRearmKeeps, StoreConflictKeeps DEF SubFlow
  <1>6. QED
    BY <1>1, <1>2, <1>3, <1>4, <1>5 DEF Works

LEMMA NextKeeps == IInv /\ [Next]_vars => IInv'
  <1> SUFFICES ASSUME IInv, [Next]_vars PROVE IInv'
    OBVIOUS
  <1>1. CASE UNCHANGED vars
    <2>1. UNCHANGED <<store, caller, jobs, calls, faults>>
      BY <1>1 DEF vars, store
    <2>2. QED
      BY <2>1, CallersKept, JobsHere, StoreStands, BoundsHere
  <1>2. ASSUME NEW p \in Caller, Create(p) \/ Recover(p) \/ FireDueTimers(p) \/ Crash(p) \/ Works(p)
        PROVE  IInv'
    BY <1>2, CreateKeeps, RecoverKeeps, FireDueTimersKeeps, CrashKeeps, WorksKeeps
  <1>3. ASSUME NEW p \in Caller, NEW e \in Event, Process(p, e)
        PROVE  IInv'
    BY <1>3, ProcessKeeps
  <1>4. CASE (\E j \in jobs : ActionRaises(j)) \/ Suspend \/ Resume
    BY <1>4, ActionRaisesKeeps, SuspendKeeps
  <1>5. QED
    BY <1>1, <1>2, <1>3, <1>4 DEF Next

LEMMA Invariant == Spec => []IInv
  BY InitHolds, NextKeeps, PTL DEF Spec

\* In-process runs (durable.py, driver.py and their flows): however many callers drive one
\* execution, on whatever kind of host, none of its executions takes an event a second time,
\* though calls overlap, lose their commit, raise, crash, or find the tree suspended.
THEOREM EventsTakeEffectOnce == Spec => []TakenOnce
  <1>1. IInv => TakenOnce
    BY DEF IInv
  <1>2. QED
    BY <1>1, Invariant, PTL
-----------------------------------------------------------------------------
(* The sweep: where a caller may be without a sub-flow of its own, and     *)
(* what it knows of the timer it fired.                                    *)

Quiet == {"idle", "outbox", "create", "rows", "sweep", "delete"}

Knows(p) ==
  /\ exe[Root].ver > 0
  /\ caller[p].at # "sweep" =>
       caller[p].timer \in EventId /\ caller[p].timer.kind = "Timeout" /\ caller[p].timer.of = Root
  /\ caller[p].at = "fired" => \A j \in Own(p) : j.x = Root /\ j.id = caller[p].timer /\ Own(p) = {j}
  /\ caller[p].at \notin {"sweep", "fired"} => caller[p].timer \in processed[Root]

SweepOK(p) ==
  /\ caller[p].at \in Quiet => Own(p) = {}
  /\ caller[p].op = "sweep" => Knows(p)

Sweeps == \A p \in Caller : SweepOK(p)
Armed == timer > 0 => exe[Root].ver > 0
Rearms == \A j \in jobs : j.at = "rearm" => j.x = Root

SInv == IInv /\ Sweeps /\ Armed /\ Rearms

\* Records and what they processed only grow.
Grows == /\ exe[Root].ver \in Nat /\ exe'[Root].ver \in Nat /\ exe[Root].ver <= exe'[Root].ver
         /\ processed[Root] \subseteq processed'[Root]

LEMMA SameStore ==
  ASSUME IInv, UNCHANGED <<exe, processed>>
  PROVE  Grows
  <1>1. exe[Root].ver \in Nat
    BY RecordHere, InExec
  <1>2. QED
    BY <1>1 DEF Grows

\* A caller that does nothing, and whose sub-flows at most end.
LEMMA Others ==
  ASSUME SInv, Grows, NEW q \in Caller, caller'[q] = caller[q], Own(q)' \subseteq Own(q)
  PROVE  SweepOK(q)'
  <1>1. SweepOK(q)
    BY DEF SInv, Sweeps
  <1>2. caller[q].at \in Quiet => Own(q)' = {}
    BY <1>1 DEF SweepOK
  <1>3. ASSUME caller[q].op = "sweep"
        PROVE  Knows(q)'
    <2>1. Knows(q)
      BY <1>1, <1>3 DEF SweepOK
    <2>2. exe'[Root].ver > 0
      BY <2>1 DEF Grows, Knows
    <2>3. caller[q].at = "fired" =>
            \A j \in Own(q)' : j.x = Root /\ j.id = caller[q].timer /\ Own(q)' = {j}
      BY <2>1 DEF Knows
    <2>4. caller[q].at \notin {"sweep", "fired"} => caller[q].timer \in processed'[Root]
      BY <2>1 DEF Knows, Grows
    <2>5. QED
      BY <2>1, <2>2, <2>3, <2>4 DEF Knows
  <1>4. QED
    BY <1>2, <1>3 DEF SweepOK

\* A call ends.
LEMMA Ended ==
  ASSUME NEW p \in Caller, caller'[p] = Idle, Own(p)' = {}
  PROVE  SweepOK(p)'
  BY DEF SweepOK, Idle

\* A caller at a place of its flush, or in a call that does not sweep.
LEMMA Elsewhere ==
  ASSUME NEW p \in Caller, caller'[p].op # "sweep", caller'[p].at \notin Quiet
  PROVE  SweepOK(p)'
  BY DEF SweepOK

LEMMA Moves ==
  ASSUME SInv, Grows, NEW p \in Caller,
         caller'[p].op = caller[p].op, caller'[p].timer = caller[p].timer,
         caller[p].at \notin {"sweep", "fired"}, caller'[p].at \notin {"sweep", "fired"},
         caller'[p].at \in Quiet => Own(p)' = {}
  PROVE  SweepOK(p)'
  <1>1. SweepOK(p)
    BY DEF SInv, Sweeps
  <1>2. ASSUME caller[p].op = "sweep"
        PROVE  Knows(p)'
    <2>1. Knows(p)
      BY <1>1, <1>2 DEF SweepOK
    <2>2. exe'[Root].ver > 0
      BY <2>1 DEF Grows, Knows
    <2>3. caller[p].timer \in processed'[Root]
      BY <2>1 DEF Knows, Grows
    <2>4. QED
      BY <2>1, <2>2, <2>3 DEF Knows
  <1>3. QED
    BY <1>2 DEF SweepOK

\* What a step of one caller has to show.
LEMMA OneCaller ==
  ASSUME SInv, IInv', Grows, NEW p \in Caller,
         \A q \in Caller : q # p => caller'[q] = caller[q],
         \A j \in jobs' : j.by # p => j \in jobs,
         SweepOK(p)', timer' = timer \/ Armed',
         \A j \in jobs' : j.at = "rearm" => j.x = Root
  PROVE  SInv'
  <1>1. ASSUME NEW q \in Caller, q # p
        PROVE  SweepOK(q)'
    <2>1. Own(q)' \subseteq Own(q)
      BY <1>1 DEF Own
    <2>2. QED
      BY <1>1, <2>1, Others
  <1>2. Armed'
    BY DEF SInv, Armed, Grows
  <1>3. QED
    BY <1>1, <1>2 DEF SInv, Sweeps, Rearms

LEMMA CallerAt ==
  ASSUME IInv, NEW p \in Caller, NEW c, caller' = [caller EXCEPT ![p] = c]
  PROVE  caller'[p] = c /\ \A q \in Caller : q # p => caller'[q] = caller[q]
  BY DEF IInv, TypeOK

LEMMA Begun ==
  ASSUME SInv, IInv', UNCHANGED store, NEW p \in Caller, NEW c,
         caller' = [caller EXCEPT ![p] = c], c.op # "sweep", c.at \notin Quiet,
         \A j \in jobs' : j \in jobs \/ (j.by = p /\ (j.at = "rearm" => j.x = Root))
  PROVE  SInv'
  <1>1. caller'[p] = c /\ \A q \in Caller : q # p => caller'[q] = caller[q]
    BY CallerAt DEF SInv
  <1>2. SweepOK(p)'
    BY <1>1, Elsewhere
  <1>3. Grows /\ timer' = timer
    BY SameStore DEF store, SInv
  <1>4. \A j \in jobs' : j.at = "rearm" => j.x = Root
    BY DEF SInv, Rearms
  <1>5. QED
    BY <1>1, <1>2, <1>3, <1>4, OneCaller

LEMMA BeginningsSweep ==
  ASSUME SInv, IInv', NEW p \in Caller, Create(p) \/ Recover(p) \/ \E e \in Event : Process(p, e)
  PROVE  SInv'
  <1>1. CASE Create(p)
    <2> DEFINE c == [Idle EXCEPT !.op = "create", !.at = "spawns"]
    <2>1. caller' = [caller EXCEPT ![p] = c] /\ UNCHANGED store
      BY <1>1 DEF Create, Begins
    <2>2. c.op # "sweep" /\ c.at \notin Quiet
      BY DEF Idle, Quiet
    <2>3. \A j \in jobs' : j \in jobs \/ (j.by = p /\ (j.at = "rearm" => j.x = Root))
      BY <1>1 DEF Create, Job
    <2>4. QED
      BY <2>1, <2>2, <2>3, Begun
  <1>2. CASE Recover(p)
    <2> DEFINE c == [Idle EXCEPT !.op = "recover", !.at = "spawns"]
    <2>1. caller' = [caller EXCEPT ![p] = c] /\ UNCHANGED store /\ jobs' = jobs
      BY <1>2 DEF Recover, Begins
    <2>2. c.op # "sweep" /\ c.at \notin Quiet
      BY DEF Idle, Quiet
    <2>3. QED
      BY <2>1, <2>2, Begun
  <1>3. ASSUME NEW e \in Event, Process(p, e)
        PROVE  SInv'
    <2> DEFINE c == [Idle EXCEPT !.op = "process", !.at = "targets", !.id = Domain(e), !.rec = exe[Root],
                            !.left = Region \ exe[Root].done]
    <2>1. caller' = [caller EXCEPT ![p] = c] /\ UNCHANGED store /\ jobs' = jobs
      BY <1>3 DEF Process, Begins
    <2>2. c.op # "sweep" /\ c.at \notin Quiet
      BY DEF Idle, Quiet
    <2>3. QED
      BY <2>1, <2>2, Begun
  <1>4. QED
    BY <1>1, <1>2, <1>3

LEMMA FireDueTimersSweep ==
  ASSUME SInv, IInv', NEW p \in Caller, FireDueTimers(p)
  PROVE  SInv'
  <1> DEFINE c == [Idle EXCEPT !.op = "sweep", !.at = "sweep", !.left = {Id("Timeout", Root, timer)}]
  <1>1. /\ caller' = [caller EXCEPT ![p] = c] /\ UNCHANGED store /\ jobs' = jobs
        /\ caller[p].at = "idle" /\ timer > 0
    BY DEF FireDueTimers, Begins
  <1>2. caller'[p] = c /\ \A q \in Caller : q # p => caller'[q] = caller[q]
    BY <1>1, CallerAt DEF SInv
  <1>3. c.op = "sweep" /\ c.at = "sweep"
    BY DEF Idle
  <1>4. Own(p)' = {}
    BY <1>1 DEF SInv, Sweeps, SweepOK, Quiet, Own
  <1>5. exe'[Root].ver > 0
    BY <1>1 DEF SInv, Armed, store
  <1>6. SweepOK(p)'
    BY <1>2, <1>3, <1>4, <1>5 DEF SweepOK, Knows
  <1>7. Grows /\ timer' = timer
    BY <1>1, SameStore DEF store, SInv
  <1>8. QED
    BY <1>1, <1>2, <1>6, <1>7, OneCaller DEF SInv, Rearms

\* Looking targets up: no call that sweeps does.
LEMMA TargetsSweep ==
  ASSUME SInv, IInv', NEW p \in Caller, (\E x \in Region : LoadTarget(p, x)) \/ NoRegionAlive(p) \/ Rearm(p)
  PROVE  SInv'
  <1>1. caller[p] \in CallState /\ CallerOK(caller[p]) /\ caller[p].at = "targets" /\ caller[p].op # "sweep"
    BY CallHere DEF LoadTarget, NoRegionAlive, Rearm, CallerOK, SInv
  <1>2. ASSUME NEW x \in Region, LoadTarget(p, x)
        PROVE  SInv'
    <2> DEFINE c == [caller[p] EXCEPT !.left = @ \ {x}, !.found = @ \/ exe[x] # Absent]
    <2>1. caller' = [caller EXCEPT ![p] = c] /\ UNCHANGED store
      BY <1>2 DEF LoadTarget
    <2>2. c.op # "sweep" /\ c.at \notin Quiet
      BY <1>1 DEF Quiet, CallState
    <2>3. \A j \in jobs' : j \in jobs \/ (j.by = p /\ (j.at = "rearm" => j.x = Root))
      BY <1>2 DEF LoadTarget, Job
    <2>4. QED
      BY <2>1, <2>2, <2>3, Begun
  <1>3. CASE NoRegionAlive(p) \/ Rearm(p)
    <2> DEFINE c == [Idle EXCEPT !.op = caller[p].op, !.at = "spawns"]
    <2>1. caller' = [caller EXCEPT ![p] = c] /\ UNCHANGED store
      BY <1>3 DEF NoRegionAlive, Rearm, Flushes
    <2>2. c.op # "sweep" /\ c.at \notin Quiet
      BY <1>1 DEF Quiet, Idle
    <2>3. \A j \in jobs' : j \in jobs \/ (j.by = p /\ (j.at = "rearm" => j.x = Root))
      BY <1>3 DEF NoRegionAlive, Rearm, Job
    <2>4. QED
      BY <2>1, <2>2, <2>3, Begun
  <1>4. QED
    BY <1>2, <1>3

\* The flush and its acks, by a caller whose sub-flows are over where it rests.
LEMMA FlushMoves ==
  ASSUME SInv, IInv', NEW p \in Caller, NEW c, UNCHANGED <<exe, processed, timer>>,
         caller' = [caller EXCEPT ![p] = c], c.op = caller[p].op, c.timer = caller[p].timer,
         caller[p].at \notin {"sweep", "fired"}, c.at \notin {"sweep", "fired"},
         c.at \in Quiet => Own(p)' = {},
         \A j \in jobs' : j \in jobs \/ (j.by = p /\ j.at # "rearm")
  PROVE  SInv'
  <1>1. caller'[p] = c /\ \A q \in Caller : q # p => caller'[q] = caller[q]
    BY CallerAt DEF SInv
  <1>2. Grows
    BY SameStore DEF SInv
  <1>3. SweepOK(p)'
    BY <1>1, <1>2, Moves
  <1>4. \A j \in jobs' : j.at = "rearm" => j.x = Root
    BY DEF SInv, Rearms
  <1>5. QED
    BY <1>1, <1>2, <1>3, <1>4, OneCaller

LEMMA EndsSweep ==
  ASSUME SInv, IInv', NEW p \in Caller, UNCHANGED store, Ends(p), Own(p)' = {},
         \A j \in jobs' : \/ j \in jobs
                          \/ j.by = p /\ \E k \in jobs : j = [k EXCEPT !.stray = TRUE]
  PROVE  SInv'
  <1>1. caller'[p] = Idle /\ \A q \in Caller : q # p => caller'[q] = caller[q]
    BY CallerAt DEF SInv, Ends
  <1>2. SweepOK(p)'
    BY <1>1, Ended
  <1>3. Grows /\ timer' = timer
    BY SameStore DEF SInv, store
  <1>4. ASSUME NEW j \in jobs', j.at = "rearm"
        PROVE  j.x = Root
    <2>1. CASE j \in jobs
      BY <1>4, <2>1 DEF SInv, Rearms
    <2>2. ASSUME NEW k \in jobs, j = [k EXCEPT !.stray = TRUE]
          PROVE  j.x = Root
      BY <1>4, <2>2, JobsHere DEF SInv, Rearms, JobState
    <2>3. QED
      BY <2>1, <2>2
  <1>5. QED
    BY <1>1, <1>2, <1>3, <1>4, OneCaller

LEMMA FlushSweep ==
  ASSUME SInv, IInv', NEW p \in Caller, Flush(p)
  PROVE  SInv'
  <1> DEFINE old == caller[p]
  <1>1. old \in CallState /\ SweepOK(p)
    BY CallHere DEF SInv, Sweeps
  <1>2. CASE ReadSpawns(p)
    <2> DEFINE at == IF Kind[p] = "sync" /\ spawns # {} THEN "create" ELSE "outbox"
               c == [old EXCEPT !.kids = spawns, !.found = spawns # {}, !.at = at]
    <2>1. old.at = "spawns" /\ Own(p) = {} /\ caller' = [caller EXCEPT ![p] = c] /\ jobs' = jobs
      BY <1>2 DEF ReadSpawns
    <2>2. at \in {"create", "outbox"} /\ c.at = at /\ c.op = old.op /\ c.timer = old.timer
      BY <1>1 DEF CallState
    <2>3. Own(p)' = {} /\ UNCHANGED <<exe, processed, timer>>
      BY <1>2, <2>1 DEF Own, ReadSpawns, store
    <2>4. QED
      BY <2>1, <2>2, <2>3, FlushMoves
  <1>3. CASE ReadOutbox(p)
    <2>1. old.at = "outbox" /\ Own(p) = {} /\ jobs' = jobs /\ UNCHANGED store
      BY <1>1, <1>3 DEF ReadOutbox, SweepOK, Quiet
    <2>2. Own(p)' = {} /\ UNCHANGED <<exe, processed, timer>>
      BY <2>1 DEF Own, store
    <2>3. CASE Ends(p)
      BY <2>1, <2>2, <2>3, EndsSweep
    <2>4. CASE Goes(p, "delete")
      <3> DEFINE c == [old EXCEPT !.at = "delete"]
      <3>1. caller' = [caller EXCEPT ![p] = c]
        BY <2>4 DEF Goes
      <3>2. c.at = "delete" /\ c.op = old.op /\ c.timer = old.timer
        BY <1>1 DEF CallState
      <3>3. QED
        BY <2>1, <2>2, <3>1, <3>2, FlushMoves
    <2>5. CASE ~Ends(p) /\ ~Goes(p, "delete")
      <3> DEFINE at == IF old.kids # {} THEN "create" ELSE IF outbox = <<>> THEN "spawns" ELSE "rows"
                 c == [old EXCEPT !.rows = outbox, !.found = FALSE, !.at = at]
      <3>1. caller' = [caller EXCEPT ![p] = c]
        BY <1>3, <2>5 DEF ReadOutbox
      <3>2. at \in {"create", "spawns", "rows"} /\ c.at = at /\ c.op = old.op /\ c.timer = old.timer
        BY <1>1 DEF CallState
      <3>3. QED
        BY <2>1, <2>2, <3>1, <3>2, FlushMoves
    <2>6. QED
      BY <2>3, <2>4, <2>5
  <1>4. CASE CreateChildren(p)
    <2>1. PICK batch : /\ caller' = [caller EXCEPT ![p].batch = batch, ![p].at = "ack"]
                       /\ jobs' = jobs \cup {Job(p, k.child, Id("Start", k.child, 0), "load", Absent) : k \in batch}
      BY <1>4 DEF CreateChildren
    <2> DEFINE c == [old EXCEPT !.batch = batch, !.at = "ack"]
    <2>2. caller' = [caller EXCEPT ![p] = c]
      BY <2>1 DEF SInv, IInv, TypeOK
    <2>3. c.at = "ack" /\ c.op = old.op /\ c.timer = old.timer /\ old.at = "create"
      BY <1>1, <1>4 DEF CallState, CreateChildren
    <2>4. \A j \in jobs' : j \in jobs \/ (j.by = p /\ j.at # "rearm")
      BY <2>1 DEF Job
    <2>5. UNCHANGED <<exe, processed, timer>>
      BY <1>4 DEF CreateChildren, store
    <2>6. QED
      BY <2>2, <2>3, <2>4, <2>5, FlushMoves DEF Quiet
  <1>5. CASE AckSpawn(p)
    <2>1. PICK k : caller' = [caller EXCEPT ![p].kids = @ \ {k}, ![p].batch = @ \ {k},
            ![p].at = IF old.batch # {k} THEN "ack"
                      ELSE IF old.kids # {k} THEN "create"
                      ELSE IF Kind[p] = "sync" THEN "outbox"
                      ELSE IF old.rows = <<>> THEN "spawns" ELSE "rows"]
      BY <1>5 DEF AckSpawn
    <2> DEFINE at == IF old.batch # {k} THEN "ack"
                      ELSE IF old.kids # {k} THEN "create"
                      ELSE IF Kind[p] = "sync" THEN "outbox"
                      ELSE IF old.rows = <<>> THEN "spawns" ELSE "rows"
               c == [old EXCEPT !.kids = @ \ {k}, !.batch = @ \ {k}, !.at = at]
    <2>2. caller' = [caller EXCEPT ![p] = c]
      BY <2>1 DEF SInv, IInv, TypeOK
    <2>3. at \in {"ack", "create", "outbox", "spawns", "rows"} /\ c.at = at /\ c.op = old.op /\ c.timer = old.timer
      BY <1>1 DEF CallState
    <2>4. old.at = "ack" /\ Own(p) = {} /\ jobs' = jobs /\ Own(p)' = {} /\ UNCHANGED <<exe, processed, timer>>
      BY <1>5 DEF AckSpawn, Own
    <2>5. QED
      BY <2>2, <2>3, <2>4, FlushMoves
  <1>6. CASE DeliverRow(p)
    <2> DEFINE c == [old EXCEPT !.at = "row"]
    <2>1. caller' = [caller EXCEPT ![p] = c] /\ old.at = "rows"
      BY <1>6 DEF DeliverRow, Goes
    <2>2. c.at = "row" /\ c.op = old.op /\ c.timer = old.timer
      BY <1>1 DEF CallState
    <2>3. \A j \in jobs' : j \in jobs \/ (j.by = p /\ j.at # "rearm")
      BY <1>6 DEF DeliverRow, Job
    <2>4. UNCHANGED <<exe, processed, timer>>
      BY <1>6 DEF DeliverRow, store
    <2>5. QED
      BY <2>1, <2>2, <2>3, <2>4, FlushMoves DEF Quiet
  <1>7. CASE AckOutbox(p)
    <2> DEFINE at == IF Len(old.rows) = 1 THEN "spawns" ELSE "rows"
               c == [old EXCEPT !.rows = Tail(@), !.at = at]
    <2>1. caller' = [caller EXCEPT ![p] = c] /\ old.at = "row" /\ Own(p) = {} /\ jobs' = jobs
      BY <1>7 DEF AckOutbox
    <2>2. at \in {"spawns", "rows"} /\ c.at = at /\ c.op = old.op /\ c.timer = old.timer
      BY <1>1 DEF CallState
    <2>3. Own(p)' = {} /\ UNCHANGED <<exe, processed, timer>>
      BY <1>7, <2>1 DEF Own, AckOutbox
    <2>4. QED
      BY <2>1, <2>2, <2>3, FlushMoves
  <1>8. QED
    BY <1>2, <1>3, <1>4, <1>5, <1>6, <1>7 DEF Flush

\* A sweep goes to the next timer: its execution exists, since a timer was armed by a commit of it.
LEMMA SweepNextSweep ==
  ASSUME SInv, IInv', NEW p \in Caller, SweepNext(p)
  PROVE  SInv'
  <1> DEFINE old == caller[p]
  <1>1. /\ old \in CallState /\ CallerOK(old) /\ old.at = "sweep" /\ old.op = "sweep"
        /\ Own(p) = {} /\ exe[Root].ver > 0 /\ exe[Root] # Absent
    <2>1. old \in CallState /\ CallerOK(old) /\ old.at = "sweep" /\ SweepOK(p)
      BY CallHere DEF SweepNext, SInv, Sweeps
    <2>2. old.op = "sweep" /\ Own(p) = {}
      BY <2>1 DEF CallerOK, SweepOK, Quiet
    <2>3. exe[Root].ver > 0
      BY <2>1, <2>2 DEF SweepOK, Knows
    <2>4. Absent.ver = 0
      BY DEF Absent
    <2>5. QED
      BY <2>1, <2>2, <2>3, <2>4
  <1>2. UNCHANGED store
    BY DEF SweepNext
  <1>3. CASE old.left = {}
    <2>1. Ends(p) /\ jobs' = jobs
      BY <1>3 DEF SweepNext
    <2>2. Own(p)' = {}
      BY <1>1, <2>1 DEF Own
    <2>3. QED
      BY <1>2, <2>1, <2>2, EndsSweep
  <1>4. CASE old.left # {}
    <2>1. PICK t \in old.left :
            LET next == [old EXCEPT !.left = @ \ {t}, !.timer = t]
            IN \/ caller' = [caller EXCEPT ![p] = next] /\ UNCHANGED jobs
               \/ exe[t.of] = Absent
               \/ /\ caller' = [caller EXCEPT ![p] = [next EXCEPT !.at = "fired"]]
                  /\ jobs' = jobs \cup {Job(p, t.of, t, "load", Absent)}
      BY <1>4 DEF SweepNext
    <2> DEFINE next == [old EXCEPT !.left = @ \ {t}, !.timer = t]
               fired == [next EXCEPT !.at = "fired"]
               j == Job(p, t.of, t, "load", Absent)
    <2>2. t \in EventId /\ t.kind = "Timeout" /\ t.of = Root
      BY <1>1 DEF CallerOK
    <2>3. /\ next.at = "sweep" /\ next.op = "sweep"
          /\ fired.at = "fired" /\ fired.op = "sweep" /\ fired.timer = t
      BY <1>1 DEF CallState
    <2>4. Grows /\ timer' = timer /\ exe'[Root].ver > 0
      BY <1>1, <1>2, SameStore DEF store, SInv
    <2>5. CASE caller' = [caller EXCEPT ![p] = next] /\ UNCHANGED jobs
      <3>1. caller'[p] = next /\ \A q \in Caller : q # p => caller'[q] = caller[q]
        BY <2>5, CallerAt DEF SInv
      <3>2. Own(p)' = {}
        BY <1>1, <2>5 DEF Own
      <3>3. SweepOK(p)'
        BY <2>3, <2>4, <3>1, <3>2 DEF SweepOK, Knows
      <3>4. QED
        BY <2>4, <2>5, <3>1, <3>3, OneCaller DEF SInv, Rearms
    <2>6. CASE caller' = [caller EXCEPT ![p] = fired] /\ jobs' = jobs \cup {j}
      <3>1. caller'[p] = fired /\ \A q \in Caller : q # p => caller'[q] = caller[q]
        BY <2>6, CallerAt DEF SInv
      <3>2. j.by = p /\ ~j.stray /\ j.x = Root /\ j.id = t /\ j.at = "load"
        BY <2>2 DEF Job
      <3>3. Own(p)' = {j}
        BY <1>1, <2>6, <3>2 DEF Own
      <3>4. Knows(p)'
        BY <2>2, <2>3, <2>4, <3>1, <3>2, <3>3 DEF Knows
      <3>5. SweepOK(p)'
        BY <2>3, <3>1, <3>4 DEF SweepOK, Quiet
      <3>6. (\A k \in jobs' : k.by # p => k \in jobs) /\ \A k \in jobs' : k.at = "rearm" => k.x = Root
        BY <2>6, <3>2 DEF SInv, Rearms
      <3>7. QED
        BY <2>4, <3>1, <3>5, <3>6, OneCaller
    <2>7. QED
      BY <1>1, <2>1, <2>2, <2>5, <2>6
  <1>5. QED
    BY <1>3, <1>4

LEMMA DeleteTimerSweep ==
  ASSUME SInv, IInv', NEW p \in Caller, DeleteTimer(p)
  PROVE  SInv'
  <1> DEFINE old == caller[p]
             c == [old EXCEPT !.at = "sweep", !.timer = NoId]
  <1>1. /\ old \in CallState /\ CallerOK(old) /\ old.at = "delete" /\ old.op = "sweep"
        /\ Own(p) = {} /\ exe[Root].ver > 0
    BY CallHere DEF DeleteTimer, SInv, Sweeps, SweepOK, Quiet, Knows, CallerOK
  <1>2. caller' = [caller EXCEPT ![p] = c] /\ jobs' = jobs /\ UNCHANGED <<exe, processed>>
    BY DEF DeleteTimer
  <1>3. caller'[p] = c /\ \A q \in Caller : q # p => caller'[q] = caller[q]
    BY <1>2, CallerAt DEF SInv
  <1>4. c.op = "sweep" /\ c.at = "sweep"
    BY <1>1 DEF CallState
  <1>5. Own(p)' = {}
    BY <1>1, <1>2 DEF Own
  <1>6. SweepOK(p)'
    BY <1>1, <1>2, <1>3, <1>4, <1>5 DEF SweepOK, Knows
  <1>7. Grows /\ Armed'
    BY <1>1, <1>2, SameStore DEF SInv, Armed
  <1>8. QED
    BY <1>2, <1>3, <1>6, <1>7, OneCaller DEF SInv, Rearms

\* A sub-flow goes on: it stays the flow of the same event on the same execution.
LEMMA JobGoesOn ==
  ASSUME SInv, IInv', NEW j \in jobs, NEW k, UNCHANGED <<store, caller>>,
         jobs' = (jobs \ {j}) \cup {k}, k.by = j.by, k.x = j.x, k.id = j.id, k.stray = j.stray, k.at # "rearm"
  PROVE  SInv'
  <1> DEFINE p == j.by
  <1>1. p \in Caller
    BY JobsHere DEF SInv, JobState
  <1>2. UNCHANGED <<exe, processed, timer, caller>>
    BY DEF store
  <1>3. Grows
    BY <1>2, SameStore DEF SInv
  <1>4. CASE j.stray
    <2>1. Own(p)' = Own(p)
      BY <1>4 DEF Own
    <2>2. SweepOK(p)'
      BY <1>1, <1>2, <1>3, <2>1, Others
    <2>3. QED
      BY <1>1, <1>2, <1>3, <2>2, OneCaller DEF SInv, Rearms
  <1>5. CASE ~j.stray
    <2>1. j \in Own(p) /\ k \in Own(p)' /\ Own(p)' \subseteq (Own(p) \ {j}) \cup {k}
      BY <1>5 DEF Own
    <2>2. caller[p].at \notin Quiet
      BY <1>1, <2>1 DEF SInv, Sweeps, SweepOK
    <2>3. ASSUME caller[p].op = "sweep"
          PROVE  Knows(p)'
      <3>1. Knows(p)
        BY <1>1, <2>3 DEF SInv, Sweeps, SweepOK
      <3>2. ASSUME caller[p].at = "fired", NEW i \in Own(p)'
            PROVE  i.x = Root /\ i.id = caller[p].timer /\ Own(p)' = {i}
        <4>1. Own(p) = {j} /\ j.x = Root /\ j.id = caller[p].timer
          BY <2>1, <3>1, <3>2 DEF Knows
        <4>2. Own(p)' = {k} /\ i = k
          BY <2>1, <3>2, <4>1
        <4>3. QED
          BY <4>1, <4>2
      <3>3. QED
        BY <1>2, <3>1, <3>2 DEF Knows
    <2>4. SweepOK(p)'
      BY <1>2, <2>2, <2>3 DEF SweepOK
    <2>5. QED
      BY <1>1, <1>2, <1>3, <2>4, OneCaller DEF SInv, Rearms
  <1>6. QED
    BY <1>4, <1>5

\* A sub-flow ends; where its caller waited for it, the sweep learns that its event was taken.
LEMMA JobEnds ==
  ASSUME SInv, IInv', Grows, NEW j \in jobs, NEW ran \in BOOLEAN,
         jobs' = jobs \ {j}, Over(j, ran), timer' = timer \/ Armed',
         caller[j.by].at = "fired" /\ ~j.stray => caller[j.by].timer \in processed'[Root]
  PROVE  SInv'
  <1> DEFINE p == j.by
  <1>1. p \in Caller /\ caller[p] \in CallState /\ CallerOK(caller[p]) /\ SweepOK(p)
    BY JobsHere, CallHere DEF SInv, Sweeps, JobState
  <1>2. Own(p)' = Own(p) \ {j}
    BY DEF Own
  <1>3. CASE caller[p].at = "fired" /\ ~j.stray
    <2> DEFINE at == IF ran THEN "spawns" ELSE "delete"
               c == [caller[p] EXCEPT !.at = at]
    <2>1. caller' = [caller EXCEPT ![p] = c]
      BY <1>3 DEF Over, Goes
    <2>2. caller'[p] = c /\ \A q \in Caller : q # p => caller'[q] = caller[q]
      BY <1>1, <2>1, CallerAt DEF SInv
    <2>3. at \in {"spawns", "delete"} /\ c.at = at /\ c.op = caller[p].op /\ c.timer = caller[p].timer
      BY <1>1 DEF CallState
    <2>4. caller[p].op = "sweep" /\ Knows(p)
      BY <1>1, <1>3 DEF CallerOK, SweepOK
    <2>5. j \in Own(p) /\ Own(p)' = {}
      BY <1>2, <1>3, <2>4 DEF Own, Knows
    <2>6. exe'[Root].ver > 0
      BY <2>4 DEF Knows, Grows
    <2>7. Knows(p)'
      BY <1>3, <2>2, <2>3, <2>4, <2>6 DEF Knows
    <2>8. SweepOK(p)'
      BY <2>2, <2>5, <2>7 DEF SweepOK
    <2>9. QED
      BY <1>1, <2>2, <2>8, OneCaller DEF SInv, Rearms
  <1>4. CASE ~(caller[p].at = "fired" /\ ~j.stray)
    <2>1. UNCHANGED caller
      BY <1>4 DEF Over
    <2>2. SweepOK(p)'
      BY <1>1, <1>2, <2>1, Others
    <2>3. QED
      BY <1>1, <2>1, <2>2, OneCaller DEF SInv, Rearms
  <1>5. QED
    BY <1>3, <1>4

\* What the sub-flow a sweep waits for is about.
LEMMA Fired ==
  ASSUME SInv, NEW j \in jobs, caller[j.by].at = "fired", ~j.stray
  PROVE  /\ j.x = Root /\ j.id = caller[j.by].timer /\ j.id.kind = "Timeout" /\ exe[Root].ver > 0
  <1>1. j.by \in Caller /\ CallerOK(caller[j.by]) /\ SweepOK(j.by) /\ j \in Own(j.by)
    BY JobsHere, CallHere DEF SInv, Sweeps, JobState, Own
  <1>2. Knows(j.by)
    BY <1>1 DEF CallerOK, SweepOK
  <1>3. QED
    BY <1>1, <1>2 DEF Knows

LEMMA JobLoadSweep ==
  ASSUME SInv, IInv', NEW j \in jobs, JobLoad(j)
  PROVE  SInv'
  <1>1. j \in JobState /\ j.at = "load" /\ UNCHANGED store
    BY JobsHere DEF SInv, JobLoad
  <1>2. CASE (j.id.kind = "Start") = (exe[j.x] = Absent)
    <2> DEFINE at == IF j.id.kind = "Start" THEN "commit" ELSE "check"
               k == [j EXCEPT !.at = at, !.rec = exe[j.x]]
    <2>1. jobs' = (jobs \ {j}) \cup {k} /\ UNCHANGED caller
      BY <1>2 DEF JobLoad, Becomes
    <2>2. k.by = j.by /\ k.x = j.x /\ k.id = j.id /\ k.stray = j.stray /\ k.at # "rearm"
      BY <1>1 DEF JobState
    <2> HIDE DEF at, k
    <2>3. QED
      BY <1>1, <2>1, <2>2, JobGoesOn
  <1>3. CASE (j.id.kind = "Start") # (exe[j.x] = Absent)
    <2>1. jobs' = jobs \ {j} /\ Over(j, FALSE)
      BY <1>3 DEF JobLoad, Becomes
    <2>2. Absent.ver = 0
      BY DEF Absent
    <2>3. ~(caller[j.by].at = "fired" /\ ~j.stray)
      BY <1>3, <2>2, Fired
    <2>4. Grows /\ timer' = timer
      BY <1>1, SameStore DEF SInv, store
    <2>5. QED
      BY <2>1, <2>3, <2>4, JobEnds
  <1>4. QED
    BY <1>2, <1>3

LEMMA IsProcessedSweep ==
  ASSUME SInv, IInv', NEW j \in jobs, IsProcessed(j)
  PROVE  SInv'
  <1>1. j \in JobState /\ UNCHANGED store
    BY JobsHere DEF SInv, IsProcessed
  <1>2. CASE j.id \in processed[j.x]
    <2>1. jobs' = jobs \ {j} /\ Over(j, FALSE)
      BY <1>2 DEF IsProcessed, Becomes
    <2>2. Grows /\ timer' = timer /\ processed' = processed
      BY <1>1, SameStore DEF SInv, store
    <2>3. caller[j.by].at = "fired" /\ ~j.stray => caller[j.by].timer \in processed'[Root]
      BY <1>2, <2>2, Fired
    <2>4. QED
      BY <2>1, <2>2, <2>3, JobEnds
  <1>3. CASE j.id \notin processed[j.x]
    <2> DEFINE k == [j EXCEPT !.at = "commit"]
    <2>1. jobs' = (jobs \ {j}) \cup {k} /\ UNCHANGED caller
      BY <1>3 DEF IsProcessed, Becomes
    <2>2. k.by = j.by /\ k.x = j.x /\ k.id = j.id /\ k.stray = j.stray /\ k.at # "rearm"
      BY <1>1 DEF JobState
    <2>3. QED
      BY <1>1, <2>1, <2>2, JobGoesOn
  <1>4. QED
    BY <1>2, <1>3

\* A timer is armed by a commit of the root, and the commit makes the version positive.
LEMMA CommitArms ==
  ASSUME SInv, NEW j \in jobs, NEW s, Sound(s),
         Commit(j.by, j.x, j.id, s), s.arms => j.x = Root
  PROVE  /\ Grows /\ (timer' = timer \/ Armed')
         /\ processed'[j.x] = processed[j.x] \cup ({j.id} \ {Id("Start", j.x, 0)})
  <1>1. /\ j.x \in Exec /\ exe \in [Exec -> Record] /\ processed \in [Exec -> SUBSET EventId]
        /\ exe[j.x].ver \in Nat /\ exe[Root].ver \in Nat /\ Root \in Exec
    BY JobsHere, RecordHere, InExec DEF SInv, IInv, TypeOK, JobState
  <1> DEFINE r == [s.rec EXCEPT !.ver = exe[j.x].ver + 1]
  <1>2. exe' = [exe EXCEPT ![j.x] = r] /\ processed'[j.x] = processed[j.x] \cup ({j.id} \ {Id("Start", j.x, 0)})
    BY <1>1 DEF Commit
  <1>3. processed[Root] \subseteq processed'[Root]
    BY <1>1 DEF Commit
  <1>4. r.ver = exe[j.x].ver + 1
    BY DEF Sound, Record
  <1>5. exe'[j.x].ver = exe[j.x].ver + 1 /\ (j.x # Root => exe'[Root] = exe[Root])
    BY <1>1, <1>2, <1>4
  <1>6. exe'[Root].ver \in Nat /\ exe[Root].ver <= exe'[Root].ver
    BY <1>1, <1>5
  <1>7. timer' = timer \/ exe'[Root].ver > 0
    BY <1>1, <1>5 DEF Commit
  <1>8. QED
    BY <1>1, <1>2, <1>3, <1>6, <1>7 DEF Grows, Armed

LEMMA ArmsRoot ==
  ASSUME NEW x \in Exec, NEW r, NEW id, Step(x, r, id).arms
  PROVE  x = Root
  <1> SUFFICES ASSUME x # Root PROVE FALSE
    OBVIOUS
  <1>1. ~StartStep(x).arms
    BY DEF StartStep
  <1>2. ~RegionStep(x, r, id).arms
    BY DEF RegionStep, Stay
  <1>3. QED
    BY <1>1, <1>2 DEF Step

\* What raises ends its caller's call, and takes its other sub-flows out of it.
LEMMA RaisesSweep ==
  ASSUME SInv, IInv', NEW j \in jobs, Raises(j), UNCHANGED store
  PROVE  SInv'
  <1> DEFINE p == j.by
  <1>1. p \in Caller /\ j \in JobState
    BY JobsHere DEF SInv, JobState
  <1>2. CASE j.stray
    <2>1. jobs' = jobs \ {j} /\ UNCHANGED caller
      BY <1>2 DEF Raises, Becomes
    <2>2. Grows /\ timer' = timer
      BY SameStore DEF SInv, store
    <2>3. Over(j, FALSE)
      BY <1>2, <2>1 DEF Over
    <2>4. QED
      BY <1>2, <2>1, <2>2, <2>3, JobEnds
  <1>3. CASE ~j.stray
    <2> DEFINE on == IF Kind[p] = "loop" THEN Own(p) \ {j} ELSE {}
    <2>1. Ends(p) /\ jobs' = (jobs \ Own(p)) \cup {[k EXCEPT !.stray = TRUE] : k \in on}
      BY <1>3 DEF Raises
    <2>2. ASSUME NEW k \in on
          PROVE  k \in jobs /\ [k EXCEPT !.stray = TRUE].by = p /\ [k EXCEPT !.stray = TRUE].stray
      <3>1. k \in Own(p)
        OBVIOUS
      <3>2. k \in JobState /\ k.by = p
        BY <3>1, JobsHere DEF SInv, Own
      <3>3. QED
        BY <3>1, <3>2 DEF Own, JobState
    <2>3. Own(p)' = {}
      BY <2>1, <2>2 DEF Own
    <2>4. \A i \in jobs' : i \in jobs \/ (i.by = p /\ \E k \in jobs : i = [k EXCEPT !.stray = TRUE])
      BY <2>1, <2>2
    <2>5. QED
      BY <1>1, <2>1, <2>3, <2>4, EndsSweep
  <1>4. QED
    BY <1>2, <1>3

LEMMA SubFlowSweep ==
  ASSUME SInv, IInv', NEW j \in jobs, SubFlow(j) \/ ActionRaises(j)
  PROVE  SInv'
  <1>1. j \in JobState /\ j.x \in Exec /\ j.rec \in Record /\ j.id \in EventId
    BY JobsHere DEF SInv, JobState
  <1>2. CASE JobCommit(j)
    <2> DEFINE s == Step(j.x, j.rec, j.id)
    <2>1. Sound(s) /\ (s.arms => j.x = Root)
      BY <1>1, StepType, ArmsRoot
    <2>2. Commit(j.by, j.x, j.id, s) /\ jobs' = jobs \ {j} /\ Over(j, TRUE)
      BY <1>2 DEF JobCommit, Becomes
    <2> HIDE DEF s
    <2>3. /\ Grows /\ (timer' = timer \/ Armed')
          /\ processed'[j.x] = processed[j.x] \cup ({j.id} \ {Id("Start", j.x, 0)})
      BY <2>1, <2>2, CommitArms
    <2>4. ASSUME caller[j.by].at = "fired", ~j.stray
          PROVE  caller[j.by].timer \in processed'[Root]
      <3>1. j.x = Root /\ j.id = caller[j.by].timer /\ j.id.kind = "Timeout"
        BY <2>4, Fired
      <3>2. Id("Start", j.x, 0).kind = "Start"
        BY DEF Id
      <3>3. QED
        BY <2>3, <3>1, <3>2
    <2>5. QED
      BY <2>2, <2>3, <2>4, JobEnds
  <1>3. CASE JobRearm(j)
    <2> DEFINE s == Rearmed(j.rec)
    <2>1. Sound(s) /\ j.x = Root
      BY <1>1, <1>3, RearmedType DEF JobRearm, SInv, Rearms
    <2>2. Commit(j.by, j.x, j.id, s) /\ jobs' = jobs \ {j} /\ UNCHANGED caller
      BY <1>3 DEF JobRearm, Becomes
    <2> HIDE DEF s
    <2>3. Grows /\ (timer' = timer \/ Armed')
      BY <2>1, <2>2, CommitArms
    <2>4. j.by \in Caller /\ \A q \in Caller : Own(q)' \subseteq Own(q)
      BY <1>1, <2>2 DEF JobState, Own
    <2>5. SweepOK(j.by)'
      BY <2>2, <2>3, <2>4, Others
    <2>6. QED
      BY <2>2, <2>3, <2>4, <2>5, OneCaller DEF SInv, Rearms
  <1>4. CASE JobLoad(j) \/ IsProcessed(j) \/ StoreConflict(j)
    BY <1>4, JobLoadSweep, IsProcessedSweep, RaisesSweep DEF StoreConflict
  <1>5. CASE ActionRaises(j)
    <2>1. CASE Policy = "fail" /\ Kind[j.by] # "sync"
      <3> DEFINE s == Failed(j.rec)
      <3>1. [j.rec EXCEPT !.status = "FAILED"] \in Record
        BY <1>1 DEF Record, Statuses
      <3>2. Sound(s) /\ ~s.arms
        BY <3>1, StayType DEF Failed, Stay
      <3>3. Commit(j.by, j.x, j.id, s) /\ jobs' = jobs \ {j} /\ Over(j, TRUE) /\ j.x \in Region
        BY <1>5, <2>1 DEF ActionRaises, Becomes
      <3> HIDE DEF s
      <3>4. Grows /\ (timer' = timer \/ Armed')
        BY <3>2, <3>3, CommitArms
      <3>5. ~(caller[j.by].at = "fired" /\ ~j.stray)
        BY <3>3, Fired, HostsAssumption
      <3>6. QED
        BY <3>3, <3>4, <3>5, JobEnds
    <2>2. CASE ~(Policy = "fail" /\ Kind[j.by] # "sync")
      BY <1>5, <2>2, RaisesSweep DEF ActionRaises
    <2>3. QED
      BY <2>1, <2>2
  <1>6. QED
    BY <1>2, <1>3, <1>4, <1>5 DEF SubFlow

LEMMA CrashSweep ==
  ASSUME SInv, IInv', NEW p \in Caller, Crash(p)
  PROVE  SInv'
  <1>1. jobs' = {j \in jobs : j.by # p} /\ Ends(p) /\ UNCHANGED store
    BY DEF Crash
  <1>2. Own(p)' = {}
    BY <1>1 DEF Own
  <1>3. QED
    BY <1>1, <1>2, EndsSweep

LEMMA TurnedSweep ==
  ASSUME SInv, IInv', Suspend \/ Resume
  PROVE  SInv'
  <1>1. UNCHANGED <<processed, timer, caller, jobs>> /\ \E from, to \in Statuses : Turned(from, to)
    BY DEF Suspend, Resume, Statuses
  <1>2. PICK from \in Statuses, to \in Statuses : Turned(from, to)
    BY <1>1
  <1>3. exe[Root] \in Record /\ exe[Root].ver \in Nat /\ Root \in Exec
    BY RecordHere, InExec DEF SInv
  <1> DEFINE turned == [exe[Root] EXCEPT !.status = to, !.ver = @ + 1]
  <1>4. exe'[Root] = exe[Root] \/ exe'[Root] = turned
    BY <1>2, <1>3 DEF Turned
  <1>5. turned.ver = exe[Root].ver + 1
    BY <1>3, TurnedRecord
  <1>6. exe'[Root].ver = exe[Root].ver \/ exe'[Root].ver = exe[Root].ver + 1
    BY <1>4, <1>5
  <1>7. Grows
    BY <1>1, <1>3, <1>6 DEF Grows
  <1>8. \A q \in Caller : Own(q)' = Own(q)
    BY <1>1 DEF Own
  <1>9. Sweeps'
    BY <1>1, <1>7, <1>8, Others DEF Sweeps
  <1>10. Armed' /\ Rearms'
    BY <1>1, <1>7 DEF SInv, Armed, Rearms, Grows
  <1>11. QED
    BY <1>9, <1>10 DEF SInv

LEMMA SweepsInit == Init => SInv
  <1> SUFFICES ASSUME Init PROVE SInv
    OBVIOUS
  <1>1. IInv
    BY InitHolds
  <1>2. Sweeps
    BY DEF Init, Sweeps, SweepOK, Own, Idle
  <1>3. Armed /\ Rearms
    BY DEF Init, Armed, Rearms
  <1>4. QED
    BY <1>1, <1>2, <1>3 DEF SInv

LEMMA SweepsKept == SInv /\ [Next]_vars => SInv'
  <1> SUFFICES ASSUME SInv, [Next]_vars PROVE SInv'
    OBVIOUS
  <1>1. IInv'
    BY NextKeeps DEF SInv
  <1>2. CASE UNCHANGED vars
    <2>1. UNCHANGED <<exe, processed, timer, caller, jobs>>
      BY <1>2 DEF vars
    <2>2. Sweeps' /\ Armed' /\ Rearms'
      BY <2>1 DEF SInv, Sweeps, SweepOK, Knows, Own, Armed, Rearms
    <2>3. QED
      BY <1>1, <2>2 DEF SInv
  <1>3. ASSUME NEW p \in Caller, Create(p) \/ Recover(p) \/ FireDueTimers(p) \/ Crash(p) \/ Works(p)
        PROVE  SInv'
    <2>1. CASE Works(p)
      BY <1>1, <2>1, TargetsSweep, FlushSweep, SweepNextSweep, DeleteTimerSweep, SubFlowSweep DEF Works
    <2>2. QED
      BY <1>1, <1>3, <2>1, BeginningsSweep, FireDueTimersSweep, CrashSweep
  <1>4. ASSUME NEW p \in Caller, NEW e \in Event, Process(p, e)
        PROVE  SInv'
    BY <1>1, <1>4, BeginningsSweep
  <1>5. CASE (\E j \in jobs : ActionRaises(j)) \/ Suspend \/ Resume
    BY <1>1, <1>5, SubFlowSweep, TurnedSweep
  <1>6. QED
    BY <1>2, <1>3, <1>4, <1>5 DEF Next

\* fire_due_timers deletes a timer after its Timeout was handled, or found handled: whatever calls
\* overlap, lose their commit, raise or crash, no timer goes before its execution took its Timeout.
THEOREM TimersAreTaken == Spec => TimeoutNotLost
  <1> DEFINE P == \A p \in Caller : caller[p].at = "delete" /\ timer' # timer =>
                    caller[p].timer \in processed[caller[p].timer.of]
  <1>1. SInv => P
    <2> SUFFICES ASSUME SInv, NEW p \in Caller, caller[p].at = "delete"
                 PROVE  caller[p].timer \in processed[caller[p].timer.of]
      OBVIOUS
    <2>1. CallerOK(caller[p]) /\ SweepOK(p)
      BY CallHere DEF SInv, Sweeps
    <2>2. Knows(p)
      BY <2>1 DEF CallerOK, SweepOK
    <2>3. QED
      BY <2>2 DEF Knows
  <1>2. Spec => []SInv
    BY SweepsInit, SweepsKept, PTL DEF Spec
  <1>3. Spec => [][P]_vars
    BY <1>1, <1>2, PTL
  <1>4. QED
    BY <1>3 DEF TimeoutNotLost
-----------------------------------------------------------------------------
(* What a call leaves behind.  A copy of a record at its version is the    *)
(* record; nothing comes before the root; and whoever is to hand a row     *)
(* over, or to create a child, has a sub-flow that does it, or it is done. *)

There(x) == exe[x].ver > 0

CopyOf(r, x) == r.ver = exe[x].ver => r = exe[x]
Copies == /\ \A x \in Exec : There(x) \/ exe[x] = Absent
          /\ \A j \in jobs : CopyOf(j.rec, j.x)
          /\ \A p \in Caller : CopyOf(caller[p].rec, Root)

Empty(c) == c.kids = {} /\ c.batch = {} /\ c.rows = <<>>
Rooted == ~There(Root) => /\ outbox = <<>> /\ spawns = {} /\ \A x \in Region : ~There(x)
                          /\ \A p \in Caller : Empty(caller[p])
                          /\ \A j \in jobs : j.x = Root

\* The only rows are the root's Cancels and the regions' reports.
Report(r) == r.id.kind = "Finished"
Good == {r \in Rows : r.id.kind \in {"Finished", "Cancel"} /\ (Report(r) => r.to = Root)}
Told(r) == r.id.of \in exe[Root].done

\* The event of a call is a domain event, and so is what restarts the root's ttl; a start is
\* not looked up.
Asking(p) == /\ caller[p].at = "targets" => caller[p].id.kind \in Event
             /\ \A j \in jobs : j.by = p => /\ j.at = "rearm" => j.id.kind \in Event
                                            /\ j.at = "check" => j.id.kind # "Start"

\* A caller that found no children to create knows that it has none of its own.
Drained(p) == /\ caller[p].at = "outbox" /\ ~caller[p].found => \A k \in spawns : k.by # p
              /\ Kind[p] = "sync" => /\ caller[p].at \in {"create", "ack"} => caller[p].found
                                     /\ caller[p].at = "outbox" => caller[p].kids = {}

\* A root is started by a call of its own, which goes on to its flush when the root is there.
Birth(j) == j.x = Root /\ j.id.kind = "Start"
Bearing(p) == \A j \in jobs : j.by = p /\ Birth(j) =>
  ~j.stray /\ j.at = "commit" /\ j.rec = Absent /\ Own(p) = {j} /\ caller[p].op = "create" /\ caller[p].at = "spawns"
Born(p) == caller[p].op = "create" =>
  \/ \E j \in Own(p) : Birth(j)
  \/ There(Root) /\ \A x \in Region : There(x) \/ [child |-> x, by |-> p] \in spawns

Creating(p) == caller[p].at = "ack" => \A k \in caller[p].batch :
  There(k.child) \/ \E j \in Own(p) : j.x = k.child /\ j.id.kind = "Start"

Telling(p) ==
  /\ caller[p].rows \in Seq(Good)
  /\ caller[p].at = "row" /\ Report(Head(caller[p].rows)) =>
       Told(Head(caller[p].rows)) \/ \E j \in Own(p) : j.x = Root /\ j.id = Head(caller[p].rows).id

Settling(p) == Asking(p) /\ Drained(p) /\ Bearing(p) /\ Born(p) /\ Creating(p) /\ Telling(p)

Reported == \A x \in Region : exe[x].status = "DONE" =>
  x \in exe[Root].done \/ \E i \in DOMAIN outbox : Report(outbox[i]) /\ outbox[i].id.of = x
Recorded == \A id \in processed[Root] : id.kind = "Finished" => id.of \in exe[Root].done

DInv == /\ SInv /\ Copies /\ Rooted /\ \A p \in Caller : Settling(p)
        /\ outbox \in Seq(Good) /\ Reported /\ Recorded

\* What no step takes back.
Grown == /\ \A x \in Exec : There(x) => There(x)'
         /\ exe[Root].done \subseteq exe'[Root].done
         /\ \A k \in spawns : k \in spawns' \/ There(k.child)'

LEMMA DHere ==
  ASSUME DInv
  PROVE  /\ IInv /\ Sweeps /\ Copies /\ Rooted /\ Reported /\ Recorded /\ outbox \in Seq(Good)
         /\ \A p \in Caller : Settling(p) /\ SweepOK(p)
  BY DEF DInv, SInv, Sweeps

LEMMA ThereOrAbsent ==
  ASSUME DInv, NEW x \in Exec
  PROVE  (exe[x] = Absent) <=> ~There(x)
  <1>1. exe[x].ver \in Nat
    BY RecordHere, DHere
  <1>2. Absent.ver = 0
    BY DEF Absent
  <1>3. QED
    BY <1>1, <1>2, DHere DEF Copies, There

\* A copy of a record that is not there yet.
LEMMA AbsentCopies ==
  ASSUME DInv, NEW x \in Exec
  PROVE  CopyOf(Absent, x)
  <1>1. exe[x].ver \in Nat /\ Absent.ver = 0
    BY RecordHere, DHere DEF Absent
  <1>2. QED
    BY <1>1, ThereOrAbsent DEF CopyOf, There

LEMMA SameStays ==
  ASSUME UNCHANGED <<exe, spawns>>
  PROVE  Grown
  BY DEF Grown, There

\* A caller that does nothing, and whose sub-flows are the same, but for those it has given up.
LEMMA Kept ==
  ASSUME DInv, Grown, NEW q \in Caller, caller'[q] = caller[q], Own(q)' = Own(q),
         \A j \in jobs' : j.by = q => j \in jobs,
         \A k \in spawns' : k \in spawns \/ k.by # q
  PROVE  Settling(q)'
  <1>1. Settling(q) /\ caller[q] \in CallState
    BY DHere, CallHere
  <1>2. Asking(q)'
    BY <1>1 DEF Settling, Asking
  <1>3. Drained(q)'
    BY <1>1 DEF Settling, Drained
  <1>4. Bearing(q)'
    BY <1>1 DEF Settling, Bearing, Birth
  <1>5. Born(q)'
    <2>1. SUFFICES ASSUME caller[q].op = "create", ~\E j \in Own(q) : Birth(j)
                   PROVE  There(Root)' /\ \A x \in Region : There(x)' \/ [child |-> x, by |-> q] \in spawns'
      BY DEF Born, Birth
    <2>2. There(Root) /\ \A x \in Region : There(x) \/ [child |-> x, by |-> q] \in spawns
      BY <1>1, <2>1 DEF Settling, Born
    <2>3. QED
      BY <2>2, InExec DEF Grown
  <1>6. Creating(q)'
    <2>1. \A k \in caller[q].batch : k.child \in Exec
      BY <1>1, InExec DEF CallState, Spawn
    <2>2. QED
      BY <1>1, <2>1 DEF Settling, Creating, Grown
  <1>7. Telling(q)'
    BY <1>1 DEF Settling, Telling, Told, Report, Grown
  <1>8. QED
    BY <1>2, <1>3, <1>4, <1>5, <1>6, <1>7 DEF Settling

\* A call that is over.
LEMMA Done ==
  ASSUME NEW p \in Caller, caller'[p] = Idle,
         \A j \in jobs' : j.by = p =>
           ~Birth(j) /\ (j.at = "rearm" => j.id.kind \in Event) /\ (j.at = "check" => j.id.kind # "Start")
  PROVE  Settling(p)'
  <1>1. Asking(p)' /\ Bearing(p)'
    BY DEF Asking, Bearing, Birth, Idle
  <1>2. Drained(p)' /\ Born(p)' /\ Creating(p)'
    BY DEF Drained, Born, Creating, Idle
  <1>3. <<>> \in Seq(Good)
    OBVIOUS
  <1>4. Telling(p)'
    BY <1>3 DEF Telling, Idle
  <1>5. QED
    BY <1>1, <1>2, <1>4 DEF Settling

\* What a step of one caller has to show.
LEMMA OneSettles ==
  ASSUME DInv, SInv', Grown, NEW p \in Caller,
         \A q \in Caller : q # p => caller'[q] = caller[q],
         \A j \in jobs' : j.by # p => j \in jobs, \A j \in jobs : j.by # p => j \in jobs',
         \A k \in spawns' : k \in spawns \/ k.by = p,
         Settling(p)', Copies', Rooted', outbox' \in Seq(Good), Reported', Recorded'
  PROVE  DInv'
  <1>1. ASSUME NEW q \in Caller, q # p
        PROVE  Settling(q)'
    <2>1. Own(q)' = Own(q) /\ (\A j \in jobs' : j.by = q => j \in jobs) /\ caller'[q] = caller[q]
      BY <1>1 DEF Own
    <2>2. \A k \in spawns' : k \in spawns \/ k.by # q
      BY <1>1
    <2>3. QED
      BY <2>1, <2>2, Kept
  <1>2. \A q \in Caller : Settling(q)'
    BY <1>1
  <1>3. QED
    BY <1>2 DEF DInv

\* A step of one caller that leaves the records, what they processed, and the two tables alone.
LEMMA Calm ==
  ASSUME DInv, SInv', UNCHANGED <<exe, processed, outbox, spawns>>, NEW p \in Caller, NEW c,
         caller' = [caller EXCEPT ![p] = c], CopyOf(c.rec, Root), There(Root) \/ Empty(c),
         \A j \in jobs' : j \in jobs \/ (j.by = p /\ CopyOf(j.rec, j.x) /\ (There(Root) \/ j.x = Root)),
         \A j \in jobs : j.by # p => j \in jobs',
         Settling(p)'
  PROVE  DInv'
  <1>1. caller'[p] = c /\ \A q \in Caller : q # p => caller'[q] = caller[q]
    BY CallerAt, DHere
  <1>2. Copies'
    <2>1. \A q \in Caller : CopyOf(caller'[q].rec, Root)
      BY <1>1, DHere DEF Copies
    <2>2. \A j \in jobs' : CopyOf(j.rec, j.x)
      BY DHere DEF Copies
    <2>3. QED
      BY <2>1, <2>2, DHere DEF Copies, CopyOf, There
  <1>3. Rooted'
    BY <1>1, DHere DEF Rooted, There, Empty
  <1>4. Grown /\ Reported' /\ Recorded' /\ outbox' \in Seq(Good)
    BY SameStays, DHere DEF Reported, Report, Recorded
  <1>5. QED
    BY <1>1, <1>2, <1>3, <1>4, OneSettles

\* A root is started at the first place of the flush, and by nobody else.
LEMMA NoBirth ==
  ASSUME DInv, NEW p \in Caller, caller[p].at # "spawns" \/ caller[p].op # "create" \/ Own(p) = {}
  PROVE  \A j \in jobs : j.by = p => ~Birth(j)
  BY DHere DEF Settling, Bearing

\* A call that bears nothing now has borne its family before.
LEMMA StillBorn ==
  ASSUME DInv, Grown, NEW p \in Caller, caller'[p].op = caller[p].op, \A j \in jobs : j.by = p => ~Birth(j)
  PROVE  Born(p)'
  <1>1. SUFFICES ASSUME caller[p].op = "create"
                 PROVE  There(Root)' /\ \A x \in Region : There(x)' \/ [child |-> x, by |-> p] \in spawns'
    BY DEF Born
  <1>2. There(Root) /\ \A x \in Region : There(x) \/ [child |-> x, by |-> p] \in spawns
    BY <1>1, DHere DEF Settling, Born, Own
  <1>3. QED
    BY <1>2, InExec DEF Grown
-----------------------------------------------------------------------------
(* The calls *)

\* A caller at the start of a flush or of a sweep, which is bearing nothing.
LEMMA Flushing ==
  ASSUME DInv, SInv', UNCHANGED <<exe, processed, outbox, spawns>>, NEW p \in Caller, NEW c,
         caller' = [caller EXCEPT ![p] = c], CopyOf(c.rec, Root), Empty(c), c.at \in {"spawns", "sweep"},
         c.op = "create" => caller[p].op = "create",
         \A j \in jobs : j.by = p => ~Birth(j),
         \A j \in jobs' : j \in jobs \/ (/\ j.by = p /\ ~Birth(j) /\ CopyOf(j.rec, j.x)
                                         /\ There(Root) \/ j.x = Root
                                         /\ j.at = "rearm" => j.id.kind \in Event
                                         /\ j.at = "check" => j.id.kind # "Start"),
         \A j \in jobs : j.by # p => j \in jobs'
  PROVE  DInv'
  <1>1. caller'[p] = c
    BY CallerAt, DHere
  <1>2. Asking(p)' /\ Bearing(p)'
    BY <1>1, DHere DEF Settling, Asking, Bearing, Birth
  <1>3. Drained(p)' /\ Creating(p)'
    BY <1>1 DEF Drained, Creating
  <1>4. Born(p)'
    <2>1. CASE c.op = "create"
      BY <1>1, <2>1, StillBorn, SameStays
    <2>2. CASE c.op # "create"
      BY <1>1, <2>2 DEF Born
    <2>3. QED
      BY <2>1, <2>2
  <1>5. Telling(p)'
    <2>1. <<>> \in Seq(Good)
      OBVIOUS
    <2>2. QED
      BY <1>1, <2>1 DEF Telling, Empty
  <1>6. Settling(p)'
    BY <1>2, <1>3, <1>4, <1>5 DEF Settling
  <1>7. QED
    BY <1>6, Calm

\* A caller at rest has no sub-flows.
LEMMA Resting ==
  ASSUME DInv, NEW p \in Caller, caller[p].at \in Quiet
  PROVE  Own(p) = {} /\ \A j \in jobs : j.by = p => ~Birth(j)
  BY NoBirth, DHere DEF SweepOK

LEMMA CreateSettles ==
  ASSUME DInv, SInv', NEW p \in Caller, Create(p)
  PROVE  DInv'
  <1> DEFINE c == [Idle EXCEPT !.op = "create", !.at = "spawns"]
             j == Job(p, Root, Id("Start", Root, 0), "commit", Absent)
  <1>1. /\ caller' = [caller EXCEPT ![p] = c] /\ caller[p].at = "idle" /\ jobs' = jobs \cup {j}
        /\ UNCHANGED <<exe, processed, outbox, spawns>>
    BY DEF Create, Begins, store
  <1>2. caller'[p] = c
    BY <1>1, CallerAt, DHere
  <1>3. c.op = "create" /\ c.at = "spawns" /\ c.rec = Absent /\ Empty(c) /\ c.rows = <<>>
    BY DEF Idle, Empty
  <1>4. j.by = p /\ j.x = Root /\ j.id.kind = "Start" /\ j.at = "commit" /\ j.rec = Absent /\ ~j.stray
    BY DEF Job, Id
  <1>5. Own(p)' = {j} /\ \A k \in jobs : k.by = p => ~Birth(k)
    BY <1>1, <1>4, Resting DEF Own, Quiet
  <1>6. Asking(p)' /\ Bearing(p)'
    BY <1>1, <1>2, <1>3, <1>4, <1>5, DHere DEF Settling, Asking, Bearing, Birth
  <1>7. Drained(p)' /\ Creating(p)' /\ Born(p)'
    BY <1>2, <1>3, <1>4, <1>5 DEF Drained, Creating, Born, Birth
  <1>8. Telling(p)'
    <2>1. <<>> \in Seq(Good)
      OBVIOUS
    <2>2. QED
      BY <1>2, <1>3, <2>1 DEF Telling
  <1>9. Settling(p)'
    BY <1>6, <1>7, <1>8 DEF Settling
  <1>10. CopyOf(c.rec, Root) /\ CopyOf(j.rec, j.x)
    BY <1>3, <1>4, AbsentCopies, InExec
  <1> HIDE DEF c, j
  <1>11. QED
    BY <1>1, <1>3, <1>4, <1>9, <1>10, Calm

LEMMA ProcessSettles ==
  ASSUME DInv, SInv', NEW p \in Caller, NEW e \in Event, Process(p, e)
  PROVE  DInv'
  <1> DEFINE c == [Idle EXCEPT !.op = "process", !.at = "targets", !.id = Domain(e), !.rec = exe[Root],
                               !.left = Region \ exe[Root].done]
  <1>1. /\ caller' = [caller EXCEPT ![p] = c] /\ caller[p].at = "idle" /\ jobs' = jobs
        /\ UNCHANGED <<exe, processed, outbox, spawns>>
    BY DEF Process, Begins, store
  <1>2. caller'[p] = c
    BY <1>1, CallerAt, DHere
  <1>3. c.op = "process" /\ c.at = "targets" /\ c.rec = exe[Root] /\ Empty(c) /\ c.rows = <<>> /\ c.id.kind = e
    BY DEF Idle, Empty, Domain, Id
  <1>4. \A k \in jobs : k.by = p => ~Birth(k)
    BY <1>1, Resting DEF Quiet
  <1>5. Asking(p)' /\ Bearing(p)'
    BY <1>1, <1>2, <1>3, <1>4, DHere DEF Settling, Asking, Bearing, Birth
  <1>6. Drained(p)' /\ Creating(p)' /\ Born(p)'
    BY <1>2, <1>3 DEF Drained, Creating, Born
  <1>7. Telling(p)'
    <2>1. <<>> \in Seq(Good)
      OBVIOUS
    <2>2. QED
      BY <1>2, <1>3, <2>1 DEF Telling
  <1>8. Settling(p)'
    BY <1>5, <1>6, <1>7 DEF Settling
  <1>9. CopyOf(c.rec, Root)
    BY <1>3 DEF CopyOf
  <1> HIDE DEF c
  <1>10. QED
    BY <1>1, <1>3, <1>8, <1>9, Calm

LEMMA RecoverSettles ==
  ASSUME DInv, SInv', NEW p \in Caller, Recover(p) \/ FireDueTimers(p)
  PROVE  DInv'
  <1> DEFINE flush == [Idle EXCEPT !.op = "recover", !.at = "spawns"]
             sweep == [Idle EXCEPT !.op = "sweep", !.at = "sweep", !.left = {Id("Timeout", Root, timer)}]
  <1>1. PICK c \in {flush, sweep} : caller' = [caller EXCEPT ![p] = c]
    BY DEF Recover, FireDueTimers, Begins
  <1>2. /\ caller[p].at = "idle" /\ jobs' = jobs /\ UNCHANGED <<exe, processed, outbox, spawns>>
    BY DEF Recover, FireDueTimers, Begins, store
  <1>3. c.op # "create" /\ c.at \in {"spawns", "sweep"} /\ c.rec = Absent /\ Empty(c)
    BY DEF Idle, Empty
  <1>4. CopyOf(c.rec, Root)
    BY <1>3, AbsentCopies, InExec
  <1>5. \A k \in jobs : k.by = p => ~Birth(k)
    BY <1>2, Resting DEF Quiet
  <1> HIDE DEF flush, sweep
  <1>6. QED
    BY <1>1, <1>2, <1>3, <1>4, <1>5, Flushing

LEMMA LoadTargetSettles ==
  ASSUME DInv, SInv', NEW p \in Caller, NEW x \in Region, LoadTarget(p, x)
  PROVE  DInv'
  <1> DEFINE old == caller[p]
             c == [old EXCEPT !.left = @ \ {x}, !.found = @ \/ exe[x] # Absent]
             j == Job(p, x, old.id, "check", exe[x])
  <1>1. /\ caller' = [caller EXCEPT ![p] = c] /\ old.at = "targets"
        /\ UNCHANGED <<exe, processed, outbox, spawns>>
        /\ jobs' = IF exe[x] = Absent THEN jobs ELSE jobs \cup {j}
    BY DEF LoadTarget, store
  <1>2. caller'[p] = c
    BY <1>1, CallerAt, DHere
  <1>3. /\ c.op = old.op /\ c.at = "targets" /\ c.id = old.id /\ c.rec = old.rec /\ c.rows = old.rows
        /\ c.kids = old.kids /\ c.batch = old.batch
    BY <1>1, CallHere, DHere DEF CallState
  <1>4. /\ j.by = p /\ j.x = x /\ j.id = old.id /\ j.at = "check" /\ j.rec = exe[x] /\ ~j.stray
        /\ j.id.kind # "Start" /\ ~Birth(j)
    BY <1>1, DHere, HostsAssumption DEF Job, Settling, Asking, Birth
  <1>5. \A k \in jobs : k.by = p => ~Birth(k)
    BY <1>1, NoBirth
  <1>6. Asking(p)' /\ Bearing(p)'
    BY <1>1, <1>2, <1>3, <1>4, <1>5, DHere DEF Settling, Asking, Bearing, Birth
  <1>7. Drained(p)' /\ Creating(p)'
    BY <1>2, <1>3 DEF Drained, Creating
  <1>8. Born(p)'
    BY <1>1, <1>2, <1>3, <1>5, StillBorn, SameStays
  <1>9. Telling(p)'
    BY <1>2, <1>3, DHere DEF Settling, Telling
  <1>10. Settling(p)'
    BY <1>6, <1>7, <1>8, <1>9 DEF Settling
  <1>11. CopyOf(c.rec, Root) /\ CopyOf(j.rec, j.x) /\ (There(Root) \/ Empty(c))
    BY <1>3, <1>4, DHere DEF Copies, CopyOf, Rooted, Empty
  <1>12. exe[x] # Absent => There(Root)
    BY ThereOrAbsent, InExec, DHere DEF Rooted
  <1> HIDE DEF c, j
  <1>13. QED
    BY <1>1, <1>4, <1>10, <1>11, <1>12, Calm

LEMMA TargetsSettle ==
  ASSUME DInv, SInv', NEW p \in Caller, NoRegionAlive(p) \/ Rearm(p)
  PROVE  DInv'
  <1> DEFINE old == caller[p]
             c == [Idle EXCEPT !.op = old.op, !.at = "spawns"]
             i == Job(p, Root, old.id, "check", old.rec)
             j == Job(p, Root, old.id, "rearm", old.rec)
  <1>1. /\ caller' = [caller EXCEPT ![p] = c] /\ old.at = "targets"
        /\ UNCHANGED <<exe, processed, outbox, spawns>>
        /\ jobs \subseteq jobs' /\ jobs' \subseteq jobs \cup {i, j}
    BY DEF NoRegionAlive, Rearm, Flushes, store
  <1>2. c.op = old.op /\ c.at = "spawns" /\ c.rec = Absent /\ Empty(c)
    BY DEF Idle, Empty
  <1>3. /\ i.by = p /\ i.x = Root /\ i.id = old.id /\ i.at = "check" /\ i.rec = old.rec
        /\ j.by = p /\ j.x = Root /\ j.id = old.id /\ j.at = "rearm" /\ j.rec = old.rec
    BY DEF Job
  <1>4. old.id.kind \in Event /\ old.id.kind # "Start" /\ ~Birth(i) /\ ~Birth(j)
    BY <1>1, <1>3, DHere, HostsAssumption DEF Settling, Asking, Birth
  <1>5. \A k \in jobs : k.by = p => ~Birth(k)
    BY <1>1, NoBirth
  <1>6. CopyOf(c.rec, Root) /\ CopyOf(i.rec, i.x) /\ CopyOf(j.rec, j.x)
    BY <1>2, <1>3, AbsentCopies, InExec, DHere DEF Copies
  <1> HIDE DEF c, i, j
  <1>7. \A k \in jobs' : k \in jobs \/ k = i \/ k = j
    BY <1>1
  <1>8. ASSUME NEW k \in {i, j}
        PROVE  /\ k.by = p /\ ~Birth(k) /\ CopyOf(k.rec, k.x) /\ (There(Root) \/ k.x = Root)
               /\ k.at = "rearm" => k.id.kind \in Event
               /\ k.at = "check" => k.id.kind # "Start"
    BY <1>3, <1>4, <1>6
  <1>9. \A k \in jobs' : \/ k \in jobs
                         \/ /\ k.by = p /\ ~Birth(k) /\ CopyOf(k.rec, k.x)
                            /\ There(Root) \/ k.x = Root
                            /\ k.at = "rearm" => k.id.kind \in Event
                            /\ k.at = "check" => k.id.kind # "Start"
    BY <1>7, <1>8
  <1>10. /\ \A k \in jobs : k.by # p => k \in jobs'
         /\ CopyOf(c.rec, Root) /\ Empty(c) /\ c.at \in {"spawns", "sweep"}
         /\ c.op = "create" => caller[p].op = "create"
         /\ caller' = [caller EXCEPT ![p] = c] /\ UNCHANGED <<exe, processed, outbox, spawns>>
    BY <1>1, <1>2, <1>6
  <1>11. QED
    BY <1>5, <1>9, <1>10, Flushing
-----------------------------------------------------------------------------
(* The flush *)

LEMMA ReadSpawnsSettles ==
  ASSUME DInv, SInv', NEW p \in Caller, ReadSpawns(p)
  PROVE  DInv'
  <1> DEFINE old == caller[p]
             at == IF Kind[p] = "sync" /\ spawns # {} THEN "create" ELSE "outbox"
             c == [old EXCEPT !.kids = spawns, !.found = spawns # {}, !.at = at]
  <1>1. /\ caller' = [caller EXCEPT ![p] = c] /\ Own(p) = {} /\ jobs' = jobs
        /\ UNCHANGED <<exe, processed, outbox, spawns>>
    BY DEF ReadSpawns, store
  <1>2. caller'[p] = c
    BY <1>1, CallerAt, DHere
  <1>3. /\ c.op = old.op /\ c.at = at /\ c.rec = old.rec /\ c.rows = old.rows
        /\ c.kids = spawns /\ c.batch = old.batch /\ c.found = (spawns # {})
    BY <1>1, CallHere, DHere DEF CallState
  <1>4. \A k \in jobs : k.by = p => ~Birth(k)
    BY <1>1, NoBirth
  <1>5. Asking(p)' /\ Bearing(p)'
    BY <1>1, <1>2, <1>3, <1>4, DHere DEF Settling, Asking, Bearing, Birth
  <1>6. Drained(p)' /\ Creating(p)'
    <2>1. /\ at \in {"create", "outbox"} /\ (at = "create" => spawns # {})
          /\ at = "outbox" /\ Kind[p] = "sync" => spawns = {}
      OBVIOUS
    <2> HIDE DEF c, at
    <2>2. c.at \in {"create", "outbox"} /\ c.at = at /\ c.kids = spawns /\ c.found = (spawns # {})
      BY <1>3, <2>1
    <2>3. caller'[p].at = at /\ caller'[p].kids = spawns /\ caller'[p].found = (spawns # {}) /\ spawns' = spawns
      BY <1>1, <1>2, <2>2
    <2>4. Drained(p)'
      BY <2>1, <2>3 DEF Drained
    <2>5. Creating(p)'
      BY <2>1, <2>3 DEF Creating
    <2>6. QED
      BY <2>4, <2>5
  <1>7. Born(p)'
    BY <1>1, <1>2, <1>3, <1>4, StillBorn, SameStays
  <1>8. Telling(p)'
    BY <1>2, <1>3, DHere DEF Settling, Telling
  <1>9. Settling(p)'
    BY <1>5, <1>6, <1>7, <1>8 DEF Settling
  <1>10. CopyOf(c.rec, Root) /\ (There(Root) \/ Empty(c))
    BY <1>3, DHere DEF Copies, Rooted, Empty
  <1> HIDE DEF c
  <1>11. QED
    BY <1>1, <1>9, <1>10, Calm

LEMMA ReadOutboxSettles ==
  ASSUME DInv, SInv', NEW p \in Caller, ReadOutbox(p)
  PROVE  DInv'
  <1> DEFINE old == caller[p]
             at == IF old.kids # {} THEN "create" ELSE IF outbox = <<>> THEN "spawns" ELSE "rows"
             sweeps == [old EXCEPT !.at = "delete"]
             next == [old EXCEPT !.rows = outbox, !.found = FALSE, !.at = at]
  <1>1. /\ jobs' = jobs /\ old.at = "outbox" /\ UNCHANGED <<exe, processed, outbox, spawns>>
    BY DEF ReadOutbox, store
  <1>2. \A k \in jobs : k.by = p => ~Birth(k)
    BY <1>1, NoBirth
  <1>3. CASE outbox = <<>> /\ ~old.found /\ old.op # "sweep"
    <2>1. caller' = [caller EXCEPT ![p] = Idle]
      BY <1>3 DEF ReadOutbox, Ends
    <2>2. caller'[p] = Idle
      BY <2>1, CallerAt, DHere
    <2>3. Settling(p)'
      BY <1>1, <1>2, <2>2, Done, DHere DEF Settling, Asking
    <2>4. CopyOf(Idle.rec, Root) /\ Empty(Idle)
      BY AbsentCopies, InExec DEF Idle, Empty
    <2>5. QED
      BY <1>1, <2>1, <2>3, <2>4, Calm
  <1>4. CASE ~(outbox = <<>> /\ ~old.found /\ old.op # "sweep")
    <2>1. PICK c \in {sweeps, next} :
            /\ caller' = [caller EXCEPT ![p] = c]
            /\ c = sweeps => old.op = "sweep"
      <3>1. CASE outbox = <<>> /\ ~old.found
        <4>1. old.op = "sweep"
          BY <1>4, <3>1
        <4>2. caller' = [caller EXCEPT ![p] = sweeps]
          BY <3>1, <4>1 DEF ReadOutbox, Goes
        <4>3. QED
          BY <4>1, <4>2
      <3>2. CASE ~(outbox = <<>> /\ ~old.found)
        <4>1. caller' = [caller EXCEPT ![p] = next]
          BY <3>2 DEF ReadOutbox
        <4>2. sweeps # next
          <5>1. sweeps.at = "delete" /\ next.at = at
            BY CallHere, DHere DEF CallState
          <5>2. at # "delete"
            OBVIOUS
          <5> HIDE DEF sweeps, next, at
          <5>3. QED
            BY <5>1, <5>2
        <4>3. QED
          BY <4>1, <4>2
      <3>3. QED
        BY <3>1, <3>2
    <2>2. caller'[p] = c
      BY <2>1, CallerAt, DHere
    <2>3. /\ c.op = old.op /\ c.rec = old.rec /\ c.kids = old.kids /\ c.batch = old.batch
          /\ c.at \in {"delete", "create", "spawns", "rows"} /\ (c.at = "create" => old.kids # {})
          /\ c.rows \in {old.rows, outbox}
      BY <1>1, CallHere, DHere DEF CallState
    <2> HIDE DEF sweeps, next
    <2>4. Asking(p)' /\ Bearing(p)'
      BY <1>1, <1>2, <2>2, <2>3, DHere DEF Settling, Asking, Bearing, Birth
    <2>5. Drained(p)' /\ Creating(p)'
      BY <1>1, <2>2, <2>3, DHere DEF Settling, Drained, Creating
    <2>6. Born(p)'
      BY <1>1, <1>2, <2>2, <2>3, StillBorn, SameStays
    <2>7. Telling(p)'
      BY <2>2, <2>3, DHere DEF Settling, Telling
    <2>8. Settling(p)'
      BY <2>4, <2>5, <2>6, <2>7 DEF Settling
    <2>9. CopyOf(c.rec, Root) /\ (There(Root) \/ Empty(c))
      BY <2>3, DHere DEF Copies, Rooted, Empty
    <2>10. QED
      BY <1>1, <2>1, <2>8, <2>9, Calm
  <1>5. QED
    BY <1>3, <1>4

LEMMA CreateChildrenSettles ==
  ASSUME DInv, SInv', NEW p \in Caller, CreateChildren(p)
  PROVE  DInv'
  <1> DEFINE old == caller[p]
             New(k) == Job(p, k.child, Id("Start", k.child, 0), "load", Absent)
  <1>1. /\ old.at = "create" /\ UNCHANGED <<exe, processed, outbox, spawns>>
        /\ old \in CallState
    BY CallHere, DHere DEF CreateChildren, store
  <1>2. PICK batch : /\ batch \in (IF Kind[p] = "sync" THEN {{k} : k \in old.kids} ELSE {old.kids})
                     /\ jobs' = jobs \cup {New(k) : k \in batch}
                     /\ caller' = [caller EXCEPT ![p].batch = batch, ![p].at = "ack"]
    BY DEF CreateChildren
  <1> DEFINE c == [old EXCEPT !.batch = batch, !.at = "ack"]
  <1>3. caller' = [caller EXCEPT ![p] = c]
    BY <1>2, DHere DEF IInv, TypeOK
  <1>4. caller'[p] = c
    BY <1>3, CallerAt, DHere
  <1>5. /\ c.op = old.op /\ c.at = "ack" /\ c.rec = old.rec /\ c.rows = old.rows
        /\ c.kids = old.kids /\ c.batch = batch /\ c.found = old.found
    BY <1>1 DEF CallState
  <1>6. batch \subseteq old.kids /\ batch \subseteq Spawn
    BY <1>1, <1>2 DEF CallState
  <1>7. ASSUME NEW k \in batch
        PROVE  /\ New(k).by = p /\ New(k).x = k.child /\ New(k).id.kind = "Start" /\ New(k).at = "load"
               /\ ~New(k).stray /\ New(k).rec = Absent /\ k.child \in Region /\ ~Birth(New(k))
    <2>1. k.child \in Region
      BY <1>6 DEF Spawn
    <2>2. QED
      BY <2>1, HostsAssumption DEF Job, Id, Birth
  <1>8. \A k \in jobs : k.by = p => ~Birth(k)
    BY <1>1, NoBirth
  <1> HIDE DEF c, New
  <1>9. \A j \in jobs' : j \in jobs \/ \E k \in batch : j = New(k)
    BY <1>2
  <1>10. \A k \in batch : New(k) \in Own(p)'
    BY <1>2, <1>7 DEF Own
  <1>11. Asking(p)' /\ Bearing(p)'
    <2>1. Asking(p)'
      BY <1>4, <1>5, <1>7, <1>9, DHere DEF Settling, Asking
    <2>2. \A j \in jobs' : j.by = p => ~Birth(j)
      BY <1>7, <1>8, <1>9
    <2>3. QED
      BY <2>1, <2>2 DEF Bearing, Birth
  <1>12. Drained(p)'
    BY <1>1, <1>4, <1>5, DHere DEF Settling, Drained
  <1>13. Creating(p)'
    BY <1>4, <1>5, <1>7, <1>10 DEF Creating
  <1>14. Born(p)'
    BY <1>1, <1>4, <1>5, <1>8, StillBorn, SameStays
  <1>15. Telling(p)'
    BY <1>4, <1>5, DHere DEF Settling, Telling
  <1>16. Settling(p)'
    BY <1>11, <1>12, <1>13, <1>14, <1>15 DEF Settling
  <1>17. There(Root) \/ (Empty(c) /\ batch = {})
    BY <1>5, <1>6, DHere DEF Rooted, Empty
  <1>18. CopyOf(c.rec, Root)
    BY <1>5, DHere DEF Copies
  <1>19. \A k \in batch : CopyOf(New(k).rec, New(k).x) /\ There(Root)
    BY <1>7, <1>17, AbsentCopies, InExec
  <1>20. \A j \in jobs' : j \in jobs \/ (j.by = p /\ CopyOf(j.rec, j.x) /\ (There(Root) \/ j.x = Root))
    BY <1>7, <1>9, <1>19
  <1>21. \A j \in jobs : j.by # p => j \in jobs'
    BY <1>2
  <1>22. QED
    BY <1>1, <1>3, <1>16, <1>17, <1>18, <1>20, <1>21, Calm

LEMMA AckSpawnSettles ==
  ASSUME DInv, SInv', NEW p \in Caller, AckSpawn(p)
  PROVE  DInv'
  <1> DEFINE old == caller[p]
  <1>1. /\ old.at = "ack" /\ Own(p) = {} /\ jobs' = jobs /\ UNCHANGED <<exe, processed, outbox>>
        /\ old \in CallState
    BY CallHere, DHere DEF AckSpawn
  <1>2. PICK k \in old.batch :
          /\ spawns' = spawns \ {k}
          /\ caller' = [caller EXCEPT ![p].kids = @ \ {k}, ![p].batch = @ \ {k},
               ![p].at = IF old.batch # {k} THEN "ack"
                         ELSE IF old.kids # {k} THEN "create"
                         ELSE IF Kind[p] = "sync" THEN "outbox"
                         ELSE IF old.rows = <<>> THEN "spawns" ELSE "rows"]
    BY DEF AckSpawn
  <1> DEFINE at == IF old.batch # {k} THEN "ack"
                   ELSE IF old.kids # {k} THEN "create"
                   ELSE IF Kind[p] = "sync" THEN "outbox"
                   ELSE IF old.rows = <<>> THEN "spawns" ELSE "rows"
             c == [old EXCEPT !.kids = @ \ {k}, !.batch = @ \ {k}, !.at = at]
  <1>3. caller' = [caller EXCEPT ![p] = c]
    BY <1>2
  <1>4. caller'[p] = c /\ \A q \in Caller : q # p => caller'[q] = caller[q]
    <2> HIDE DEF c
    <2>1. QED
      BY <1>3, CallerAt, DHere
  <1>5. /\ c.op = old.op /\ c.at = at /\ c.rec = old.rec /\ c.rows = old.rows
        /\ c.kids = old.kids \ {k} /\ c.batch = old.batch \ {k} /\ c.found = old.found
    BY <1>1 DEF CallState
  <1>6. /\ at \in {"ack", "create", "outbox", "spawns", "rows"}
        /\ at = "outbox" => Kind[p] = "sync" /\ old.kids \ {k} = {}
        /\ Kind[p] = "sync" => at \in {"ack", "create", "outbox"}
    OBVIOUS
  <1> HIDE DEF c, at
  <1>7. There(k.child) /\ k.child \in Exec
    BY <1>1, InExec, DHere DEF Settling, Creating, CallState, Spawn
  <1>8. Grown
    BY <1>1, <1>2, <1>7 DEF Grown, There
  <1>9. \A i \in jobs : i.by = p => ~Birth(i)
    BY <1>1, NoBirth
  <1>10. Asking(p)' /\ Bearing(p)'
    BY <1>1, <1>4, <1>5, <1>6, <1>9, DHere DEF Settling, Asking, Bearing, Birth
  <1>11. Drained(p)'
    BY <1>1, <1>4, <1>5, <1>6, DHere DEF Settling, Drained
  <1>12. Creating(p)'
    BY <1>1, <1>4, <1>5, DHere DEF Settling, Creating, There
  <1>13. Born(p)'
    BY <1>4, <1>5, <1>8, <1>9, StillBorn
  <1>14. Telling(p)'
    BY <1>4, <1>5, <1>6, DHere DEF Settling, Telling
  <1>15. Settling(p)'
    BY <1>10, <1>11, <1>12, <1>13, <1>14 DEF Settling
  <1>16. Copies'
    <2>1. \A q \in Caller : CopyOf(caller'[q].rec, Root)
      BY <1>4, <1>5, DHere DEF Copies
    <2>2. QED
      BY <1>1, <2>1, DHere DEF Copies, CopyOf, There
  <1>17. Rooted'
    <2>1. There(Root)
      BY <1>2, DHere DEF Rooted, Empty
    <2>2. QED
      BY <1>1, <2>1 DEF Rooted, There
  <1>18. outbox' \in Seq(Good) /\ Reported' /\ Recorded'
    BY <1>1, DHere DEF Reported, Recorded, Report
  <1>19. QED
    BY <1>1, <1>2, <1>4, <1>8, <1>15, <1>16, <1>17, <1>18, OneSettles

LEMMA GoodRow ==
  ASSUME NEW r \in Good
  PROVE  r \in Rows /\ r.id.kind # "Start" /\ (Report(r) => r.to = Root)
  BY DEF Good

LEMMA DeliverRowSettles ==
  ASSUME DInv, SInv', NEW p \in Caller, DeliverRow(p)
  PROVE  DInv'
  <1> DEFINE old == caller[p]
             row == Head(old.rows)
             c == [old EXCEPT !.at = "row"]
             j == Job(p, row.to, row.id, "check", exe[row.to])
  <1>1. /\ caller' = [caller EXCEPT ![p] = c] /\ old.at = "rows" /\ old \in CallState /\ CallerOK(old)
        /\ UNCHANGED <<exe, processed, outbox, spawns>>
        /\ jobs' = IF exe[row.to] = Absent THEN jobs ELSE jobs \cup {j}
    BY CallHere, DHere DEF DeliverRow, Goes, store
  <1>2. caller'[p] = c
    BY <1>1, CallerAt, DHere
  <1>3. /\ c.op = old.op /\ c.at = "row" /\ c.rec = old.rec /\ c.rows = old.rows
        /\ c.kids = old.kids /\ c.batch = old.batch
    BY <1>1 DEF CallState
  <1>4. old.rows \in Seq(Good) /\ old.rows # <<>>
    BY <1>1, DHere DEF Settling, Telling, CallerOK
  <1>5. row \in Good
    BY <1>4, HeadTail
  <1>6. row.id.kind # "Start" /\ (Report(row) => row.to = Root) /\ row.to \in Exec
    BY <1>5, GoodRow DEF Rows
  <1>7. j.by = p /\ j.x = row.to /\ j.id = row.id /\ j.at = "check" /\ j.rec = exe[row.to] /\ ~j.stray
    BY DEF Job
  <1> HIDE DEF j, c
  <1>8. ~Birth(j) /\ \A k \in jobs : k.by = p => ~Birth(k)
    BY <1>1, <1>6, <1>7, NoBirth DEF Birth
  <1>9. There(Root)
    BY <1>4, DHere DEF Rooted, Empty
  <1>10. Asking(p)' /\ Bearing(p)'
    <2>1. \A k \in jobs' : k \in jobs \/ k = j
      BY <1>1
    <2>2. \A k \in jobs' : k.by = p => ~Birth(k)
      BY <1>8, <2>1
    <2>3. Asking(p) /\ Bearing(p)
      BY DHere DEF Settling
    <2>4. Asking(p)'
      BY <1>1, <1>2, <1>3, <1>6, <1>7, <2>1, <2>3 DEF Asking
    <2>5. Bearing(p)'
      BY <1>2, <1>3, <2>2, <2>3 DEF Bearing
    <2>6. QED
      BY <2>4, <2>5
  <1>11. Drained(p)' /\ Creating(p)'
    BY <1>2, <1>3 DEF Drained, Creating
  <1>12. Born(p)'
    BY <1>1, <1>2, <1>3, <1>8, StillBorn, SameStays
  <1>13. Telling(p)'
    <2>1. ASSUME Report(row)
          PROVE  j \in Own(p)' /\ j.x = Root /\ j.id = row.id
      <3>1. exe[row.to] # Absent
        BY <1>6, <1>9, <2>1, ThereOrAbsent
      <3>2. QED
        BY <1>1, <1>6, <1>7, <2>1, <3>1 DEF Own
    <2>2. QED
      BY <1>2, <1>3, <1>4, <2>1 DEF Telling
  <1>14. Settling(p)'
    BY <1>10, <1>11, <1>12, <1>13 DEF Settling
  <1>15. CopyOf(c.rec, Root) /\ CopyOf(j.rec, j.x)
    BY <1>3, <1>7, DHere DEF Copies, CopyOf
  <1>16. QED
    BY <1>1, <1>7, <1>9, <1>14, <1>15, Calm

LEMMA Joining ==
  ASSUME NEW S, NEW s \in Seq(S), NEW t \in Seq(S)
  PROVE  /\ Len(s \o t) = Len(s) + Len(t) /\ s \o t \in Seq(S)
         /\ \A n \in 1 .. Len(s) : (s \o t)[n] = s[n]
         /\ \A n \in 1 .. Len(t) : (s \o t)[Len(s) + n] = t[n]
  OBVIOUS

\* All rows but the one that is removed stay.
LEMMA RemoveAtKeeps ==
  ASSUME NEW S, NEW q \in Seq(S), NEW i \in DOMAIN q, NEW m \in DOMAIN q, m # i
  PROVE  \E n \in DOMAIN RemoveAt(q, i) : RemoveAt(q, i)[n] = q[m]
  <1>1. PICK l \in Nat : l = Len(q)
    OBVIOUS
  <1>2. i \in 1 .. l /\ m \in 1 .. l /\ i \in Nat /\ m \in Nat
    BY <1>1
  <1> DEFINE f == SubSeq(q, 1, i - 1)
             g == SubSeq(q, i + 1, Len(q))
  <1>3. f \in Seq(S) /\ Len(f) = i - 1 /\ \A n \in 1 .. i - 1 : f[n] = q[n]
    BY <1>1, <1>2
  <1>4. g \in Seq(S) /\ Len(g) = l - i /\ \A n \in 1 .. l - i : g[n] = q[n + i]
    BY <1>1, <1>2
  <1>5. RemoveAt(q, i) = f \o g
    BY DEF RemoveAt
  <1> HIDE DEF f, g
  <1>6. /\ f \o g \in Seq(S) /\ Len(f \o g) = (i - 1) + (l - i)
        /\ \A n \in 1 .. i - 1 : (f \o g)[n] = f[n]
        /\ \A n \in 1 .. l - i : (f \o g)[(i - 1) + n] = g[n]
    <2>1. PICK front \in Seq(S), back \in Seq(S) : front = f /\ back = g
      BY <1>3, <1>4
    <2>2. /\ Len(front \o back) = Len(front) + Len(back) /\ front \o back \in Seq(S)
          /\ \A n \in 1 .. Len(front) : (front \o back)[n] = front[n]
          /\ \A n \in 1 .. Len(back) : (front \o back)[Len(front) + n] = back[n]
      BY Joining
    <2>3. Len(front) = i - 1 /\ Len(back) = l - i
      BY <1>3, <1>4, <2>1
    <2>4. QED
      BY <2>1, <2>2, <2>3, Zenon
  <1>7. DOMAIN (f \o g) = 1 .. l - 1
    <2>1. (i - 1) + (l - i) = l - 1
      BY <1>2
    <2>2. \A t \in Seq(S) : DOMAIN t = 1 .. Len(t)
      OBVIOUS
    <2>3. DOMAIN (f \o g) = 1 .. Len(f \o g)
      BY <1>6, <2>2, Zenon
    <2>4. QED
      BY <1>6, <2>1, <2>3, Zenon
  <1>8. CASE m < i
    <2>1. m \in 1 .. i - 1 /\ m \in 1 .. l - 1
      BY <1>2, <1>8
    <2>2. (f \o g)[m] = f[m]
      BY <1>6, <2>1
    <2>3. QED
      BY <1>3, <1>5, <1>7, <2>1, <2>2
  <1>9. CASE m > i
    <2>1. m - i \in Nat /\ m = (m - i) + i
      BY <1>2, <1>9
    <2> DEFINE n == m - i
    <2>2. n \in 1 .. l - i /\ m - 1 \in 1 .. l - 1 /\ m - 1 = (i - 1) + n /\ m = n + i
      <3>1. i \in Nat /\ m \in Nat /\ l \in Nat /\ 1 <= i /\ i < m /\ m <= l
        BY <1>2, <1>9
      <3>2. QED
        BY <3>1
    <2> HIDE DEF n
    <2>3. (f \o g)[m - 1] = g[n]
      BY <1>6, <2>2
    <2>4. QED
      BY <1>4, <1>5, <1>7, <2>1, <2>2, <2>3
  <1>10. QED
    BY <1>2, <1>8, <1>9

LEMMA AckOutboxSettles ==
  ASSUME DInv, SInv', NEW p \in Caller, AckOutbox(p)
  PROVE  DInv'
  <1> DEFINE old == caller[p]
             row == Head(old.rows)
             at == IF Len(old.rows) = 1 THEN "spawns" ELSE "rows"
             c == [old EXCEPT !.rows = Tail(@), !.at = at]
  <1>1. /\ caller' = [caller EXCEPT ![p] = c] /\ old.at = "row" /\ old \in CallState /\ CallerOK(old)
        /\ Own(p) = {} /\ UNCHANGED <<exe, processed, spawns>> /\ jobs' = jobs
        /\ outbox' = outbox \/ \E i \in DOMAIN outbox : outbox[i] = row /\ outbox' = RemoveAt(outbox, i)
    BY CallHere, DHere DEF AckOutbox
  <1>2. caller'[p] = c /\ \A q \in Caller : q # p => caller'[q] = caller[q]
    BY <1>1, CallerAt, DHere
  <1>3. /\ c.op = old.op /\ c.at \in {"spawns", "rows"} /\ c.rec = old.rec /\ c.rows = Tail(old.rows)
        /\ c.kids = old.kids /\ c.batch = old.batch
    BY <1>1 DEF CallState
  <1>4. old.rows \in Seq(Good) /\ old.rows # <<>>
    BY <1>1, DHere DEF Settling, Telling, CallerOK
  <1>5. row \in Good /\ Tail(old.rows) \in Seq(Good)
    BY <1>4, HeadTail
  <1> HIDE DEF c
  <1>6. Report(row) => Told(row)
    BY <1>1, DHere DEF Settling, Telling
  <1>7. Grown
    BY <1>1, SameStays
  <1>8. \A i \in jobs : i.by = p => ~Birth(i)
    BY <1>1, NoBirth
  <1>9. Asking(p)' /\ Bearing(p)'
    BY <1>1, <1>2, <1>3, <1>8, DHere DEF Settling, Asking, Bearing, Birth
  <1>10. Drained(p)' /\ Creating(p)' /\ Telling(p)'
    BY <1>2, <1>3, <1>5 DEF Drained, Creating, Telling
  <1>11. Born(p)'
    BY <1>2, <1>3, <1>7, <1>8, StillBorn
  <1>12. Settling(p)'
    BY <1>9, <1>10, <1>11 DEF Settling
  <1>13. Copies'
    <2>1. \A q \in Caller : CopyOf(caller'[q].rec, Root)
      BY <1>2, <1>3, DHere DEF Copies
    <2>2. QED
      BY <1>1, <2>1, DHere DEF Copies, CopyOf, There
  <1>14. Rooted'
    <2>1. There(Root)
      BY <1>4, DHere DEF Rooted, Empty
    <2>2. QED
      BY <1>1, <2>1 DEF Rooted, There
  <1>15. outbox' \in Seq(Good)
    BY <1>1, RemoveAtType, DHere
  <1>16. Reported'
    <2>1. ASSUME NEW x \in Region, exe[x].status = "DONE", x \notin exe[Root].done
          PROVE  \E n \in DOMAIN outbox' : Report(outbox'[n]) /\ outbox'[n].id.of = x
      <3>1. PICK m \in DOMAIN outbox : Report(outbox[m]) /\ outbox[m].id.of = x
        BY <2>1, DHere DEF Reported
      <3>2. outbox[m] # row
        BY <1>6, <2>1, <3>1 DEF Told
      <3>3. PICK n \in DOMAIN outbox' : outbox'[n] = outbox[m]
        <4>1. CASE outbox' = outbox
          BY <4>1
        <4>2. CASE outbox' # outbox
          <5>1. PICK i \in DOMAIN outbox : outbox[i] = row /\ outbox' = RemoveAt(outbox, i)
            BY <1>1, <4>2
          <5>2. m # i
            BY <3>2, <5>1
          <5>3. QED
            BY <5>1, <5>2, RemoveAtKeeps, DHere
        <4>3. QED
          BY <4>1, <4>2
      <3>4. QED
        BY <3>1, <3>3
    <2>2. QED
      BY <1>1, <2>1 DEF Reported, Report
  <1>17. Recorded'
    BY <1>1, DHere DEF Recorded
  <1>18. QED
    BY <1>1, <1>2, <1>7, <1>12, <1>13, <1>14, <1>15, <1>16, <1>17, OneSettles
-----------------------------------------------------------------------------
(* The sweep *)

LEMMA Sweeping ==
  ASSUME DInv, SInv', UNCHANGED <<exe, processed, outbox, spawns>>, NEW p \in Caller, NEW c,
         caller' = [caller EXCEPT ![p] = c], caller[p].at \in {"sweep", "delete"},
         c.op = caller[p].op, c.at \in {"sweep", "delete", "fired"}, c.rec = caller[p].rec,
         c.rows = caller[p].rows, c.kids = caller[p].kids, c.batch = caller[p].batch,
         \A j \in jobs' : \/ j \in jobs
                          \/ j.by = p /\ j.x = Root /\ j.id.kind = "Timeout" /\ j.at = "load" /\ j.rec = Absent,
         \A j \in jobs : j.by # p => j \in jobs'
  PROVE  DInv'
  <1>1. caller'[p] = c
    BY CallerAt, DHere
  <1>2. \A k \in jobs' : k.by = p => ~Birth(k)
    BY Resting DEF Quiet, Birth
  <1>3. Asking(p)' /\ Bearing(p)'
    <2>1. Asking(p)'
      BY <1>1, DHere DEF Settling, Asking
    <2>2. QED
      BY <1>2, <2>1 DEF Bearing, Birth
  <1>4. Drained(p)' /\ Creating(p)'
    BY <1>1 DEF Drained, Creating
  <1>5. Born(p)'
    <2>1. caller[p].op = "sweep"
      BY CallHere, DHere DEF CallerOK
    <2>2. QED
      BY <1>1, <2>1 DEF Born
  <1>6. Telling(p)'
    BY <1>1, DHere DEF Settling, Telling
  <1>7. Settling(p)'
    BY <1>3, <1>4, <1>5, <1>6 DEF Settling
  <1>8. CopyOf(c.rec, Root) /\ (There(Root) \/ Empty(c))
    BY DHere DEF Copies, Rooted, Empty
  <1>9. CopyOf(Absent, Root)
    BY AbsentCopies, InExec
  <1>10. \A j \in jobs' : j \in jobs \/ (j.by = p /\ CopyOf(j.rec, j.x) /\ (There(Root) \/ j.x = Root))
    BY <1>9
  <1>11. QED
    BY <1>7, <1>8, <1>10, Calm

\* A call that is over, and whose sub-flows that go on are strays.
LEMMA CallOver ==
  ASSUME DInv, SInv', UNCHANGED <<exe, processed, outbox, spawns>>, NEW p \in Caller, Ends(p),
         \A j \in jobs' : j.by = p =>
           ~Birth(j) /\ \E k \in jobs : k.by = p /\ j.at = k.at /\ j.id = k.id /\ j.x = k.x /\ j.rec = k.rec,
         \A j \in jobs : j.by # p => j \in jobs', \A j \in jobs' : j.by # p => j \in jobs
  PROVE  DInv'
  <1>1. caller' = [caller EXCEPT ![p] = Idle]
    BY DEF Ends
  <1>2. caller'[p] = Idle
    BY <1>1, CallerAt, DHere
  <1>3. Settling(p)'
    BY <1>2, Done, DHere DEF Settling, Asking
  <1>4. CopyOf(Idle.rec, Root) /\ Empty(Idle)
    BY AbsentCopies, InExec DEF Idle, Empty
  <1>5. \A j \in jobs' : j \in jobs \/ (j.by = p /\ CopyOf(j.rec, j.x) /\ (There(Root) \/ j.x = Root))
    BY DHere DEF Copies, Rooted
  <1>6. QED
    BY <1>1, <1>3, <1>4, <1>5, Calm

LEMMA SweepNextSettles ==
  ASSUME DInv, SInv', NEW p \in Caller, SweepNext(p)
  PROVE  DInv'
  <1> DEFINE old == caller[p]
  <1>1. /\ old \in CallState /\ CallerOK(old) /\ old.at = "sweep" /\ UNCHANGED <<exe, processed, outbox, spawns>>
        /\ \A k \in jobs : k.by = p => ~Birth(k)
    BY CallHere, Resting, DHere DEF SweepNext, store, Quiet
  <1>2. CASE old.left = {}
    <2>1. Ends(p) /\ UNCHANGED jobs
      BY <1>2 DEF SweepNext
    <2>2. QED
      BY <1>1, <2>1, CallOver
  <1>3. CASE old.left # {}
    <2>1. PICK t \in old.left :
            LET next == [old EXCEPT !.left = @ \ {t}, !.timer = t]
            IN \/ caller' = [caller EXCEPT ![p] = next] /\ UNCHANGED jobs
               \/ caller' = [caller EXCEPT ![p] = [next EXCEPT !.at = "delete"]] /\ UNCHANGED jobs
               \/ /\ caller' = [caller EXCEPT ![p] = [next EXCEPT !.at = "fired"]]
                  /\ jobs' = jobs \cup {Job(p, t.of, t, "load", Absent)}
      BY <1>3 DEF SweepNext
    <2> DEFINE next == [old EXCEPT !.left = @ \ {t}, !.timer = t]
               C(at) == [next EXCEPT !.at = at]
               j == Job(p, t.of, t, "load", Absent)
    <2>2. t.kind = "Timeout" /\ t.of = Root
      BY <1>1 DEF CallerOK
    <2>3. next = C("sweep")
      BY <1>1 DEF CallState
    <2>4. PICK at \in {"sweep", "delete", "fired"} : caller' = [caller EXCEPT ![p] = C(at)]
      BY <2>1, <2>3
    <2>5. /\ C(at).op = old.op /\ C(at).at = at /\ C(at).rec = old.rec /\ C(at).rows = old.rows
          /\ C(at).kids = old.kids /\ C(at).batch = old.batch
      BY <1>1 DEF CallState
    <2>6. j.by = p /\ j.x = Root /\ j.id.kind = "Timeout" /\ j.at = "load" /\ j.rec = Absent
      BY <2>2 DEF Job
    <2>7. jobs \subseteq jobs' /\ jobs' \subseteq jobs \cup {j}
      BY <2>1
    <2>8. PICK d : d = C(at)
      OBVIOUS
    <2>9. /\ caller' = [caller EXCEPT ![p] = d]
          /\ d.op = caller[p].op /\ d.at \in {"sweep", "delete", "fired"} /\ d.rec = caller[p].rec
          /\ d.rows = caller[p].rows /\ d.kids = caller[p].kids /\ d.batch = caller[p].batch
      BY <2>4, <2>5, <2>8
    <2> HIDE DEF next, C, j
    <2>10. \A k \in jobs' : \/ k \in jobs
                            \/ k.by = p /\ k.x = Root /\ k.id.kind = "Timeout" /\ k.at = "load" /\ k.rec = Absent
      BY <2>6, <2>7
    <2>11. \A k \in jobs : k.by # p => k \in jobs'
      BY <2>7
    <2>12. QED
      BY <1>1, <2>9, <2>10, <2>11, Sweeping
  <1>4. QED
    BY <1>2, <1>3

LEMMA DeleteTimerSettles ==
  ASSUME DInv, SInv', NEW p \in Caller, DeleteTimer(p)
  PROVE  DInv'
  <1> DEFINE old == caller[p]
             c == [old EXCEPT !.at = "sweep", !.timer = NoId]
  <1>1. /\ old \in CallState /\ old.at = "delete" /\ UNCHANGED <<exe, processed, outbox, spawns, jobs>>
        /\ caller' = [caller EXCEPT ![p] = c]
    BY CallHere, DHere DEF DeleteTimer
  <1>2. /\ c.op = old.op /\ c.at = "sweep" /\ c.rec = old.rec /\ c.rows = old.rows
        /\ c.kids = old.kids /\ c.batch = old.batch
    BY <1>1 DEF CallState
  <1> HIDE DEF c
  <1>3. QED
    BY <1>1, <1>2, Sweeping
-----------------------------------------------------------------------------
(* The sub-flows *)

LEMMA CallerSame ==
  ASSUME IInv, NEW p \in Caller, UNCHANGED caller
  PROVE  caller' = [caller EXCEPT ![p] = caller[p]]
  BY DEF IInv, TypeOK

LEMMA GoesOn ==
  ASSUME DInv, SInv', UNCHANGED <<exe, processed, outbox, spawns, caller>>, NEW j \in jobs, NEW k,
         jobs' = (jobs \ {j}) \cup {k}, k.by = j.by, k.x = j.x, k.id = j.id, k.stray = j.stray,
         ~Birth(j), k.at # "rearm", k.at = "check" => k.id.kind # "Start", CopyOf(k.rec, k.x)
  PROVE  DInv'
  <1> DEFINE p == j.by
  <1>1. p \in Caller /\ Settling(p)
    BY JobsHere, DHere DEF JobState
  <1>2. Asking(p)' /\ Drained(p)'
    BY <1>1 DEF Settling, Asking, Drained
  <1>3. Bearing(p)'
    <2>1. ASSUME NEW i \in jobs', i.by = p, Birth(i)
          PROVE  ~i.stray /\ i.at = "commit" /\ i.rec = Absent /\ Own(p)' = {i}
                 /\ caller[p].op = "create" /\ caller[p].at = "spawns"
      <3>1. i \in jobs /\ i # j
        BY <2>1 DEF Birth
      <3>2. /\ ~i.stray /\ i.at = "commit" /\ i.rec = Absent /\ Own(p) = {i}
            /\ caller[p].op = "create" /\ caller[p].at = "spawns"
        BY <1>1, <2>1, <3>1 DEF Settling, Bearing
      <3>3. j.stray /\ k.stray
        BY <3>1, <3>2 DEF Own
      <3>4. Own(p)' = Own(p)
        BY <3>3 DEF Own
      <3>5. QED
        BY <3>2, <3>4
    <2>2. QED
      BY <2>1 DEF Bearing, Birth
  <1>4. Born(p)'
    <2>1. ASSUME NEW i \in Own(p), Birth(i)
          PROVE  i \in Own(p)'
      BY <2>1 DEF Own
    <2>2. QED
      BY <1>1, <2>1 DEF Settling, Born, There, Birth
  <1>5. ASSUME NEW i \in Own(p)
        PROVE  \E m \in Own(p)' : m.x = i.x /\ m.id = i.id
    BY <1>5 DEF Own
  <1>6. Creating(p)' /\ Telling(p)'
    BY <1>1, <1>5 DEF Settling, Creating, Telling, Told, Report, There
  <1>7. Settling(p)'
    BY <1>2, <1>3, <1>4, <1>6 DEF Settling
  <1>8. CopyOf(caller[p].rec, Root) /\ (There(Root) \/ Empty(caller[p])) /\ (There(Root) \/ k.x = Root)
    BY <1>1, DHere DEF Copies, Rooted
  <1>9. caller' = [caller EXCEPT ![p] = caller[p]]
    BY <1>1, CallerSame, DHere
  <1> HIDE DEF p
  <1>10. \A i \in jobs' : i \in jobs \/ (i.by = p /\ CopyOf(i.rec, i.x) /\ (There(Root) \/ i.x = Root))
    BY <1>8 DEF p
  <1>11. \A i \in jobs : i.by # p => i \in jobs'
    BY DEF p
  <1>12. QED
    BY <1>1, <1>7, <1>8, <1>9, <1>10, <1>11, Calm

\* Where a call is that waits for a sub-flow, before and after the flow ends.
LEMMA OverAt ==
  ASSUME IInv, NEW j \in jobs, NEW ran \in BOOLEAN, Over(j, ran)
  PROVE  /\ \A q \in Caller : q # j.by => caller'[q] = caller[q]
         /\ \/ caller' = caller
            \/ /\ caller[j.by].at = "fired" /\ ~j.stray /\ caller[j.by].op = "sweep"
               /\ caller'[j.by] = [caller[j.by] EXCEPT !.at = IF ran THEN "spawns" ELSE "delete"]
               /\ caller' = [caller EXCEPT ![j.by] = [caller[j.by] EXCEPT !.at = IF ran THEN "spawns" ELSE "delete"]]
  <1>1. j.by \in Caller /\ CallerOK(caller[j.by])
    BY JobsHere, CallHere DEF JobState
  <1> DEFINE c == [caller[j.by] EXCEPT !.at = IF ran THEN "spawns" ELSE "delete"]
  <1>2. CASE caller[j.by].at = "fired" /\ ~j.stray
    <2>1. caller' = [caller EXCEPT ![j.by] = c]
      BY <1>2 DEF Over, Goes
    <2>2. caller[j.by].op = "sweep"
      BY <1>1, <1>2 DEF CallerOK
    <2>3. caller'[j.by] = c /\ \A q \in Caller : q # j.by => caller'[q] = caller[q]
      BY <1>1, <2>1, CallerAt
    <2>4. QED
      BY <1>2, <2>1, <2>2, <2>3
  <1>3. CASE ~(caller[j.by].at = "fired" /\ ~j.stray)
    BY <1>3 DEF Over
  <1>4. QED
    BY <1>2, <1>3

\* A sub-flow is over, and did what its caller waits for.
LEMMA JobOver ==
  ASSUME DInv, Grown, NEW j \in jobs, NEW ran \in BOOLEAN, jobs' = jobs \ {j}, Over(j, ran),
         \A k \in spawns' : k \in spawns \/ Birth(j),
         Birth(j) => There(Root)' /\ \A x \in Region : [child |-> x, by |-> j.by] \in spawns',
         ~j.stray /\ j.id.kind = "Start" => There(j.x)',
         ~j.stray /\ There(Root) /\ j.x = Root /\ j.id.kind = "Finished" => j.id.of \in exe'[Root].done
  PROVE  Settling(j.by)'
  <1> DEFINE p == j.by
             old == caller[p]
  <1>1. p \in Caller /\ Settling(p) /\ SweepOK(p) /\ old \in CallState /\ CallerOK(old)
    BY JobsHere, CallHere, DHere DEF JobState
  <1>2. CASE j.stray
    <2>1. ~Birth(j)
      BY <1>1, <1>2 DEF Settling, Bearing
    <2>2. caller'[p] = old /\ Own(p)' = Own(p) /\ \A i \in jobs' : i \in jobs
      BY <1>2 DEF Over, Own
    <2> HIDE DEF p
    <2>3. Settling(p)'
      BY <1>1, <2>1, <2>2, Kept DEF p
    <2>4. QED
      BY <2>3 DEF p
  <1>3. CASE ~j.stray
    <2>1. j \in Own(p) /\ \A i \in Own(p) : i # j => i \in Own(p)'
      BY <1>3 DEF Own
    <2>2. old.at \notin Quiet
      BY <1>1, <2>1 DEF SweepOK
    <2> DEFINE new == caller'[p]
    <2>3. \/ new = old
          \/ /\ new.at \in {"spawns", "delete"} /\ new.op = old.op /\ new.op = "sweep" /\ new.rows = old.rows
             /\ new.batch = old.batch /\ new.found = old.found
      <3>1. \/ new = old
            \/ old.op = "sweep" /\ new = [old EXCEPT !.at = IF ran THEN "spawns" ELSE "delete"]
        BY OverAt, DHere
      <3>2. QED
        BY <1>1, <3>1 DEF CallState
    <2> HIDE DEF new
    <2>4. Asking(p)'
      BY <1>1, <2>3 DEF Settling, Asking, new
    <2>5. Drained(p)'
      BY <1>1, <2>2, <2>3 DEF Settling, Drained, Quiet, new
    <2>6. \A i \in jobs' : i.by = p => ~Birth(i)
      BY <1>1, <2>1 DEF Settling, Bearing
    <2>7. Bearing(p)'
      BY <2>6 DEF Bearing, Birth
    <2>8. Born(p)'
      <3>1. SUFFICES ASSUME new.op = "create"
                     PROVE  There(Root)' /\ \A x \in Region : There(x)' \/ [child |-> x, by |-> p] \in spawns'
        BY DEF Born, new
      <3>2. CASE Birth(j)
        BY <3>2
      <3>3. CASE ~Birth(j)
        <4>1. \A i \in Own(p) : ~Birth(i)
          BY <2>6, <3>3 DEF Own
        <4>2. There(Root) /\ \A x \in Region : There(x) \/ [child |-> x, by |-> p] \in spawns
          BY <1>1, <2>3, <3>1, <4>1 DEF Settling, Born
        <4>3. QED
          BY <4>2, InExec DEF Grown
      <3>4. QED
        BY <3>2, <3>3
    <2>9. Creating(p)'
      <3>1. SUFFICES ASSUME new.at = "ack", NEW k \in new.batch
                     PROVE  There(k.child)' \/ \E i \in Own(p)' : i.x = k.child /\ i.id.kind = "Start"
        BY DEF Creating, new
      <3>2. k \in old.batch /\ old.at = "ack" /\ k.child \in Exec
        BY <1>1, <2>3, <3>1, InExec DEF CallState, Spawn
      <3>3. There(k.child) \/ \E i \in Own(p) : i.x = k.child /\ i.id.kind = "Start"
        BY <1>1, <3>2 DEF Settling, Creating
      <3>4. QED
        BY <1>3, <2>1, <3>2, <3>3 DEF Grown
    <2>10. Telling(p)'
      <3>1. new.rows \in Seq(Good)
        BY <1>1, <2>3 DEF Settling, Telling
      <3>2. ASSUME new.at = "row", Report(Head(new.rows))
            PROVE  \/ Head(new.rows).id.of \in exe'[Root].done
                   \/ \E i \in Own(p)' : i.x = Root /\ i.id = Head(new.rows).id
        <4>1. new = old /\ old.rows # <<>>
          BY <1>1, <2>3, <3>2 DEF CallerOK
        <4>2. There(Root)
          BY <1>1, <4>1, DHere DEF Rooted, Empty
        <4>3. Told(Head(old.rows)) \/ \E i \in Own(p) : i.x = Root /\ i.id = Head(old.rows).id
          BY <1>1, <3>2, <4>1 DEF Settling, Telling
        <4>4. QED
          BY <1>3, <2>1, <3>2, <4>1, <4>2, <4>3 DEF Told, Report, Grown
      <3>3. QED
        BY <3>1, <3>2 DEF Telling, Told, Report, new
    <2>11. QED
      BY <2>4, <2>5, <2>7, <2>8, <2>9, <2>10 DEF Settling
  <1>4. QED
    BY <1>2, <1>3

\* A sub-flow that finds nothing to do, or gives up, and leaves the store alone.
LEMMA Dropping ==
  ASSUME DInv, SInv', UNCHANGED <<exe, processed, outbox, spawns>>,
         NEW j \in jobs, jobs' = jobs \ {j}, Over(j, FALSE), ~Birth(j),
         ~j.stray /\ j.id.kind = "Start" => There(j.x),
         ~j.stray /\ There(Root) /\ j.x = Root /\ j.id.kind = "Finished" => j.id.of \in exe[Root].done
  PROVE  DInv'
  <1> DEFINE p == j.by
             c == caller'[p]
  <1>1. p \in Caller /\ caller[p] \in CallState
    BY JobsHere, CallHere, DHere DEF JobState
  <1>2. Settling(p)'
    BY JobOver, SameStays DEF There
  <1>3. /\ \A q \in Caller : q # p => caller'[q] = caller[q]
        /\ c = caller[p] \/ c = [caller[p] EXCEPT !.at = "delete"]
    BY <1>1, OverAt, DHere
  <1>4. c.rec = caller[p].rec /\ c.kids = caller[p].kids /\ c.batch = caller[p].batch /\ c.rows = caller[p].rows
    BY <1>1, <1>3 DEF CallState
  <1>5. Copies'
    <2>1. \A q \in Caller : CopyOf(caller'[q].rec, Root)
      BY <1>3, <1>4, DHere DEF Copies
    <2>2. QED
      BY <2>1, DHere DEF Copies, CopyOf, There
  <1>6. Rooted'
    <2>1. ~There(Root) => \A q \in Caller : Empty(caller'[q])
      BY <1>3, <1>4, DHere DEF Rooted, Empty
    <2>2. QED
      BY <2>1, DHere DEF Rooted, There, Empty
  <1>7. Grown /\ Reported' /\ Recorded' /\ outbox' \in Seq(Good)
    BY SameStays, DHere DEF Reported, Report, Recorded
  <1> HIDE DEF c, p
  <1>8. (\A i \in jobs' : i.by # p => i \in jobs) /\ (\A i \in jobs : i.by # p => i \in jobs')
    BY DEF p
  <1>9. QED
    BY <1>1, <1>2, <1>3, <1>5, <1>6, <1>7, <1>8, OneSettles

LEMMA JobLoadSettles ==
  ASSUME DInv, SInv', NEW j \in jobs, JobLoad(j)
  PROVE  DInv'
  <1>1. /\ j \in JobState /\ j.at = "load" /\ j.x \in Exec /\ UNCHANGED <<exe, processed, outbox, spawns>>
        /\ j.by \in Caller
    BY JobsHere, DHere DEF JobLoad, JobState, store
  <1>2. ~Birth(j)
    BY <1>1, DHere DEF Settling, Bearing
  <1>3. CASE (j.id.kind = "Start") = (exe[j.x] = Absent)
    <2> DEFINE at == IF j.id.kind = "Start" THEN "commit" ELSE "check"
               k == [j EXCEPT !.at = at, !.rec = exe[j.x]]
    <2>1. jobs' = (jobs \ {j}) \cup {k} /\ UNCHANGED caller
      BY <1>3 DEF JobLoad, Becomes
    <2>2. /\ k.by = j.by /\ k.x = j.x /\ k.id = j.id /\ k.stray = j.stray /\ k.at = at /\ k.rec = exe[j.x]
      BY <1>1 DEF JobState
    <2>3. at # "rearm" /\ (at = "check" => j.id.kind # "Start")
      OBVIOUS
    <2> HIDE DEF k, at
    <2>4. CopyOf(k.rec, k.x)
      BY <2>2 DEF CopyOf
    <2>5. QED
      BY <1>1, <1>2, <2>1, <2>2, <2>3, <2>4, GoesOn
  <1>4. CASE (j.id.kind = "Start") # (exe[j.x] = Absent)
    <2>1. jobs' = jobs \ {j} /\ Over(j, FALSE)
      BY <1>4 DEF JobLoad, Becomes
    <2>2. j.id.kind = "Start" => There(j.x)
      BY <1>1, <1>4, ThereOrAbsent
    <2>3. j.id.kind # "Start" => ~There(j.x)
      BY <1>1, <1>4, ThereOrAbsent
    <2>4. QED
      BY <1>1, <1>2, <2>1, <2>2, <2>3, Dropping
  <1>5. QED
    BY <1>3, <1>4

LEMMA IsProcessedSettles ==
  ASSUME DInv, SInv', NEW j \in jobs, IsProcessed(j)
  PROVE  DInv'
  <1>1. /\ j \in JobState /\ j.at = "check" /\ UNCHANGED <<exe, processed, outbox, spawns>>
        /\ j.by \in Caller
    BY JobsHere, DHere DEF IsProcessed, JobState, store
  <1>2. ~Birth(j) /\ j.id.kind # "Start"
    BY <1>1, DHere DEF Settling, Bearing, Asking
  <1>3. CASE j.id \in processed[j.x]
    <2>1. jobs' = jobs \ {j} /\ Over(j, FALSE)
      BY <1>3 DEF IsProcessed, Becomes
    <2>2. j.x = Root /\ j.id.kind = "Finished" => j.id.of \in exe[Root].done
      BY <1>3, DHere DEF Recorded
    <2>3. QED
      BY <1>1, <1>2, <2>1, <2>2, Dropping
  <1>4. CASE j.id \notin processed[j.x]
    <2> DEFINE k == [j EXCEPT !.at = "commit"]
    <2>1. jobs' = (jobs \ {j}) \cup {k} /\ UNCHANGED caller
      BY <1>4 DEF IsProcessed, Becomes
    <2>2. /\ k.by = j.by /\ k.x = j.x /\ k.id = j.id /\ k.stray = j.stray /\ k.at = "commit" /\ k.rec = j.rec
      BY <1>1 DEF JobState
    <2>3. CopyOf(k.rec, k.x)
      BY <2>2, DHere DEF Copies
    <2> HIDE DEF k
    <2>4. QED
      BY <1>1, <1>2, <2>1, <2>2, <2>3, GoesOn
  <1>5. QED
    BY <1>3, <1>4

LEMMA RaisesSettles ==
  ASSUME DInv, SInv', NEW j \in jobs, Raises(j), UNCHANGED store
  PROVE  DInv'
  <1> DEFINE p == j.by
  <1>1. p \in Caller /\ Settling(p) /\ UNCHANGED <<exe, processed, outbox, spawns>>
    BY JobsHere, DHere DEF JobState, store
  <1>2. CASE j.stray
    <2>1. jobs' = jobs \ {j} /\ Over(j, FALSE)
      BY <1>2 DEF Raises, Becomes, Over
    <2>2. ~Birth(j)
      BY <1>1, <1>2 DEF Settling, Bearing
    <2>3. QED
      BY <1>1, <1>2, <2>1, <2>2, Dropping
  <1>3. CASE ~j.stray
    <2> DEFINE on == IF Kind[p] = "loop" THEN Own(p) \ {j} ELSE {}
               Stray(k) == [k EXCEPT !.stray = TRUE]
    <2>1. Ends(p) /\ jobs' = (jobs \ Own(p)) \cup {Stray(k) : k \in on}
      BY <1>3 DEF Raises
    <2>2. j \in Own(p)
      BY <1>3 DEF Own
    <2>3. ASSUME NEW k \in on
          PROVE  /\ k \in jobs /\ k.by = p /\ ~Birth(k) /\ Stray(k).by = p
                 /\ Stray(k).at = k.at /\ Stray(k).id = k.id /\ Stray(k).x = k.x /\ Stray(k).rec = k.rec
      <3>1. k \in Own(p) /\ k # j
        OBVIOUS
      <3>2. k \in JobState /\ k \in jobs /\ k.by = p
        BY <3>1, JobsHere, DHere DEF Own
      <3>3. ~Birth(k)
        BY <1>1, <2>2, <3>1, <3>2 DEF Settling, Bearing
      <3>4. QED
        BY <3>2, <3>3 DEF JobState
    <2>4. ASSUME NEW k \in jobs, k \notin Own(p), k.by = p
          PROVE  ~Birth(k)
      BY <1>1, <2>4 DEF Settling, Bearing, Own
    <2> HIDE DEF Stray, on
    <2>5. \A i \in jobs' : i \in jobs \ Own(p) \/ \E k \in on : i = Stray(k)
      BY <2>1
    <2>6. \A i \in jobs' : i.by = p =>
            ~Birth(i) /\ \E k \in jobs : k.by = p /\ i.at = k.at /\ i.id = k.id /\ i.x = k.x /\ i.rec = k.rec
      BY <2>3, <2>4, <2>5 DEF Birth
    <2>7. (\A i \in jobs : i.by # p => i \in jobs') /\ (\A i \in jobs' : i.by # p => i \in jobs)
      BY <2>1, <2>3, <2>5 DEF Own
    <2> HIDE DEF p
    <2>8. QED
      BY <1>1, <2>1, <2>6, <2>7, CallOver
  <1>4. QED
    BY <1>2, <1>3

LEMMA CrashSettles ==
  ASSUME DInv, SInv', NEW p \in Caller, Crash(p)
  PROVE  DInv'
  <1>1. jobs' = {j \in jobs : j.by # p} /\ Ends(p) /\ UNCHANGED <<exe, processed, outbox, spawns>>
    BY DEF Crash, store
  <1>2. QED
    BY <1>1, CallOver
-----------------------------------------------------------------------------
(* The commits *)

\* What the machine's step leaves of a record, and what it emits.
Leaves(x, r, id, s) ==
  /\ x = Root => r.done \subseteq s.rec.done
  /\ x = Root /\ id.kind = "Finished" => id.of \in s.rec.done
  /\ x \in Region /\ s.rec.status = "DONE" => r.status = "DONE" \/ s.emits = Finished(x)
  /\ \A i \in DOMAIN s.emits : /\ s.emits[i].id.kind \in {"Finished", "Cancel"}
                               /\ s.emits[i].id.kind = "Finished" => s.emits[i].to = Root

LEMMA StayLeaves ==
  ASSUME NEW r
  PROVE  Stay(r).rec = r /\ DOMAIN Stay(r).emits = {}
  BY DEF Stay

LEMMA RearmedLeaves ==
  ASSUME NEW r \in Record, NEW id, id.kind # "Finished"
  PROVE  Leaves(Root, r, id, Rearmed(r))
  <1>1. Rearmed(r).rec.done = r.done /\ DOMAIN Rearmed(r).emits = {}
    BY DEF Rearmed, Record
  <1>2. QED
    BY <1>1, HostsAssumption DEF Leaves

LEMMA CancelsLeave ==
  ASSUME NEW r, NEW i \in DOMAIN Cancels(r)
  PROVE  Cancels(r)[i].id.kind = "Cancel"
  <1> DEFINE S == Region \ r.done
             F(x) == [to |-> x, id |-> Id("Cancel", x, 0)]
             T == {F(x) : x \in S}
  <1>1. IsFiniteSet(T)
    <2>1. IsFiniteSet(S)
      BY HostsAssumption, FS_Subset
    <2>2. [x \in S |-> F(x)] \in Surjection(S, T)
      BY DEF Surjection
    <2>3. QED
      BY <2>1, <2>2, FS_Surjection
  <1>2. Cancels(r) \in Seq(T)
    BY <1>1, SetToSeqType DEF Cancels
  <1>3. Cancels(r)[i] \in T
    BY <1>2
  <1>4. QED
    BY <1>3 DEF Id

LEMMA RootStepLeaves ==
  ASSUME NEW r \in Record, NEW id \in EventId
  PROVE  Leaves(Root, r, id, RootStep(r, id))
  <1> DEFINE s == RootStep(r, id)
  <1>1. Root \notin Region
    BY HostsAssumption
  <1>2. CASE id.kind = "Finished"
    <2> DEFINE told == [r EXCEPT !.done = @ \cup {id.of}]
    <2>1. told.done = r.done \cup {id.of} /\ told \in Record
      <3>1. id.of \in Region
        BY <1>2, HostsAssumption DEF EventId
      <3>2. QED
        BY <3>1 DEF Record
    <2>2. id.kind \notin Event /\ id.kind # "Timeout"
      BY <1>2, HostsAssumption
    <2>3. s = Stay(IF Running(r) THEN Joined(told) ELSE told)
      BY <1>2, <2>2 DEF RootStep
    <2>4. Joined(told).done = told.done
      BY <2>1 DEF Joined, Record
    <2> HIDE DEF told, s
    <2>5. s.rec.done = r.done \cup {id.of} /\ DOMAIN s.emits = {}
      BY <2>1, <2>3, <2>4, StayLeaves
    <2>6. QED
      BY <1>1, <2>5 DEF Leaves, s
  <1>3. CASE id.kind \in Event /\ Running(r)
    <2>1. id.kind # "Finished" /\ id.kind # "Timeout"
      BY <1>3, HostsAssumption
    <2>2. s = IF Running(Joined(r)) THEN Rearmed(r) ELSE Stay(Joined(r))
      BY <1>3, <2>1 DEF RootStep
    <2>3. Joined(r).done = r.done
      BY DEF Joined, Record
    <2>4. CASE Running(Joined(r))
      BY <2>1, <2>2, <2>4, RearmedLeaves
    <2>5. CASE ~Running(Joined(r))
      <3>1. s = Stay(Joined(r))
        BY <2>2, <2>5
      <3>2. s.rec.done = r.done /\ DOMAIN s.emits = {}
        BY <2>3, <3>1, StayLeaves
      <3>3. QED
        BY <1>1, <2>1, <3>2 DEF Leaves
    <2>6. QED
      BY <2>4, <2>5
  <1>4. CASE id.kind = "Timeout" /\ Running(r) /\ id.n = r.expires
    <2>1. id.kind # "Finished" /\ id.kind \notin Event
      BY <1>4, HostsAssumption
    <2>2. s = [rec |-> [r EXCEPT !.status = "CANCELLED"], emits |-> Cancels(r), arms |-> FALSE]
      BY <1>4, <2>1 DEF RootStep
    <2>3. s.rec.done = r.done /\ s.emits = Cancels(r)
      BY <2>2 DEF Record
    <2> HIDE DEF s
    <2>4. \A i \in DOMAIN s.emits : s.emits[i].id.kind = "Cancel"
      BY <2>3, CancelsLeave
    <2>5. QED
      BY <1>1, <2>1, <2>3, <2>4 DEF Leaves, s
  <1>5. CASE /\ id.kind # "Finished" /\ ~(id.kind \in Event /\ Running(r))
             /\ ~(id.kind = "Timeout" /\ Running(r) /\ id.n = r.expires)
    <2>1. s = Stay(r)
      BY <1>5 DEF RootStep
    <2> HIDE DEF s
    <2>2. s.rec = r /\ DOMAIN s.emits = {}
      BY <2>1, StayLeaves
    <2>3. QED
      BY <1>1, <1>5, <2>2 DEF Leaves, s
  <1>6. QED
    BY <1>2, <1>3, <1>4, <1>5

LEMMA RegionStepLeaves ==
  ASSUME NEW x \in Region, NEW r \in Record, NEW id \in EventId
  PROVE  Leaves(x, r, id, RegionStep(x, r, id))
  <1> DEFINE s == RegionStep(x, r, id)
  <1>1. x # Root
    BY HostsAssumption
  <1>2. CASE Running(r) /\ id.kind \in Ending
    <2>0. id.kind # "Cancel"
      BY <1>2, HostsAssumption
    <2>1. s.emits = Finished(x)
      BY <1>2, <2>0 DEF RegionStep
    <2>2. \A i \in DOMAIN Finished(x) : Finished(x)[i].id.kind = "Finished" /\ Finished(x)[i].to = Root
      BY DEF Finished, Id
    <2> HIDE DEF s
    <2>3. QED
      BY <1>1, <2>1, <2>2 DEF Leaves, s
  <1>3. CASE ~(Running(r) /\ id.kind \in Ending)
    <2>1. PICK q \in {r, [r EXCEPT !.status = "CANCELLED"]} : s = Stay(q)
      BY <1>3 DEF RegionStep
    <2>2. q.status = r.status \/ q.status = "CANCELLED"
      BY <2>1 DEF Record
    <2> HIDE DEF s
    <2>3. s.rec = q /\ DOMAIN s.emits = {}
      BY <2>1, StayLeaves
    <2>4. QED
      BY <1>1, <2>2, <2>3 DEF Leaves, s
  <1>4. QED
    BY <1>2, <1>3

LEMMA StartStepLeaves ==
  ASSUME NEW x \in Exec, NEW id, id.kind = "Start"
  PROVE  Leaves(x, Absent, id, StartStep(x))
  <1>1. /\ StartStep(x).rec.status = "RUNNING" /\ DOMAIN StartStep(x).emits = {}
        /\ Absent.done = {}
    <2>1. StartStep(x).emits = <<>> /\ Absent.done = {}
      BY DEF StartStep, Absent
    <2>2. StartStep(x).rec.status = "RUNNING"
      BY DEF StartStep, Absent
    <2>3. QED
      BY <2>1, <2>2
  <1>2. QED
    BY <1>1 DEF Leaves

LEMMA StepLeaves ==
  ASSUME NEW x \in Exec, NEW r \in Record, NEW id \in EventId, id.kind = "Start" /\ x = Root => r = Absent
  PROVE  Leaves(x, r, id, Step(x, r, id))
  <1>1. CASE id.kind = "Start"
    <2>1. Step(x, r, id) = StartStep(x)
      BY <1>1 DEF Step
    <2>2. Leaves(x, Absent, id, StartStep(x)) /\ StartStep(x).rec.status = "RUNNING"
      BY <1>1, StartStepLeaves DEF StartStep, Absent
    <2>3. QED
      BY <1>1, <2>1, <2>2, HostsAssumption DEF Leaves
  <1>2. CASE id.kind # "Start" /\ x = Root
    BY <1>2, RootStepLeaves DEF Step
  <1>3. CASE id.kind # "Start" /\ x # Root
    BY <1>3, RegionStepLeaves DEF Step, Exec
  <1>4. QED
    BY <1>1, <1>2, <1>3

LEMMA AppendedRows ==
  ASSUME NEW s, Sound(s), NEW p \in Caller, NEW x, NEW r, NEW id, Leaves(x, r, id, s), outbox \in Seq(Good),
         outbox' = outbox \o [i \in DOMAIN s.emits |-> Row(s.emits[i].to, s.emits[i].id, p)]
  PROVE  /\ outbox' \in Seq(Good)
         /\ \A n \in DOMAIN outbox : n \in DOMAIN outbox' /\ outbox'[n] = outbox[n]
         /\ \A i \in DOMAIN s.emits : \E n \in DOMAIN outbox' : outbox'[n].id = s.emits[i].id
  <1> DEFINE rows == [i \in DOMAIN s.emits |-> Row(s.emits[i].to, s.emits[i].id, p)]
  <1>1. PICK l \in Nat : l = Len(s.emits)
    BY DEF Sound
  <1>2. s.emits \in Seq(Emitted) /\ DOMAIN s.emits = 1 .. l
    BY <1>1 DEF Sound
  <1>3. \A i \in DOMAIN s.emits : s.emits[i] \in Emitted
    BY <1>2
  <1>4. ASSUME NEW i \in DOMAIN s.emits
        PROVE  rows[i] \in Good /\ rows[i].id = s.emits[i].id
    <2>1. rows[i] = [to |-> s.emits[i].to, id |-> s.emits[i].id, by |-> p]
      BY DEF Row
    <2> HIDE DEF rows
    <2>2. rows[i] \in Rows /\ rows[i].id = s.emits[i].id /\ rows[i].to = s.emits[i].to
      BY <1>3, <2>1 DEF Emitted, Rows
    <2>3. QED
      BY <2>2 DEF Good, Report, Leaves
  <1>5. rows \in Seq(Good) /\ Len(rows) = l /\ DOMAIN rows = 1 .. l
    <2>1. rows \in [1 .. l -> Good]
      BY <1>2, <1>4
    <2> HIDE DEF rows
    <2>2. QED
      BY <2>1
  <1> HIDE DEF rows
  <1>6. PICK new \in Seq(Good) : new = rows
    BY <1>5
  <1>7. /\ Len(outbox \o new) = Len(outbox) + Len(new) /\ outbox \o new \in Seq(Good)
        /\ \A n \in 1 .. Len(outbox) : (outbox \o new)[n] = outbox[n]
        /\ \A n \in 1 .. Len(new) : (outbox \o new)[Len(outbox) + n] = new[n]
    BY Joining
  <1>8. PICK m \in Nat, o \in Seq(Good) : m = Len(outbox) /\ o = outbox'
    <2>1. outbox' = outbox \o new
      BY <1>6 DEF rows
    <2>2. Len(outbox) \in Nat
      OBVIOUS
    <2>3. QED
      BY <1>7, <2>1, <2>2
  <1>9. /\ Len(o) = m + l /\ \A n \in 1 .. m : o[n] = outbox[n]
        /\ \A n \in 1 .. l : o[m + n] = rows[n]
    BY <1>5, <1>6, <1>7, <1>8 DEF rows
  <1>10. DOMAIN o = 1 .. m + l /\ DOMAIN outbox = 1 .. m
    <2>1. DOMAIN o = 1 .. Len(o)
      BY <1>8
    <2>2. DOMAIN outbox = 1 .. Len(outbox)
      OBVIOUS
    <2>3. QED
      BY <1>8, <1>9, <2>1, <2>2
  <1>11. \A n \in DOMAIN outbox : n \in DOMAIN o /\ o[n] = outbox[n]
    BY <1>9, <1>10
  <1>12. ASSUME NEW i \in DOMAIN s.emits
         PROVE  \E n \in DOMAIN o : o[n].id = s.emits[i].id
    <2>1. i \in 1 .. l /\ m + i \in 1 .. m + l
      BY <1>2
    <2>2. o[m + i].id = s.emits[i].id
      BY <1>4, <1>9, <2>1
    <2>3. QED
      BY <1>10, <2>1, <2>2
  <1>13. QED
    BY <1>8, <1>11, <1>12

LEMMA CommitSettles ==
  ASSUME DInv, SInv', NEW j \in jobs, j.at \in {"commit", "rearm"}, Wins(j.x, j.rec),
         NEW s, Sound(s), Commit(j.by, j.x, j.id, s), Leaves(j.x, j.rec, j.id, s),
         jobs' = jobs \ {j}, Over(j, TRUE)
  PROVE  DInv'
  <1> DEFINE x == j.x
             p == j.by
             v == exe[x].ver
             r == [s.rec EXCEPT !.ver = v + 1]
  <1>1. x \in Exec /\ p \in Caller /\ v \in Nat /\ j.id \in EventId /\ Settling(p)
    BY JobsHere, RecordHere, DHere DEF JobState
  <1>2. j.rec = exe[x]
    BY DHere DEF Copies, CopyOf, Wins
  <1>3. r.ver = v + 1 /\ r.done = s.rec.done /\ r.status = s.rec.status
    BY DEF Sound, Record
  <1>4. exe'[x] = r /\ \A y \in Exec : y # x => exe'[y] = exe[y]
    BY <1>1, DHere DEF Commit, IInv, TypeOK
  <1>5. There(x)' /\ \A y \in Exec : There(y) => There(y)'
    <2>1. exe'[x].ver = v + 1
      BY <1>3, <1>4
    <2>2. v + 1 > 0
      BY <1>1
    <2> HIDE DEF r, v
    <2>3. There(x)'
      BY <2>1, <2>2 DEF There
    <2>4. QED
      BY <1>4, <2>3 DEF There
  <1>6. There(Root)'
    <2>1. There(Root) \/ x = Root
      BY DHere DEF Rooted
    <2>2. QED
      BY <1>5, <2>1, InExec
  <1> HIDE DEF r
  <1>7. exe[Root].done \subseteq exe'[Root].done
    <2>1. CASE x = Root
      BY <1>2, <1>3, <1>4, <2>1 DEF Leaves
    <2>2. CASE x # Root
      BY <1>4, <2>2, InExec
    <2>3. QED
      BY <2>1, <2>2
  <1>8. /\ spawns' = spawns \cup (IF Birth(j) THEN {[child |-> c, by |-> p] : c \in Region} ELSE {})
    BY DEF Commit, Birth
  <1>9. Grown
    BY <1>5, <1>7, <1>8 DEF Grown
  <1>10. /\ \A q \in Caller : q # p => caller'[q] = caller[q]
         /\ \A q \in Caller : caller'[q].rec = caller[q].rec
    <2>1. /\ \A q \in Caller : q # p => caller'[q] = caller[q]
          /\ caller'[p] = caller[p] \/ caller'[p] = [caller[p] EXCEPT !.at = "spawns"]
      BY <1>1, OverAt, DHere
    <2>2. caller'[p].rec = caller[p].rec
      BY <1>1, <2>1, CallHere, DHere DEF CallState
    <2>3. QED
      BY <2>1, <2>2
  <1>11. Settling(p)'
    <2>1. x = Root /\ j.id.kind = "Finished" => j.id.of \in exe'[Root].done
      BY <1>3, <1>4 DEF Leaves
    <2>2. \A k \in spawns' : k \in spawns \/ Birth(j)
      BY <1>8
    <2>3. Birth(j) => There(Root)' /\ \A c \in Region : [child |-> c, by |-> j.by] \in spawns'
      BY <1>6, <1>8
    <2>4. ~j.stray /\ j.id.kind = "Start" => There(j.x)'
      BY <1>5
    <2>5. QED
      BY <1>9, <2>1, <2>2, <2>3, <2>4, JobOver
  <1>12. Copies'
    <2>1. \A y \in Exec : There(y)' \/ exe'[y] = Absent
      BY <1>4, <1>5, DHere DEF Copies
    <2>2. ASSUME NEW y \in Exec, NEW c \in Record, CopyOf(c, y), c.ver <= exe[y].ver
          PROVE  CopyOf(c, y)'
      <3>1. CASE y # x
        BY <1>4, <2>2, <3>1 DEF CopyOf
      <3>2. CASE y = x
        <4>1. c.ver \in Nat /\ c.ver <= v /\ exe'[y].ver = v + 1
          BY <1>3, <1>4, <2>2, <3>2 DEF Record
        <4>2. c.ver # exe'[y].ver
          BY <1>1, <4>1
        <4>3. QED
          BY <4>2 DEF CopyOf
      <3>3. QED
        BY <3>1, <3>2
    <2>3. \A i \in jobs' : CopyOf(i.rec, i.x)'
      BY <2>2, JobsHere, DHere DEF Copies, JobState, JobOK
    <2>4. ASSUME NEW q \in Caller
          PROVE  CopyOf(caller[q].rec, Root)'
      <3>1. caller[q].rec \in Record /\ caller[q].rec.ver <= exe[Root].ver /\ CopyOf(caller[q].rec, Root)
        BY CallHere, DHere DEF CallState, CallerOK, Copies
      <3>2. PICK c \in Record : c = caller[q].rec
        BY <3>1
      <3>3. CopyOf(c, Root)'
        BY <2>2, <3>1, <3>2, InExec
      <3>4. c = caller'[q].rec
        BY <1>10, <3>2
      <3>5. QED
        BY <3>3, <3>4 DEF CopyOf
    <2>5. QED
      BY <2>1, <2>3, <2>4 DEF Copies
  <1>13. Rooted'
    BY <1>6 DEF Rooted
  <1>14. /\ outbox' \in Seq(Good)
         /\ \A n \in DOMAIN outbox : n \in DOMAIN outbox' /\ outbox'[n] = outbox[n]
         /\ \A i \in DOMAIN s.emits : \E n \in DOMAIN outbox' : outbox'[n].id = s.emits[i].id
    <2>1. outbox' = outbox \o [i \in DOMAIN s.emits |-> Row(s.emits[i].to, s.emits[i].id, p)]
      BY DEF Commit
    <2>2. QED
      BY <1>1, <2>1, AppendedRows, DHere
  <1>15. Reported'
    <2>1. ASSUME NEW y \in Region, exe'[y].status = "DONE"
          PROVE  y \in exe'[Root].done \/ \E n \in DOMAIN outbox' : Report(outbox'[n]) /\ outbox'[n].id.of = y
      <3>1. CASE exe[y].status = "DONE"
        <4>1. y \in exe[Root].done \/ \E n \in DOMAIN outbox : Report(outbox[n]) /\ outbox[n].id.of = y
          BY <3>1, DHere DEF Reported
        <4>2. QED
          BY <1>7, <1>14, <4>1 DEF Report
      <3>2. CASE exe[y].status # "DONE"
        <4>1. y = x
          BY <1>4, <2>1, <3>2, InExec
        <4>2. s.emits = Finished(y)
          BY <1>2, <1>3, <1>4, <2>1, <3>2, <4>1 DEF Leaves
        <4>3. 1 \in DOMAIN s.emits /\ s.emits[1].id.kind = "Finished" /\ s.emits[1].id.of = y
          BY <4>2 DEF Finished, Id
        <4>4. PICK n \in DOMAIN outbox' : outbox'[n].id = s.emits[1].id
          BY <1>14, <4>3
        <4>5. QED
          BY <4>3, <4>4 DEF Report
      <3>3. QED
        BY <3>1, <3>2
    <2>2. QED
      BY <2>1 DEF Reported, Report
  <1>16. Recorded'
    <2>1. ASSUME NEW id \in processed'[Root], id.kind = "Finished"
          PROVE  id.of \in exe'[Root].done
      <3>1. CASE id \in processed[Root]
        BY <1>7, <2>1, <3>1, DHere DEF Recorded
      <3>2. CASE id \notin processed[Root]
        <4>1. x = Root /\ id = j.id
          BY <2>1, <3>2, <1>1, InExec, DHere DEF Commit, IInv, TypeOK
        <4>2. QED
          BY <1>3, <1>4, <2>1, <4>1 DEF Leaves
      <3>3. QED
        BY <3>1, <3>2
    <2>2. QED
      BY <2>1 DEF Recorded
  <1>17. \A k \in spawns' : k \in spawns \/ k.by = p
    BY <1>8
  <1> HIDE DEF p
  <1>18. (\A i \in jobs' : i.by # p => i \in jobs) /\ (\A i \in jobs : i.by # p => i \in jobs')
    BY DEF p
  <1>19. QED
    BY <1>1, <1>9, <1>10, <1>11, <1>12, <1>13, <1>14, <1>15, <1>16, <1>17, <1>18, OneSettles

LEMMA SubFlowSettles ==
  ASSUME DInv, SInv', NEW j \in jobs, SubFlow(j) \/ ActionRaises(j)
  PROVE  DInv'
  <1>1. j \in JobState /\ j.x \in Exec /\ j.rec \in Record /\ j.id \in EventId /\ j.by \in Caller
    BY JobsHere, DHere DEF JobState
  <1>2. CASE JobCommit(j)
    <2> DEFINE s == Step(j.x, j.rec, j.id)
    <2>1. Sound(s)
      BY <1>1, StepType
    <2>2. Leaves(j.x, j.rec, j.id, s)
      <3>1. j.id.kind = "Start" /\ j.x = Root => j.rec = Absent
        BY <1>1, DHere DEF Settling, Bearing, Birth
      <3>2. QED
        BY <1>1, <3>1, StepLeaves
    <2>3. /\ j.at = "commit" /\ Wins(j.x, j.rec)
          /\ Commit(j.by, j.x, j.id, s) /\ jobs' = jobs \ {j} /\ Over(j, TRUE)
      BY <1>2 DEF JobCommit, Becomes
    <2> HIDE DEF s
    <2>4. QED
      BY <2>1, <2>2, <2>3, CommitSettles
  <1>3. CASE JobRearm(j)
    <2> DEFINE s == Rearmed(j.rec)
    <2>1. j.at = "rearm" /\ Wins(j.x, j.rec) /\ Commit(j.by, j.x, j.id, s) /\ jobs' = jobs \ {j} /\ UNCHANGED caller
      BY <1>3 DEF JobRearm, Becomes
    <2>2. j.x = Root /\ j.id.kind \in Event
      BY <1>1, <2>1, DHere DEF DInv, SInv, Rearms, Settling, Asking
    <2>3. j.id.kind # "Finished" /\ j.id.kind # "Timeout"
      BY <2>2, HostsAssumption
    <2>4. Sound(s) /\ Leaves(j.x, j.rec, j.id, s)
      BY <1>1, <2>2, <2>3, RearmedType, RearmedLeaves
    <2>5. ~(caller[j.by].at = "fired" /\ ~j.stray)
      BY <2>3, Fired DEF DInv
    <2>6. Over(j, TRUE)
      BY <2>1, <2>5 DEF Over
    <2> HIDE DEF s
    <2>7. QED
      BY <2>1, <2>4, <2>6, CommitSettles
  <1>4. CASE JobLoad(j) \/ IsProcessed(j)
    BY <1>4, JobLoadSettles, IsProcessedSettles
  <1>5. CASE StoreConflict(j)
    BY <1>5, RaisesSettles DEF StoreConflict
  <1>6. CASE ActionRaises(j)
    <2>1. CASE Policy = "fail" /\ Kind[j.by] # "sync"
      <3> DEFINE r == [j.rec EXCEPT !.status = "FAILED"]
                 s == Failed(j.rec)
      <3>1. r \in Record /\ r.status = "FAILED"
        BY <1>1 DEF Record, Statuses
      <3>2. s = Stay(r)
        BY DEF Failed
      <3>3. /\ j.at = "commit" /\ Wins(j.x, j.rec) /\ j.x \in Region
            /\ Commit(j.by, j.x, j.id, s) /\ jobs' = jobs \ {j} /\ Over(j, TRUE)
        BY <1>6, <2>1 DEF ActionRaises, Becomes
      <3> HIDE DEF s, r
      <3>4. Sound(s) /\ s.rec = r /\ DOMAIN s.emits = {}
        BY <3>1, <3>2, StayType, StayLeaves
      <3>5. Leaves(j.x, j.rec, j.id, s)
        BY <3>1, <3>3, <3>4, HostsAssumption DEF Leaves
      <3>6. QED
        BY <3>3, <3>4, <3>5, CommitSettles
    <2>2. CASE ~(Policy = "fail" /\ Kind[j.by] # "sync")
      BY <1>6, <2>2, RaisesSettles DEF ActionRaises
    <2>3. QED
      BY <2>1, <2>2
  <1>7. QED
    BY <1>2, <1>3, <1>4, <1>5, <1>6 DEF SubFlow
-----------------------------------------------------------------------------
(* Around the callers *)

LEMMA TurnedSettles ==
  ASSUME DInv, SInv', Suspend \/ Resume
  PROVE  DInv'
  <1>1. UNCHANGED <<processed, outbox, spawns, caller, jobs>>
    BY DEF Suspend, Resume
  <1>2. PICK from \in {"RUNNING", "SUSPENDED"}, to \in {"RUNNING", "SUSPENDED"} : Turned(from, to)
    BY DEF Suspend, Resume
  <1>3. ASSUME NEW x \in Exec
        PROVE  /\ exe'[x] = exe[x] \/ (There(x) /\ exe'[x].ver = exe[x].ver + 1)
               /\ exe'[x].done = exe[x].done
               /\ exe'[x].status = "DONE" <=> exe[x].status = "DONE"
    <2>1. exe[x] \in Record /\ to \in Statuses
      BY RecordHere, DHere DEF Statuses
    <2> DEFINE turned == [exe[x] EXCEPT !.status = to, !.ver = @ + 1]
    <2>2. exe'[x] = IF exe[x].status = from THEN turned ELSE exe[x]
      BY <1>2 DEF Turned
    <2>3. turned.ver = exe[x].ver + 1
      BY <2>1, TurnedRecord
    <2>4. turned.status = to /\ turned.done = exe[x].done
      BY <2>1 DEF Record
    <2>5. exe[x].status = from => There(x)
      BY ThereOrAbsent DEF Absent
    <2> HIDE DEF turned
    <2>6. QED
      BY <2>2, <2>3, <2>4, <2>5
  <1>4. \A x \in Exec : exe[x].ver \in Nat
    BY RecordHere, DHere
  <1>5. \A x \in Exec : There(x)' <=> There(x)
    BY <1>3, <1>4 DEF There
  <1>6. Grown
    BY <1>1, <1>3, <1>5, InExec DEF Grown
  <1>7. \A q \in Caller : Settling(q)'
    BY <1>1, <1>6, Kept DEF Own
  <1>8. ASSUME NEW x \in Exec, NEW c \in Record, CopyOf(c, x), c.ver <= exe[x].ver
        PROVE  CopyOf(c, x)'
    <2>1. c.ver \in Nat
      BY DEF Record
    <2>2. exe'[x] = exe[x] \/ c.ver # exe'[x].ver
      BY <1>3, <1>4, <1>8, <2>1
    <2>3. QED
      BY <1>8, <2>2 DEF CopyOf
  <1>9. Copies'
    <2>1. \A x \in Exec : There(x)' \/ exe'[x] = Absent
      BY <1>3, <1>5, DHere DEF Copies
    <2>2. \A i \in jobs : CopyOf(i.rec, i.x)'
      BY <1>8, JobsHere, DHere DEF Copies, JobState, JobOK
    <2>3. ASSUME NEW q \in Caller
          PROVE  CopyOf(caller[q].rec, Root)'
      <3>1. caller[q].rec \in Record /\ caller[q].rec.ver <= exe[Root].ver /\ CopyOf(caller[q].rec, Root)
        BY CallHere, DHere DEF CallState, CallerOK, Copies
      <3>2. PICK c \in Record : c = caller[q].rec
        BY <3>1
      <3>3. CopyOf(c, Root)'
        BY <1>8, <3>1, <3>2, InExec
      <3>4. c = caller'[q].rec
        BY <1>1, <3>2
      <3>5. QED
        BY <3>3, <3>4 DEF CopyOf
    <2>4. QED
      BY <1>1, <2>1, <2>2, <2>3 DEF Copies
  <1>10. Rooted'
    BY <1>1, <1>5, InExec, DHere DEF Rooted, Empty
  <1>11. Reported' /\ Recorded' /\ outbox' \in Seq(Good)
    BY <1>1, <1>3, InExec, DHere DEF Reported, Recorded, Report
  <1>12. QED
    BY <1>7, <1>9, <1>10, <1>11 DEF DInv

LEMMA SettledInit == Init => DInv
  <1> SUFFICES ASSUME Init PROVE DInv
    OBVIOUS
  <1>1. SInv
    BY SweepsInit
  <1>2. /\ exe = [x \in Exec |-> Absent] /\ outbox = <<>> /\ spawns = {} /\ jobs = {}
        /\ caller = [p \in Caller |-> Idle] /\ processed = [x \in Exec |-> {}]
    BY DEF Init
  <1>3. Absent.status = "absent" /\ Idle.rec = Absent /\ Empty(Idle)
    BY DEF Absent, Idle, Empty
  <1>4. Absent.ver = 0
    BY DEF Absent
  <1>5. Copies /\ Rooted
    BY <1>2, <1>3, <1>4, InExec DEF Copies, Rooted, CopyOf, There
  <1>6. ASSUME NEW p \in Caller
        PROVE  Settling(p)
    <2>1. caller[p] = Idle /\ ~\E j \in jobs : TRUE
      BY <1>2
    <2>2. Asking(p) /\ Bearing(p)
      BY <2>1 DEF Asking, Bearing, Idle
    <2>3. Drained(p) /\ Born(p) /\ Creating(p)
      BY <2>1 DEF Drained, Born, Creating, Idle
    <2>4. <<>> \in Seq(Good)
      OBVIOUS
    <2>5. Telling(p)
      BY <2>1, <2>4 DEF Telling, Idle
    <2>6. QED
      BY <2>2, <2>3, <2>5 DEF Settling
  <1>7. outbox \in Seq(Good)
    BY <1>2
  <1>8. Reported /\ Recorded
    BY <1>2, <1>3, InExec DEF Reported, Recorded
  <1>9. QED
    BY <1>1, <1>5, <1>6, <1>7, <1>8 DEF DInv

LEMMA SettledKept == DInv /\ [Next]_vars => DInv'
  <1> SUFFICES ASSUME DInv, [Next]_vars PROVE DInv'
    OBVIOUS
  <1>1. SInv'
    BY SweepsKept DEF DInv
  <1>2. CASE UNCHANGED vars
    <2>1. UNCHANGED <<exe, processed, outbox, spawns, caller, jobs>>
      BY <1>2 DEF vars
    <2>2. \A q \in Caller : Settling(q)'
      BY <2>1, SameStays, Kept DEF Own
    <2>3. Copies' /\ Rooted'
      BY <2>1, DHere DEF Copies, CopyOf, Rooted, There, Empty
    <2>4. Reported' /\ Recorded' /\ outbox' \in Seq(Good)
      BY <2>1, DHere DEF Reported, Recorded, Report
    <2>5. QED
      BY <1>1, <2>2, <2>3, <2>4 DEF DInv
  <1>3. ASSUME NEW p \in Caller, Works(p)
        PROVE  DInv'
    <2>1. CASE \E x \in Region : LoadTarget(p, x)
      BY <1>1, <2>1, LoadTargetSettles
    <2>2. CASE NoRegionAlive(p) \/ Rearm(p)
      BY <1>1, <2>2, TargetsSettle
    <2>3. CASE Flush(p)
      BY <1>1, <2>3, ReadSpawnsSettles, ReadOutboxSettles, CreateChildrenSettles, AckSpawnSettles,
         DeliverRowSettles, AckOutboxSettles DEF Flush
    <2>4. CASE SweepNext(p) \/ DeleteTimer(p)
      BY <1>1, <2>4, SweepNextSettles, DeleteTimerSettles
    <2>5. CASE \E j \in jobs : j.by = p /\ SubFlow(j)
      BY <1>1, <2>5, SubFlowSettles
    <2>6. QED
      BY <1>3, <2>1, <2>2, <2>3, <2>4, <2>5 DEF Works
  <1>4. ASSUME NEW p \in Caller, Create(p) \/ Recover(p) \/ FireDueTimers(p) \/ Crash(p)
        PROVE  DInv'
    BY <1>1, <1>4, CreateSettles, RecoverSettles, CrashSettles
  <1>5. ASSUME NEW p \in Caller, NEW e \in Event, Process(p, e)
        PROVE  DInv'
    BY <1>1, <1>5, ProcessSettles
  <1>6. CASE (\E j \in jobs : ActionRaises(j)) \/ Suspend \/ Resume
    BY <1>1, <1>6, SubFlowSettles, TurnedSettles
  <1>7. QED
    BY <1>2, <1>3, <1>4, <1>5, <1>6 DEF Next
-----------------------------------------------------------------------------
(* A call returns by a read of the outbox, and by nothing else. *)

LEMMA OnlyOne ==
  ASSUME DInv, NEW p \in Caller, NEW c, caller' = [caller EXCEPT ![p] = c], NEW q \in Caller,
         caller'[q] # caller[q]
  PROVE  q = p
  BY CallerAt, DHere

LEMMA WorksReturns ==
  ASSUME DInv, NEW p \in Caller, Works(p), NEW q \in Caller, caller[q].at = "outbox", caller'[q] = Idle
  PROVE  ReadOutbox(q)
  <1>1. caller'[q] # caller[q]
    BY DEF Idle
  <1>2. Own(q) = {}
    BY Resting DEF Quiet
  <1>3. CASE \E x \in Region : LoadTarget(p, x)
    <2>1. caller[p].at = "targets" /\ \E c : caller' = [caller EXCEPT ![p] = c]
      BY <1>3 DEF LoadTarget
    <2>2. QED
      BY <1>1, <2>1, OnlyOne
  <1>4. CASE NoRegionAlive(p) \/ Rearm(p)
    <2>1. caller[p].at = "targets" /\ \E c : caller' = [caller EXCEPT ![p] = c]
      BY <1>4 DEF NoRegionAlive, Rearm, Flushes
    <2>2. QED
      BY <1>1, <2>1, OnlyOne
  <1>5. CASE ReadSpawns(p) \/ CreateChildren(p) \/ AckSpawn(p) \/ DeliverRow(p) \/ AckOutbox(p)
    <2>1. caller[p].at # "outbox"
      BY <1>5 DEF ReadSpawns, CreateChildren, AckSpawn, DeliverRow, AckOutbox
    <2>2. \A r \in Caller : r # p => caller'[r] = caller[r]
      BY <1>5, DHere DEF ReadSpawns, CreateChildren, AckSpawn, DeliverRow, AckOutbox, Goes, IInv, TypeOK
    <2>3. QED
      BY <1>1, <2>1, <2>2
  <1>6. CASE ReadOutbox(p)
    <2>1. \E c : caller' = [caller EXCEPT ![p] = c]
      BY <1>6 DEF ReadOutbox, Goes, Ends
    <2>2. QED
      BY <1>1, <1>6, <2>1, OnlyOne
  <1>7. CASE SweepNext(p) \/ DeleteTimer(p)
    <2>1. caller[p].at # "outbox"
      BY <1>7 DEF SweepNext, DeleteTimer
    <2>2. \A r \in Caller : r # p => caller'[r] = caller[r]
      BY <1>7, DHere DEF SweepNext, DeleteTimer, Ends, IInv, TypeOK
    <2>3. QED
      BY <1>1, <2>1, <2>2
  <1>8. ASSUME NEW j \in jobs, j.by = p, SubFlow(j)
        PROVE  FALSE
    <2>1. CASE StoreConflict(j)
      <3>1. ~j.stray /\ Ends(p)
        BY <1>1, <1>8, <2>1 DEF StoreConflict, Raises
      <3>2. q = p
        BY <1>1, <3>1, OnlyOne DEF Ends
      <3>3. j \in Own(q)
        BY <1>8, <3>1, <3>2 DEF Own
      <3>4. QED
        BY <1>2, <3>3
    <2>2. CASE JobLoad(j) \/ IsProcessed(j) \/ JobCommit(j) \/ JobRearm(j)
      <3>1. UNCHANGED caller \/ \E ran \in BOOLEAN : Over(j, ran)
        BY <2>2 DEF JobLoad, IsProcessed, JobCommit, JobRearm
      <3>2. PICK ran \in BOOLEAN : Over(j, ran)
        BY <1>1, <3>1
      <3>3. q = p /\ caller[q].at = "fired"
        BY <1>1, <1>8, <3>2, OverAt, DHere
      <3>4. QED
        BY <3>3
    <2>3. QED
      BY <1>8, <2>1, <2>2 DEF SubFlow
  <1>9. QED
    BY <1>3, <1>4, <1>5, <1>6, <1>7, <1>8 DEF Works, Flush

LEMMA Returning ==
  ASSUME DInv, [Next]_vars, NEW q \in Caller, Returns(q)
  PROVE  ReadOutbox(q)
  <1>1. caller[q].at = "outbox" /\ caller'[q] = Idle /\ caller'[q] # caller[q] /\ faults' = faults
    BY DEF Returns, Idle
  <1>2. faults + 1 # faults
    BY BoundsHere, DHere
  <1>3. CASE UNCHANGED vars
    BY <1>1, <1>3 DEF vars
  <1>4. ASSUME NEW p \in Caller, Create(p) \/ Recover(p) \/ FireDueTimers(p) \/ \E e \in Event : Process(p, e)
        PROVE  FALSE
    <2>1. caller[p].at = "idle" /\ \E c : caller' = [caller EXCEPT ![p] = c]
      BY <1>4 DEF Create, Recover, FireDueTimers, Process, Begins
    <2>2. QED
      BY <1>1, <2>1, OnlyOne
  <1>5. ~(\E p \in Caller : Crash(p)) /\ ~(\E j \in jobs : ActionRaises(j))
    BY <1>1, <1>2 DEF Crash, ActionRaises, Faulty
  <1>6. ~(Suspend \/ Resume)
    BY <1>1 DEF Suspend, Resume
  <1>7. ASSUME NEW p \in Caller, Works(p)
        PROVE  ReadOutbox(q)
    BY <1>1, <1>7, WorksReturns
  <1>8. QED
    BY <1>3, <1>4, <1>5, <1>6, <1>7 DEF Next

LEMMA ReturnSettles ==
  ASSUME DInv, [Next]_vars, NEW p \in Caller, Returns(p)
  PROVE  /\ Pending(p) = {}
         /\ caller[p].op = "create" => \A x \in Exec : exe[x] # Absent
         /\ \A x \in Region : exe[x].status = "DONE" => x \in exe[Root].done
  <1>1. ReadOutbox(p) /\ caller[p].at = "outbox" /\ caller'[p] = Idle
    BY Returning DEF Returns
  <1>2. outbox = <<>> /\ ~caller[p].found
    <2>1. SUFFICES ASSUME ~(outbox = <<>> /\ ~caller[p].found)
                   PROVE  FALSE
      OBVIOUS
    <2> DEFINE at == IF caller[p].kids # {} THEN "create" ELSE IF outbox = <<>> THEN "spawns" ELSE "rows"
               next == [caller[p] EXCEPT !.rows = outbox, !.found = FALSE, !.at = at]
    <2>2. caller' = [caller EXCEPT ![p] = next]
      BY <1>1, <2>1 DEF ReadOutbox
    <2>3. next.at = at
      BY CallHere, DHere DEF CallState
    <2>4. at # "idle"
      OBVIOUS
    <2> HIDE DEF next, at
    <2>5. caller'[p] = next
      BY <2>2, CallerAt, DHere
    <2>6. QED
      BY <1>1, <2>3, <2>4, <2>5 DEF Idle
  <1>3. \A k \in spawns : k.by # p
    BY <1>1, <1>2, DHere DEF Settling, Drained
  <1>4. Own(p) = {}
    BY <1>1, Resting DEF Quiet
  <1>5. Pending(p) = {}
    BY <1>2, <1>3 DEF Pending, Range
  <1>6. ASSUME caller[p].op = "create", NEW x \in Exec
        PROVE  exe[x] # Absent
    <2>1. There(Root) /\ \A y \in Region : There(y) \/ [child |-> y, by |-> p] \in spawns
      BY <1>4, <1>6, DHere DEF Settling, Born
    <2>2. There(x)
      BY <1>3, <2>1 DEF Exec
    <2>3. QED
      BY <2>2, ThereOrAbsent
  <1>7. \A x \in Region : exe[x].status = "DONE" => x \in exe[Root].done
    BY <1>2, DHere DEF Reported
  <1>8. QED
    BY <1>5, <1>6, <1>7

\* DurableRunner.create, process, recover and fire_due_timers return when a whole round of their
\* flush found nothing pending: whatever calls overlap, lose their commit, raise or crash, a call
\* that returns leaves none of its own rows and children behind, a family it created is there
\* whole, and every region that ended by then is counted in its root's join.
THEOREM CallsSettle == Spec => ReturnsSettled
  <1> DEFINE P == \A p \in Caller : Returns(p) =>
                    /\ Pending(p) = {}
                    /\ caller[p].op = "create" => \A x \in Exec : exe[x] # Absent
                    /\ \A x \in Region : exe[x].status = "DONE" => x \in exe[Root].done
  <1>1. DInv /\ [Next]_vars => P
    BY ReturnSettles
  <1>2. Spec => []DInv
    BY SettledInit, SettledKept, PTL DEF Spec
  <1>3. Spec => [][P]_vars
    BY <1>1, <1>2, PTL DEF Spec
  <1>4. QED
    BY <1>3 DEF ReturnsSettled
=============================================================================
