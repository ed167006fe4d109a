---------------------------- MODULE ControlProofs ----------------------------
(***************************************************************************)
(* What the control plane does to a record, for any executions, callers    *)
(* and bounds.  A command decides on a copy and commits by version, so the *)
(* argument is that a copy at the record's version is the record, which    *)
(* holds as long as no id lives twice: versions start again with an id.    *)
(* `ids` are the executions it is made about.                              *)
(***************************************************************************)
EXTENDS Control, TLAPS

Gone(x) == x \in {a[1] : a \in archived}

\* A copy of the record of x: older, or the record itself; and what it is a copy of was there.
Snapshot(x, r) ==
  /\ r.version > 0
  /\ Exists(x) => r.version <= exe[x].version /\ (r.version = exe[x].version => r = exe[x])
  /\ ~Exists(x) => Gone(x)

\* What a job is about to commit was allowed by the copy it holds.
Decided(command, r) ==
  /\ r.status \notin Finished
  /\ command = "redrive" => r.status = "FAILED" /\ Unfinished(r) = {}

JobOK(ids, command, j) ==
  /\ command \notin {"none", "purge"}
  /\ j.at = "commit" => Decided(command, j.rec) /\ (j.x \in ids => Snapshot(j.x, j.rec))

\* What a purge is about to delete is finished, and was archived as it is in the copy.
MemberOK(ids, at, m) ==
  /\ m.x \in ids => Snapshot(m.x, m.rec)
  /\ at = "delete" => m.rec.status \in Finished /\ <<m.x, m.rec.version>> \in archived

FlowOK(ids, f) ==
  /\ \A j \in f.jobs : JobOK(ids, f.command, j)
  /\ \A m \in f.tree : MemberOK(ids, f.at, m)

IInv(ids) == TypeOK /\ \A p \in Caller : FlowOK(ids, proc[p])
-----------------------------------------------------------------------------
(* Types *)

LEMMA AbsentType == Absent \in Record /\ Started \in Record /\ DeadLetter \in Record
  <1>1. Absent \in Record
    BY DEF Absent, Record, Statuses, Place, Leaf, Digest
  <1>2. Started \in Record
    BY <1>1 DEF Started, Record, Statuses
  <1>3. DeadLetter \in Record
    BY <1>1 DEF DeadLetter, Record, Statuses, Place
  <1>4. QED
    BY <1>1, <1>2, <1>3

LEMMA LeftType == ASSUME NEW r \in Record PROVE Left(r) \in Record /\ Left(r).status = r.status
  BY DEF Left, Record

LEMMA BrokenType ==
  ASSUME NEW r \in Record
  PROVE  Broken(r) \subseteq {s \in Record : s.status = "FAILED"}
  <1> DEFINE failed == [r EXCEPT !.status = "FAILED", !.error = TRUE]
  <1>1. failed \in Record /\ failed.status = "FAILED"
    BY DEF Record, Statuses
  <1>2. Left(failed) \in Record /\ Left(failed).status = "FAILED"
    BY <1>1, LeftType
  <1> HIDE DEF failed
  <1>3. [Left(failed) EXCEPT !.place = "composite"] \in {s \in Record : s.status = "FAILED"}
    BY <1>2 DEF Record, Place
  <1>4. Broken(r) = {failed, [Left(failed) EXCEPT !.place = "composite"]}
    BY DEF Broken, failed
  <1>5. QED
    BY <1>1, <1>3, <1>4

LEMMA ParentIsRoot == ASSUME NEW c \in Exec \ Root PROVE ParentOf(c) \in Root /\ ParentOf(c) \in Exec
  <1>1. \E x \in Root : \E n \in 1..MaxEntries : RegionOf[x][n] = c
    BY ControlAssumption
  <1>2. QED
    BY <1>1, ControlAssumption DEF ParentOf

LEMMA NewJobType ==
  ASSUME NEW x \in Exec, NEW at \in {"check", "load", "commit", "follow", "look"}
  PROVE  NewJob(x, at) \in Job /\ NewJob(x, at).at = at
  BY AbsentType, ControlAssumption DEF NewJob, Job

LEMMA IdleType == Idle \in Flow
  BY DEF Idle, Flow, Place, Leaf

LEMMA IdleOK == ASSUME NEW ids PROVE FlowOK(ids, Idle)
  BY DEF Idle, FlowOK

\* A job that goes on keeps a copy only of what it loaded.
LEMMA JobMoves ==
  ASSUME NEW j \in Job, NEW at \in {"check", "load", "commit", "follow", "look"}
  PROVE  [j EXCEPT !.at = at] \in Job /\ [j EXCEPT !.at = at].at = at
  BY DEF Job

LEMMA AfterType ==
  ASSUME NEW p, NEW j \in Job
  PROVE  After(p, j) \subseteq {k \in Job : k.at # "commit"}
  <1>1. [j EXCEPT !.at = "follow"] \in Job /\ [j EXCEPT !.at = "follow"].at = "follow"
    BY JobMoves
  <1>2. QED
    BY <1>1 DEF After

\* A flow one of whose jobs becomes other jobs.
LEMMA ReplaceOK ==
  ASSUME NEW ids, TypeOK, NEW p \in Caller, FlowOK(ids, proc[p]), NEW j \in proc[p].jobs,
         NEW jobs \in SUBSET Job, \A k \in jobs : JobOK(ids, proc[p].command, k)
  PROVE  Replace(p, j, jobs) \in Flow /\ FlowOK(ids, Replace(p, j, jobs))
  <1> DEFINE f == proc[p]
             g == [f EXCEPT !.jobs = (f.jobs \ {j}) \cup jobs]
  <1>1. f \in Flow
    BY DEF TypeOK
  <1>2. (f.jobs \ {j}) \cup jobs \subseteq Job
    BY <1>1 DEF Flow
  <1> HIDE DEF f
  <1>3. /\ g \in Flow /\ g.jobs = (f.jobs \ {j}) \cup jobs
        /\ g.command = f.command /\ g.tree = f.tree /\ g.at = f.at
    BY <1>1, <1>2 DEF Flow
  <1>4. g = Replace(p, j, jobs)
    BY DEF f, Replace, Rest
  <1>5. FlowOK(ids, f)
    BY DEF f
  <1>6. FlowOK(ids, g)
    BY <1>3, <1>5 DEF FlowOK, f
  <1>7. QED
    BY <1>3, <1>4, <1>6

LEMMA ProcType == TypeOK => \A p \in Caller : proc[p] \in Flow
  BY DEF TypeOK

-----------------------------------------------------------------------------
(* What a step does to the records *)

\* A commit the code allows: of an execution that is there, or is being created.
Lawful(x, r, cause) ==
  /\ r \in Record /\ cause \in Causes
  /\ Exists(x) \/ x \notin Root
  /\ Exists(x) /\ exe[x].status \in Finished => r.status = exe[x].status \/ cause = "Reset"
  /\ cause = "redrive" => exe[x].status = "FAILED" /\ Unfinished(exe[x]) = {}

Removes(x) ==
  /\ exe' = [exe EXCEPT ![x] = Absent] /\ step' = [step EXCEPT ![x] = "none"]
  /\ Exists(x) => exe[x].status \in Finished /\ <<x, exe[x].version>> \in archived

\* A record of no interest may be anything its type allows.
RecordsMove(ids) ==
  \/ UNCHANGED <<exe, step>>
  \/ \E x \in Exec : \E r \in Record, cause \in Causes :
       (x \in ids => Lawful(x, r, cause)) /\ Commit(x, r, cause)
  \/ \E x \in Exec : (x \in ids => Removes(x)) /\ exe' = [exe EXCEPT ![x] = Absent]
                     /\ step' = [step EXCEPT ![x] = "none"]

\* The callers' flows: one may move to a flow that is right now, or right next.
FlowsMove(ids) ==
  \/ UNCHANGED proc
  \/ \E p \in Caller, f \in Flow : Become(p, f) /\ (FlowOK(ids, f) \/ FlowOK(ids, f)')

QueuesTyped ==
  /\ spawns \subseteq Exec \ Root /\ creating \subseteq Exec \ Root
  /\ cancels \subseteq Exec /\ reports \subseteq Exec \ Root
  /\ archived \subseteq Exec \X Nat

Step(ids) == RecordsMove(ids) /\ FlowsMove(ids) /\ QueuesTyped' /\ archived \subseteq archived'

LEMMA CommitType ==
  ASSUME TypeOK, NEW x \in Exec, NEW r \in Record, NEW cause \in Causes, Commit(x, r, cause)
  PROVE  /\ exe' \in [Exec -> Record] /\ step' \in [Exec -> Causes]
         /\ exe'[x] = [r EXCEPT !.version = exe[x].version + 1] /\ step'[x] = cause
         /\ exe'[x].version = exe[x].version + 1 /\ exe'[x].status = r.status
         /\ \A y \in Exec \ {x} : exe'[y] = exe[y] /\ step'[y] = step[y]
  <1>1. exe[x] \in Record /\ exe[x].version + 1 \in Nat /\ exe[x].version + 1 > 0
    BY DEF TypeOK, Record
  <1>2. [r EXCEPT !.version = exe[x].version + 1] \in Record
    BY <1>1 DEF Record
  <1>3. QED
    BY <1>1, <1>2 DEF TypeOK, Commit, Record

LEMMA RemoveType ==
  ASSUME TypeOK, NEW x \in Exec, exe' = [exe EXCEPT ![x] = Absent], step' = [step EXCEPT ![x] = "none"]
  PROVE  /\ exe' \in [Exec -> Record] /\ step' \in [Exec -> Causes]
         /\ exe'[x].version = 0
         /\ \A y \in Exec \ {x} : exe'[y] = exe[y] /\ step'[y] = step[y]
  <1>1. Absent \in Record /\ Absent.version = 0
    BY AbsentType DEF Absent
  <1>2. QED
    BY <1>1 DEF TypeOK, Causes

LEMMA RecordsTyped ==
  ASSUME NEW ids, TypeOK, RecordsMove(ids)
  PROVE  exe' \in [Exec -> Record] /\ step' \in [Exec -> Causes]
  <1>1. CASE UNCHANGED <<exe, step>>
    BY <1>1 DEF TypeOK
  <1>2. ASSUME NEW x \in Exec, NEW r \in Record, NEW cause \in Causes, Commit(x, r, cause)
        PROVE  exe' \in [Exec -> Record] /\ step' \in [Exec -> Causes]
    BY <1>2, CommitType
  <1>3. ASSUME NEW x \in Exec, exe' = [exe EXCEPT ![x] = Absent], step' = [step EXCEPT ![x] = "none"]
        PROVE  exe' \in [Exec -> Record] /\ step' \in [Exec -> Causes]
    BY <1>3, RemoveType
  <1>4. QED
    BY <1>1, <1>2, <1>3 DEF RecordsMove

\* A copy stays a copy, through commits, deletions and creations of ids that had no life.
LEMMA SnapshotStays ==
  ASSUME NEW ids, ids \subseteq Exec, TypeOK, Step(ids), OneLifeOf(ids),
         NEW x \in ids, NEW r \in Record, Snapshot(x, r)
  PROVE  Snapshot(x, r)'
  <1>0. x \in Exec /\ exe[x] \in Record /\ exe[x].version \in Nat /\ r.version \in Nat /\ archived \subseteq archived'
    BY DEF TypeOK, Record, Step
  <1>1. CASE UNCHANGED <<exe, step>>
    BY <1>0, <1>1 DEF Snapshot, Exists, Gone
  <1>2. ASSUME NEW y \in Exec, NEW s \in Record, NEW cause \in Causes, Commit(y, s, cause)
        PROVE  Snapshot(x, r)'
    <2>1. CASE y # x
      <3>1. exe'[x] = exe[x]
        BY <1>2, <2>1, CommitType, <1>0
      <3>2. QED
        BY <3>1, <1>0 DEF Snapshot, Exists, Gone
    <2>2. CASE y = x
      <3>1. exe'[x].version = exe[x].version + 1
        BY <1>2, <2>2, CommitType
      <3>2. Exists(x)' /\ exe'[x].version > 0
        BY <3>1, <1>0 DEF Exists
      <3>3. Exists(x)
        BY <3>2, <1>0 DEF OneLifeOf, Snapshot, Gone
      <3>4. QED
        BY <3>1, <3>2, <3>3, <1>0 DEF Snapshot
    <2>3. QED
      BY <2>1, <2>2
  <1>3. ASSUME NEW y \in Exec, y \in ids => Removes(y), exe' = [exe EXCEPT ![y] = Absent],
               step' = [step EXCEPT ![y] = "none"]
        PROVE  Snapshot(x, r)'
    <2>1. CASE y # x
      <3>1. exe'[x] = exe[x]
        BY <1>3, <2>1, RemoveType, <1>0
      <3>2. QED
        BY <3>1, <1>0 DEF Snapshot, Exists, Gone
    <2>2. CASE y = x
      <3>1. exe'[x].version = 0
        BY <1>3, <2>2, RemoveType
      <3>4. ~Exists(x)'
        BY <3>1 DEF Exists
      <3>2. Gone(x)
        <4>1. CASE Exists(x)
          <5>1. <<x, exe[x].version>> \in archived
            BY <1>3, <2>2, <4>1 DEF Removes
          <5>2. <<x, exe[x].version>>[1] = x
            OBVIOUS
          <5>3. QED
            BY <5>1, <5>2 DEF Gone
        <4>2. CASE ~Exists(x)
          BY <4>2 DEF Snapshot
        <4>3. QED
          BY <4>1, <4>2
      <3>3. Gone(x)'
        BY <3>2, <1>0 DEF Gone
      <3>5. r.version > 0
        BY DEF Snapshot
      <3>6. QED
        BY <3>3, <3>4, <3>5 DEF Snapshot
    <2>3. QED
      BY <2>1, <2>2
  <1>4. QED
    BY <1>1, <1>2, <1>3 DEF Step, RecordsMove

LEMMA FlowStays ==
  ASSUME NEW ids, ids \subseteq Exec, TypeOK, Step(ids), OneLifeOf(ids), NEW f \in Flow, FlowOK(ids, f)
  PROVE  FlowOK(ids, f)'
  <1>1. archived \subseteq archived'
    BY DEF Step
  <1>2. ASSUME NEW j \in f.jobs PROVE JobOK(ids, f.command, j)'
    <2>1. j.rec \in Record
      BY DEF Flow, Job
    <2>2. JobOK(ids, f.command, j)
      BY DEF FlowOK
    <2>3. QED
      BY <2>1, <2>2, SnapshotStays DEF JobOK
  <1>3. ASSUME NEW m \in f.tree PROVE MemberOK(ids, f.at, m)'
    <2>1. m.rec \in Record
      BY DEF Flow
    <2>2. MemberOK(ids, f.at, m)
      BY DEF FlowOK
    <2>3. QED
      BY <1>1, <2>1, <2>2, SnapshotStays DEF MemberOK
  <1>4. QED
    BY <1>2, <1>3 DEF FlowOK

LEMMA StepKeeps ==
  ASSUME NEW ids, ids \subseteq Exec, IInv(ids), Step(ids), OneLifeOf(ids)
  PROVE  IInv(ids)'
  <1>0. TypeOK /\ \A p \in Caller : proc[p] \in Flow /\ FlowOK(ids, proc[p])
    BY ProcType DEF IInv
  <1> DEFINE Job1(f, j) == /\ f.command \notin {"none", "purge"}
                           /\ j.at = "commit" => Decided(f.command, j.rec)
                           /\ j.at = "commit" /\ j.x \in ids => Snapshot(j.x, j.rec)'
             Found1(f, m) == /\ m.x \in ids => Snapshot(m.x, m.rec)'
                             /\ f.at = "delete" => m.rec.status \in Finished
                             /\ f.at = "delete" => <<m.x, m.rec.version>> \in archived'
             Right(f) == (\A j \in f.jobs : Job1(f, j)) /\ (\A m \in f.tree : Found1(f, m))
  <1>a. \A f \in Flow : FlowOK(ids, f)' => Right(f)
    BY DEF FlowOK, JobOK, MemberOK
  <1>b. \A f \in Flow : FlowOK(ids, f) => FlowOK(ids, f)'
    BY <1>0, FlowStays
  <1>1. proc' \in [Caller -> Flow] /\ \A p \in Caller : Right(proc'[p])
    <2> HIDE DEF Right
    <2>1. CASE UNCHANGED proc
      <3>1. \A p \in Caller : Right(proc[p])
        BY <1>0, <1>a, <1>b
      <3>2. QED
        BY <2>1, <3>1 DEF IInv, TypeOK
    <2>2. ASSUME NEW p \in Caller, NEW f \in Flow, Become(p, f), FlowOK(ids, f) \/ FlowOK(ids, f)'
          PROVE  proc' \in [Caller -> Flow] /\ \A q \in Caller : Right(proc'[q])
      <3>1. Right(f)
        BY <2>2, <1>a, <1>b
      <3>2. proc' = [proc EXCEPT ![p] = f]
        BY <2>2 DEF Become
      <3>3. \A q \in Caller : Right(proc[q])
        BY <1>0, <1>a, <1>b
      <3>4. proc \in [Caller -> Flow]
        BY <1>0 DEF TypeOK
      <3>5. QED
        BY <3>1, <3>2, <3>3, <3>4
    <2>3. QED
      BY <2>1, <2>2 DEF Step, FlowsMove
  <1>2. exe' \in [Exec -> Record] /\ step' \in [Exec -> Causes]
    BY <1>0, RecordsTyped DEF Step
  <1>3. TypeOK'
    BY <1>1, <1>2 DEF TypeOK, Step, QueuesTyped
  <1>4. ASSUME NEW p \in Caller PROVE FlowOK(ids, proc[p])'
    <2>1. ASSUME NEW j \in proc'[p].jobs PROVE JobOK(ids, proc[p].command, j)'
      BY <1>1, <2>1 DEF JobOK, Decided, Unfinished, Finished
    <2>2. ASSUME NEW m \in proc'[p].tree PROVE MemberOK(ids, proc[p].at, m)'
      BY <1>1, <2>2 DEF MemberOK, Finished
    <2>3. QED
      BY <2>1, <2>2 DEF FlowOK
  <1>5. QED
    BY <1>3, <1>4 DEF IInv
-----------------------------------------------------------------------------
(* Workers and relays *)

LEMMA AllowedStep ==
  ASSUME NEW ids, TypeOK, NEW x \in Exec, NEW r, NEW cause, Lawful(x, r, cause), Commit(x, r, cause),
         QueuesTyped', UNCHANGED <<proc, archived>>
  PROVE  Step(ids)
  <1>1. r \in Record /\ cause \in Causes
    BY DEF Lawful
  <1>2. RecordsMove(ids)
    BY <1>1 DEF RecordsMove
  <1>3. QED
    BY <1>2 DEF Step, FlowsMove

LEMMA ToldType == ASSUME TypeOK, NEW x \in Exec PROVE Told(exe[x]) \subseteq Exec
  BY DEF TypeOK, Record, Told, Unfinished

\* An event taken by an execution that runs may do anything to it but remove it.
LEMMA RunningLawful ==
  ASSUME NEW x \in Exec, NEW r \in Record, Exists(x), exe[x].status \notin Finished
  PROVE  Lawful(x, r, "event")
  BY DEF Lawful, Causes

LEMMA MovesStep ==
  ASSUME NEW ids, TypeOK, NEW x \in Exec, Moves(x)
  PROVE  Step(ids)
  <1>0. exe[x] \in Record /\ exe[x].status = "RUNNING" /\ Exists(x)
    BY DEF TypeOK, Moves, Work, Runs
  <1>1. PICK place \in Leaf : Commit(x, [Left(exe[x]) EXCEPT !.place = place], "event")
    BY DEF Moves
  <1>2. Left(exe[x]) \in Record
    BY <1>0, LeftType
  <1>3. [Left(exe[x]) EXCEPT !.place = place] \in Record
    BY <1>2 DEF Record, Place
  <1>4. Lawful(x, [Left(exe[x]) EXCEPT !.place = place], "event")
    BY <1>0, <1>3, RunningLawful DEF Finished
  <1>5. QueuesTyped'
    BY ToldType DEF Moves, QueuesTyped, TypeOK
  <1>6. QED
    BY <1>1, <1>4, <1>5, AllowedStep DEF Moves

LEMMA ForksStep ==
  ASSUME NEW ids, TypeOK, NEW x \in Exec, Forks(x)
  PROVE  Step(ids)
  <1> DEFINE c == RegionOf[x][exe[x].entry]
             r == [exe[x] EXCEPT !.place = "fork", !.children = {c}, !.finished = {}]
  <1>0. exe[x] \in Record /\ exe[x].status = "RUNNING" /\ Exists(x)
    BY DEF TypeOK, Forks, Work, Runs
  <1>1. c \in Exec \ Root
    <2>1. x \in Root /\ exe[x].entry \in 1..MaxEntries
      BY <1>0, ControlAssumption DEF Forks, Record
    <2>2. RegionOf[x] \in [1..MaxEntries -> Exec \ Root]
      BY <2>1, ControlAssumption
    <2>3. QED
      BY <2>1, <2>2
  <1>2. Commit(x, r, "event") /\ spawns' = spawns \cup {c}
    BY DEF Forks
  <1>3. r \in Record
    BY <1>0, <1>1 DEF Record, Place
  <1> HIDE DEF r, c
  <1>4. Lawful(x, r, "event")
    BY <1>0, <1>3, RunningLawful DEF Finished
  <1>5. QueuesTyped'
    BY <1>1, <1>2 DEF Forks, QueuesTyped, TypeOK
  <1>6. QED
    BY <1>2, <1>4, <1>5, AllowedStep DEF Forks

LEMMA FinishesStep ==
  ASSUME NEW ids, TypeOK, NEW x \in Exec, Finishes(x)
  PROVE  Step(ids)
  <1> DEFINE r == [Left(exe[x]) EXCEPT !.status = "DONE", !.place = "end"]
  <1>0. exe[x] \in Record /\ exe[x].status = "RUNNING" /\ Exists(x)
    BY DEF TypeOK, Finishes, Work, Runs
  <1>1. Left(exe[x]) \in Record
    BY <1>0, LeftType
  <1>2. Commit(x, r, "event")
    BY DEF Finishes
  <1>3. r \in Record
    BY <1>1 DEF Record, Place, Statuses
  <1> HIDE DEF r
  <1>4. Lawful(x, r, "event")
    BY <1>0, <1>3, RunningLawful DEF Finished
  <1>5. QueuesTyped'
    BY ToldType DEF Finishes, QueuesTyped, TypeOK, IsRegion
  <1>6. QED
    BY <1>2, <1>4, <1>5, AllowedStep DEF Finishes

LEMMA FailsStep ==
  ASSUME NEW ids, TypeOK, NEW x \in Exec, Fails(x)
  PROVE  Step(ids)
  <1>0. exe[x] \in Record /\ exe[x].status = "RUNNING" /\ Exists(x)
    BY DEF TypeOK, Fails, Work
  <1>1. PICK r \in Broken(exe[x]) : Commit(x, r, "event")
    BY DEF Fails
  <1>2. r \in Record
    BY <1>0, BrokenType
  <1>3. Lawful(x, r, "event")
    BY <1>0, <1>2, RunningLawful DEF Finished
  <1>4. QueuesTyped'
    BY DEF Fails, QueuesTyped, TypeOK, queues
  <1>5. QED
    BY <1>1, <1>3, <1>4, AllowedStep DEF Fails

LEMMA IgnoresStep ==
  ASSUME NEW ids, TypeOK, NEW x \in Exec, Ignores(x)
  PROVE  Step(ids)
  <1>1. Lawful(x, exe[x], "event")
    BY DEF Ignores, Work, Lawful, TypeOK, Causes
  <1>2. QueuesTyped'
    BY DEF Ignores, QueuesTyped, TypeOK, queues
  <1>3. QED
    BY <1>1, <1>2, AllowedStep DEF Ignores

LEMMA ResetsStep ==
  ASSUME NEW ids, TypeOK, NEW x \in Exec, Resets(x)
  PROVE  Step(ids)
  <1>0. exe[x] \in Record /\ Exists(x)
    BY DEF TypeOK, Resets, Work
  <1>1. PICK first \in {Started, DeadLetter} :
          /\ Commit(x, [first EXCEPT !.digest = exe[x].digest, !.entry = Left(exe[x]).entry], "Reset")
          /\ cancels' = IF first = Started THEN cancels \cup Told(exe[x]) ELSE cancels
    BY DEF Resets
  <1> DEFINE r == [first EXCEPT !.digest = exe[x].digest, !.entry = Left(exe[x]).entry]
  <1>2. first \in Record /\ exe[x].digest \in Digest /\ Left(exe[x]).entry \in Nat \ {0}
    BY <1>0, AbsentType, LeftType DEF Record
  <1>3. r \in Record
    BY <1>2 DEF Record
  <1>4. Commit(x, r, "Reset")
    BY <1>1
  <1> HIDE DEF r
  <1>5. Lawful(x, r, "Reset")
    BY <1>0, <1>3 DEF Lawful, Causes
  <1>6. QueuesTyped'
    BY <1>1, ToldType DEF Resets, QueuesTyped, TypeOK
  <1>7. QED
    BY <1>4, <1>5, <1>6, AllowedStep DEF Resets

LEMMA TakesCancelStep ==
  ASSUME NEW ids, TypeOK, NEW x \in Exec, TakesCancel(x)
  PROVE  Step(ids)
  <1> DEFINE r == exe[x]
             cleans == r.status \in {"RUNNING", "CANCELLING"} /\ r.place = "guarded"
             after == IF r.status \in Finished THEN {r}
                      ELSE IF Changed(r) THEN {[r EXCEPT !.status = "FAILED", !.error = TRUE]}
                      ELSE IF cleans THEN Broken(r) \cup {[r EXCEPT !.status = "DONE", !.place = "end"]}
                      ELSE {[r EXCEPT !.status = "CANCELLED"]}
  <1>0. r \in Record /\ Exists(x)
    BY DEF TypeOK, TakesCancel, Work
  <1>1. PICK s \in after : Commit(x, s, "event")
    BY DEF TakesCancel
  <1>2. /\ [r EXCEPT !.status = "FAILED", !.error = TRUE] \in Record
        /\ [r EXCEPT !.status = "DONE", !.place = "end"] \in Record
        /\ [r EXCEPT !.status = "CANCELLED"] \in Record /\ Broken(r) \subseteq Record
    BY <1>0, BrokenType DEF Record, Statuses, Place
  <1>3. after \subseteq Record
    BY <1>0, <1>2
  <1>4. Lawful(x, s, "event")
    <2>1. CASE exe[x].status \in Finished
      BY <1>0, <1>3, <2>1 DEF Lawful, Causes
    <2>2. CASE exe[x].status \notin Finished
      BY <1>0, <1>3, <2>2, RunningLawful
    <2>3. QED
      BY <2>1, <2>2
  <1>5. QueuesTyped'
    BY DEF TakesCancel, QueuesTyped, TypeOK
  <1>6. QED
    BY <1>1, <1>4, <1>5, AllowedStep DEF TakesCancel

LEMMA TakesReportStep ==
  ASSUME NEW ids, TypeOK, NEW c \in Exec, TakesReport(c)
  PROVE  Step(ids)
  <1> DEFINE x == ParentOf(c)
             r == [exe[x] EXCEPT !.finished = @ \cup (exe[x].children \cap {c})]
             joined == Runs(x) /\ r.place = "fork" /\ Unfinished(r) = {}
             after == IF joined THEN Broken(r) \cup {[Left(r) EXCEPT !.place = "plain"]} ELSE {r}
  <1>0. x \in Exec /\ exe[x] \in Record /\ Exists(x)
    BY ParentIsRoot DEF TypeOK, TakesReport, Work
  <1>1. PICK s \in after : Commit(x, s, "event")
    BY DEF TakesReport
  <1>2. r \in Record /\ r.status = exe[x].status
    BY <1>0 DEF Record
  <1>3. s \in Record /\ (exe[x].status \in Finished => s = r)
    <2>1. CASE joined
      <3>1. exe[x].status = "RUNNING"
        BY <2>1 DEF Runs
      <3>2. Left(r) \in Record
        BY <1>2, LeftType
      <3> HIDE DEF r
      <3>3. [Left(r) EXCEPT !.place = "plain"] \in Record
        BY <3>2 DEF Record, Place, Leaf
      <3>4. QED
        BY <1>1, <1>2, <2>1, <3>1, <3>3, BrokenType DEF Finished
    <2>2. CASE ~joined
      BY <1>1, <1>2, <2>2
    <2>3. QED
      BY <2>1, <2>2
  <1>4. Lawful(x, s, "event")
    BY <1>0, <1>2, <1>3 DEF Lawful, Causes
  <1>5. QueuesTyped'
    BY DEF TakesReport, QueuesTyped, TypeOK
  <1>6. UNCHANGED <<proc, archived>>
    BY DEF TakesReport
  <1> HIDE DEF x, r, joined, after
  <1>7. QED
    BY <1>0, <1>1, <1>4, <1>5, <1>6, AllowedStep

LEMMA RelayStep ==
  ASSUME NEW ids, TypeOK, NEW c \in Exec, RelayReads(c) \/ RelayCreates(c)
  PROVE  Step(ids)
  <1>1. QueuesTyped' /\ UNCHANGED <<proc, archived>>
    BY DEF RelayReads, RelayCreates, QueuesTyped, TypeOK
  <1>2. CASE UNCHANGED <<exe, step>>
    BY <1>1, <1>2 DEF Step, RecordsMove, FlowsMove
  <1>3. CASE ~UNCHANGED <<exe, step>>
    <2>1. PICK r \in {Started, DeadLetter} : ~Exists(c) /\ Commit(c, r, "start")
      BY <1>3 DEF RelayReads, RelayCreates
    <2>2. c \notin Root
      BY DEF TypeOK, RelayReads, RelayCreates
    <2>3. Lawful(c, r, "start")
      BY <2>1, <2>2, AbsentType DEF Lawful, Causes
    <2>4. QED
      BY <1>1, <2>1, <2>3, AllowedStep
  <1>4. QED
    BY <1>2, <1>3

LEMMA WorkersStep ==
  ASSUME NEW ids, TypeOK, WorkerStep
  PROVE  Step(ids)
  BY MovesStep, ForksStep, FinishesStep, FailsStep, IgnoresStep, ResetsStep, TakesCancelStep, TakesReportStep,
     RelayStep DEF WorkerStep
-----------------------------------------------------------------------------
(* Callers: commands *)

\* A step of a caller that writes nothing to the store.
LEMMA QuietStep ==
  ASSUME NEW ids, TypeOK, NEW p \in Caller, NEW f \in Flow, FlowOK(ids, f), Become(p, f),
         UNCHANGED <<exe, step, queues, archived>>
  PROVE  Step(ids)
  BY DEF Step, RecordsMove, FlowsMove, QueuesTyped, TypeOK, queues

LEMMA IdleStep ==
  ASSUME NEW ids, TypeOK, NEW p \in Caller, Become(p, Idle), UNCHANGED <<exe, step, queues, archived>>
  PROVE  Step(ids)
  BY IdleType, IdleOK, QuietStep

LEMMA BegunOK ==
  ASSUME NEW ids, NEW f \in Flow, NEW j \in Job, j.at # "commit", f.jobs = {j}, f.tree = {},
         f.command \in {"terminate", "cancel", "suspend", "resume", "redrive"}
  PROVE  FlowOK(ids, f)
  BY DEF FlowOK, JobOK

LEMMA BeginStep ==
  ASSUME NEW ids, TypeOK, NEW p \in Caller, NEW j \in Job, j.at # "commit",
         NEW command \in {"terminate", "cancel", "suspend", "resume"}, Begin(p, command, j)
  PROVE  Step(ids)
  <1> DEFINE f == [Idle EXCEPT !.command = command, !.jobs = {j}]
  <1>1. f \in Flow
    BY IdleType DEF Flow
  <1>2. f.jobs = {j} /\ f.command = command /\ f.tree = {}
    BY DEF Idle
  <1>3. Become(p, f) /\ UNCHANGED <<exe, step, queues, archived>>
    BY DEF Begin
  <1> HIDE DEF f
  <1>4. FlowOK(ids, f)
    BY <1>1, <1>2, BegunOK
  <1>5. QED
    BY <1>1, <1>3, <1>4, QuietStep

LEMMA CommandsBegin ==
  ASSUME NEW ids, TypeOK, NEW p \in Caller, NEW x \in Exec,
         \/ Terminate(p, x) \/ Cancel(p, x) \/ Suspend(p, x) \/ Resume(p, x)
         \/ \E target \in Place : Redrive(p, x, target)
  PROVE  Step(ids)
  <1>0. /\ NewJob(x, "load") \in Job /\ NewJob(x, "load").at = "load"
        /\ NewJob(x, "check") \in Job /\ NewJob(x, "check").at = "check"
    BY NewJobType
  <1>1. CASE Terminate(p, x)
    BY <1>0, <1>1, BeginStep DEF Terminate
  <1>2. CASE Cancel(p, x)
    <2> DEFINE j == [NewJob(x, "load") EXCEPT !.cooperative = TRUE]
    <2>1. j \in Job /\ j.at = "load"
      BY <1>0 DEF Job
    <2>2. Begin(p, "cancel", j)
      BY <1>2 DEF Cancel
    <2> HIDE DEF j
    <2>3. QED
      BY <2>1, <2>2, BeginStep
  <1>3. CASE Suspend(p, x) \/ Resume(p, x)
    BY <1>0, <1>3, BeginStep DEF Suspend, Resume
  <1>4. ASSUME NEW target \in Place, Redrive(p, x, target) PROVE Step(ids)
    <2> DEFINE f == [Idle EXCEPT !.command = "redrive", !.jobs = {NewJob(x, "check")}, !.target = target]
    <2>1. f \in Flow
      BY <1>0, IdleType DEF Flow
    <2>2. f.jobs = {NewJob(x, "check")} /\ f.command = "redrive" /\ f.tree = {}
      BY DEF Idle
    <2>3. Become(p, f) /\ UNCHANGED <<exe, step, queues, archived>>
      BY <1>4 DEF Redrive
    <2> HIDE DEF f
    <2>4. FlowOK(ids, f)
      BY <1>0, <2>1, <2>2, BegunOK
    <2>5. QED
      BY <2>1, <2>3, <2>4, QuietStep
  <1>5. QED
    BY <1>1, <1>2, <1>3, <1>4

\* A job that becomes jobs that have nothing to commit, or only what the record allows.
LEMMA ReplaceStep ==
  ASSUME NEW ids, IInv(ids), NEW p \in Caller, NEW j \in proc[p].jobs, NEW jobs \in SUBSET Job,
         \A k \in jobs : k.at = "commit" => Decided(proc[p].command, k.rec) /\ Snapshot(k.x, k.rec),
         Moved(p, Replace(p, j, jobs))
  PROVE  Step(ids)
  <1>1. TypeOK /\ FlowOK(ids, proc[p])
    BY DEF IInv
  <1>2. proc[p].command \notin {"none", "purge"}
    BY <1>1 DEF FlowOK, JobOK
  <1>3. \A k \in jobs : JobOK(ids, proc[p].command, k)
    BY <1>2 DEF JobOK
  <1>4. Replace(p, j, jobs) \in Flow /\ FlowOK(ids, Replace(p, j, jobs))
    BY <1>1, <1>3, ReplaceOK
  <1>5. QED
    BY <1>1, <1>4, QuietStep DEF Moved

LEMMA RaisesStep ==
  ASSUME NEW ids, IInv(ids), NEW p \in Caller, NEW j \in proc[p].jobs, Raises(p, j)
  PROVE  Step(ids)
  <1>1. PICK jobs \in {{}, Rest(p, j)} : Moved(p, IF jobs = {} THEN Idle ELSE [proc[p] EXCEPT !.jobs = jobs])
    BY DEF Raises
  <1>2. CASE jobs = {}
    <2>1. Moved(p, Idle)
      BY <1>1, <1>2
    <2>2. QED
      BY <2>1, IdleStep DEF Moved, IInv
  <1>3. CASE jobs # {}
    <2>1. jobs = Rest(p, j)
      BY <1>1, <1>3
    <2>2. Replace(p, j, {}) = [proc[p] EXCEPT !.jobs = jobs]
      BY <2>1 DEF Replace
    <2>3. Moved(p, Replace(p, j, {}))
      BY <1>1, <1>3, <2>2
    <2>4. QED
      BY <2>3, ReplaceStep
  <1>4. QED
    BY <1>2, <1>3

LEMMA ChecksStep ==
  ASSUME NEW ids, IInv(ids), NEW p \in Caller, NEW j \in proc[p].jobs, Checks(p, j)
  PROVE  Step(ids)
  <1>0. j \in Job /\ TypeOK
    BY ProcType DEF IInv, Flow
  <1>1. [j EXCEPT !.at = "load"] \in Job /\ [j EXCEPT !.at = "load"].at = "load"
    BY <1>0, JobMoves
  <1>2. CASE Moved(p, Replace(p, j, {[j EXCEPT !.at = "load"]}))
    <2> DEFINE jobs == {[j EXCEPT !.at = "load"]}
    <2>1. \A k \in jobs : k \in Job /\ k.at = "load"
      BY <1>1
    <2>2. Moved(p, Replace(p, j, jobs))
      BY <1>2
    <2> HIDE DEF jobs
    <2>3. QED
      BY <2>1, <2>2, ReplaceStep
  <1>3. CASE Moved(p, Idle)
    BY <1>0, <1>3, IdleStep DEF Moved
  <1>4. QED
    BY <1>2, <1>3 DEF Checks

LEMMA LoadsStep ==
  ASSUME NEW ids, IInv(ids), NEW p \in Caller, NEW j \in proc[p].jobs, Loads(p, j)
  PROVE  Step(ids)
  <1> DEFINE r == exe[j.x]
             k == [j EXCEPT !.at = "commit", !.rec = r]
  <1>0. j \in Job /\ TypeOK /\ j.x \in Exec /\ r \in Record
    BY ProcType DEF IInv, Flow, Job, TypeOK
  <1>1. CASE Raises(p, j)
    BY <1>1, RaisesStep
  <1>2. CASE Moved(p, Replace(p, j, After(p, j)))
    BY <1>0, <1>2, AfterType, ReplaceStep
  <1>3. CASE Moved(p, Replace(p, j, {NewJob(j.x, "load")}))
    BY <1>0, <1>3, NewJobType, ReplaceStep
  <1>4. CASE /\ Exists(j.x) /\ ~Leaves(proc[p].command, r)
             /\ ~(proc[p].command = "redrive" /\ ~Redrivable(r))
             /\ Moved(p, Replace(p, j, {k}))
    <2>1. k \in Job /\ k.x = j.x /\ k.rec = r
      BY <1>0 DEF Job
    <2>2. Decided(proc[p].command, r)
      BY <1>4 DEF Decided, Leaves, Redrivable
    <2>3. Snapshot(j.x, r)
      BY <1>0, <1>4 DEF Snapshot, Exists, Record
    <2>4. Moved(p, Replace(p, j, {k}))
      BY <1>4
    <2> HIDE DEF k
    <2>5. QED
      BY <2>1, <2>2, <2>3, <2>4, ReplaceStep
  <1>5. QED
    BY <1>1, <1>2, <1>3, <1>4 DEF Loads

LEMMA CommitsStep ==
  ASSUME NEW ids, IInv(ids), NEW p \in Caller, NEW j \in proc[p].jobs, Commits(p, j)
  PROVE  Step(ids)
  <1> DEFINE command == proc[p].command
             r == Commanded(p, j)
             k == [j EXCEPT !.cooperative = FALSE]
  <1>0. /\ TypeOK /\ proc[p] \in Flow /\ FlowOK(ids, proc[p])
        /\ j \in Job /\ j.at = "commit" /\ j.x \in Exec /\ j.rec \in Record
        /\ exe[j.x] \in Record /\ exe[j.x].version = j.rec.version
    BY ProcType DEF IInv, Flow, Job, TypeOK, Commits
  <1>1. JobOK(ids, command, j) /\ command \in {"terminate", "cancel", "suspend", "resume", "redrive"}
    BY <1>0 DEF FlowOK, JobOK, Flow
  <1>2. r \in Record
    <2>1. [j.rec EXCEPT !.status = "CANCELLING"] \in Record
      BY <1>0 DEF Record, Statuses
    <2>2. [j.rec EXCEPT !.status = "RUNNING", !.place = proc[p].target, !.error = FALSE, !.digest = "new"] \in Record
      BY <1>0 DEF Record, Statuses, Flow, Digest
    <2>3. command # "redrive" => To[command] \in Statuses
      BY <1>1 DEF To, Statuses
    <2>4. command # "redrive" => [j.rec EXCEPT !.status = To[command]] \in Record
      BY <1>0, <2>3 DEF Record
    <2>5. QED
      BY <2>1, <2>2, <2>4 DEF Commanded
  <1>3. Commit(j.x, r, command) /\ command \in Causes
    BY <1>1 DEF Commits, Causes
  <1> HIDE DEF r
  <1>4. ASSUME j.x \in ids PROVE Lawful(j.x, r, command)
    <2>1. Decided(command, j.rec) /\ Snapshot(j.x, j.rec)
      BY <1>0, <1>1, <1>4 DEF JobOK
    <2>2. Exists(j.x)
      BY <1>0, <2>1 DEF Exists, Snapshot
    <2>3. exe[j.x] = j.rec
      BY <1>0, <2>1, <2>2 DEF Snapshot
    <2>4. QED
      BY <1>2, <1>3, <2>1, <2>2, <2>3 DEF Lawful, Decided
  <1>5. RecordsMove(ids)
    BY <1>0, <1>2, <1>3, <1>4 DEF RecordsMove
  <1>6. k \in Job
    BY <1>0 DEF Job
  <1> HIDE DEF k
  <1>7. \A i \in After(p, k) : i \in Job /\ JobOK(ids, command, i)
    BY <1>1, <1>6, AfterType DEF JobOK
  <1>8. Replace(p, j, After(p, k)) \in Flow /\ FlowOK(ids, Replace(p, j, After(p, k)))
    BY <1>0, <1>7, ReplaceOK
  <1>9. Become(p, Replace(p, j, After(p, k)))
    BY DEF Commits, k
  <1>10. QueuesTyped' /\ archived' = archived
    BY <1>0 DEF Commits, QueuesTyped, TypeOK
  <1>11. QED
    BY <1>5, <1>8, <1>9, <1>10 DEF Step, FlowsMove

LEMMA ConflictsStep ==
  ASSUME NEW ids, IInv(ids), NEW p \in Caller, NEW j \in proc[p].jobs, Conflicts(p, j)
  PROVE  Step(ids)
  <1>0. j \in Job /\ Retries \in Nat \ {0}
    BY ProcType, ControlAssumption DEF IInv, Flow
  <1>1. CASE j.attempt < Retries
    <2>0. j.attempt + 1 \in 1..Retries
      BY <1>0, <1>1 DEF Job
    <2>1. Again(j) \in Job /\ Again(j).at = "load"
      BY <1>0, <2>0 DEF Job, Again
    <2>2. Moved(p, Replace(p, j, {Again(j)}))
      BY <1>1 DEF Conflicts
    <2>3. QED
      BY <2>1, <2>2, ReplaceStep
  <1>2. CASE ~(j.attempt < Retries)
    BY <1>0, <1>2, AfterType, ReplaceStep DEF Conflicts
  <1>3. QED
    BY <1>1, <1>2

LEMMA FollowsStep ==
  ASSUME NEW ids, IInv(ids), NEW p \in Caller, NEW j \in proc[p].jobs,
         FollowsChildren(p, j) \/ LooksAtChild(p, j)
  PROVE  Step(ids)
  <1>0. j \in Job /\ j.x \in Exec /\ exe[j.x].children \subseteq Exec
    BY ProcType DEF IInv, Flow, Job, TypeOK, Record
  <1>1. CASE FollowsChildren(p, j)
    <2> DEFINE jobs == {NewJob(c, "look") : c \in exe[j.x].children}
    <2>1. \A k \in jobs : k \in Job /\ k.at = "look"
      BY <1>0, NewJobType
    <2>2. Moved(p, Replace(p, j, jobs))
      BY <1>1 DEF FollowsChildren
    <2> HIDE DEF jobs
    <2>3. QED
      BY <2>1, <2>2, ReplaceStep
  <1>2. CASE LooksAtChild(p, j)
    <2>1. [j EXCEPT !.at = "load"] \in Job /\ [j EXCEPT !.at = "load"].at = "load"
      BY <1>0, JobMoves
    <2> DEFINE jobs == IF Exists(j.x) THEN {[j EXCEPT !.at = "load"]} ELSE {}
    <2>2. \A k \in jobs : k \in Job /\ k.at = "load"
      BY <2>1
    <2>3. Moved(p, Replace(p, j, jobs))
      BY <1>2 DEF LooksAtChild
    <2> HIDE DEF jobs
    <2>4. QED
      BY <2>2, <2>3, ReplaceStep
  <1>3. QED
    BY <1>1, <1>2

LEMMA JobsStep ==
  ASSUME NEW ids, IInv(ids), NEW p \in Caller, JobStep(p)
  PROVE  Step(ids)
  BY ChecksStep, LoadsStep, CommitsStep, ConflictsStep, FollowsStep DEF JobStep
-----------------------------------------------------------------------------
(* Callers: purges *)

\* A purge that goes on: its members are copies, and archived before any is deleted.
LEMMA PurgeGoesOn ==
  ASSUME NEW ids, NEW f \in Flow, FlowOK(ids, f), NEW g \in Flow, g.jobs = f.jobs, g.command = f.command,
         \A m \in g.tree : MemberOK(ids, g.at, m)
  PROVE  FlowOK(ids, g)
  BY DEF FlowOK

LEMMA MemberOfTree ==
  ASSUME NEW ids, TypeOK, NEW x \in Exec, Exists(x), NEW at, at # "delete"
  PROVE  Member(x) \in [x : Exec, rec : Record] /\ MemberOK(ids, at, Member(x))
  BY DEF TypeOK, Member, MemberOK, Snapshot, Exists, Record

LEMMA QueueOK ==
  ASSUME NEW ids, NEW queue \in SUBSET Exec
  PROVE  LET f == [Idle EXCEPT !.command = "purge", !.at = "root", !.queue = queue]
         IN f \in Flow /\ FlowOK(ids, f)
  <1> DEFINE f == [Idle EXCEPT !.command = "purge", !.at = "root", !.queue = queue]
  <1>1. f \in Flow
    BY IdleType DEF Flow
  <1>2. f.jobs = {} /\ f.tree = {}
    BY DEF Idle
  <1>3. FlowOK(ids, f)
    BY <1>2 DEF FlowOK
  <1>4. QED
    BY <1>1, <1>3

LEMMA NextTreeOK ==
  ASSUME NEW ids, TypeOK, NEW p \in Caller
  PROVE  NextTree(p) \in Flow /\ FlowOK(ids, NextTree(p))
  <1>1. proc[p].queue \in SUBSET Exec
    BY ProcType DEF Flow
  <1>2. QED
    BY <1>1, QueueOK, IdleType, IdleOK DEF NextTree

LEMMA PurgesBegin ==
  ASSUME NEW ids, TypeOK, NEW p \in Caller, (\E x \in Exec : Purge(p, x)) \/ PurgeFinished(p)
  PROVE  Step(ids)
  <1>1. ASSUME NEW x \in Exec, Purge(p, x) PROVE Step(ids)
    <2> DEFINE f == [Idle EXCEPT !.command = "purge", !.at = "root", !.queue = {x}]
    <2>1. f \in Flow /\ FlowOK(ids, f)
      BY QueueOK
    <2>2. Become(p, f) /\ UNCHANGED <<exe, step, queues, archived>>
      BY <1>1 DEF Purge
    <2> HIDE DEF f
    <2>3. QED
      BY <2>1, <2>2, QuietStep
  <1>2. CASE PurgeFinished(p)
    <2> DEFINE queue == {x \in Root : Exists(x) /\ exe[x].status \in Finished}
               f == [Idle EXCEPT !.command = "purge", !.at = "root", !.queue = queue]
    <2>1. queue \in SUBSET Exec
      BY ControlAssumption
    <2>2. Become(p, f) /\ UNCHANGED <<exe, step, queues, archived>>
      BY <1>2 DEF PurgeFinished
    <2> HIDE DEF queue
    <2>3. f \in Flow /\ FlowOK(ids, f)
      BY <2>1, QueueOK
    <2> HIDE DEF f
    <2>4. QED
      BY <2>2, <2>3, QuietStep
  <1>3. QED
    BY <1>1, <1>2

LEMMA LoadsRootStep ==
  ASSUME NEW ids, IInv(ids), NEW p \in Caller, NEW x \in Exec, LoadsRoot(p, x)
  PROVE  Step(ids)
  <1> DEFINE next == [proc[p] EXCEPT !.queue = @ \ {x}]
             f == [next EXCEPT !.at = "ids", !.root = x, !.tree = {Member(x)}]
  <1>0. TypeOK /\ proc[p] \in Flow /\ FlowOK(ids, proc[p])
    BY ProcType DEF IInv
  <1>1. next \in Flow /\ next.jobs = proc[p].jobs /\ next.command = proc[p].command
        /\ next.tree = proc[p].tree /\ next.at = proc[p].at
    BY <1>0 DEF Flow
  <1>2. \A m \in next.tree : MemberOK(ids, next.at, m)
    BY <1>0, <1>1 DEF FlowOK
  <1>3. FlowOK(ids, next)
    BY <1>0, <1>1, <1>2, PurgeGoesOn
  <1>4. CASE Exists(x)
    <2>1. Member(x) \in [x : Exec, rec : Record] /\ MemberOK(ids, "ids", Member(x))
      BY <1>0, <1>4, MemberOfTree
    <2>2. Moved(p, f)
      BY <1>4 DEF LoadsRoot
    <2> HIDE DEF next
    <2>3. f \in Flow /\ f.jobs = next.jobs /\ f.command = next.command /\ f.tree = {Member(x)} /\ f.at = "ids"
      BY <1>1, <2>1 DEF Flow
    <2> HIDE DEF f
    <2>4. FlowOK(ids, f)
      BY <1>1, <1>3, <2>1, <2>3, PurgeGoesOn
    <2>5. QED
      BY <1>0, <2>2, <2>3, <2>4, QuietStep DEF Moved
  <1>5. CASE ~Exists(x)
    <2>1. Moved(p, Idle) \/ Moved(p, next)
      BY <1>5 DEF LoadsRoot
    <2> HIDE DEF next
    <2>2. QED
      BY <1>0, <1>1, <1>3, <2>1, IdleStep, QuietStep DEF Moved
  <1>6. QED
    BY <1>4, <1>5

LEMMA ListsIdsStep ==
  ASSUME NEW ids, IInv(ids), NEW p \in Caller, ListsIds(p)
  PROVE  Step(ids)
  <1> DEFINE x == proc[p].root
             listed == UNION {m.rec.children : m \in proc[p].tree}
             todo == {c \in Descendants(x) : Exists(c)} \cup listed
             f == [proc[p] EXCEPT !.at = "collect", !.todo = todo]
  <1>0. TypeOK /\ proc[p] \in Flow /\ FlowOK(ids, proc[p])
    BY ProcType DEF IInv
  <1>1. \A m \in proc[p].tree : m.rec.children \subseteq Exec
    BY <1>0 DEF Flow, Record
  <1>2. todo \subseteq Exec
    BY <1>1 DEF Descendants
  <1>3. Moved(p, f)
    BY DEF ListsIds
  <1> HIDE DEF todo
  <1>4. /\ f \in Flow /\ f.jobs = proc[p].jobs /\ f.command = proc[p].command
        /\ f.tree = proc[p].tree /\ f.at = "collect"
    BY <1>0, <1>2 DEF Flow
  <1> HIDE DEF f
  <1>5. \A m \in f.tree : MemberOK(ids, f.at, m)
    BY <1>0, <1>4 DEF FlowOK, MemberOK
  <1>6. FlowOK(ids, f)
    BY <1>0, <1>4, <1>5, PurgeGoesOn
  <1>7. QED
    BY <1>0, <1>3, <1>4, <1>6, QuietStep DEF Moved

LEMMA CollectsStep ==
  ASSUME NEW ids, IInv(ids), NEW p \in Caller, NEW c \in Exec, Collects(p, c)
  PROVE  Step(ids)
  <1> DEFINE f == [proc[p] EXCEPT !.todo = @ \ {c}, !.tree = @ \cup {Member(c)}]
             g == [proc[p] EXCEPT !.todo = @ \ {c}, !.missing = @ \cup {c}]
  <1>0. TypeOK /\ proc[p] \in Flow /\ FlowOK(ids, proc[p]) /\ proc[p].at = "collect"
    BY ProcType DEF IInv, Collects
  <1>1. CASE Exists(c)
    <2>1. Member(c) \in [x : Exec, rec : Record] /\ MemberOK(ids, "collect", Member(c))
      BY <1>0, <1>1, MemberOfTree
    <2>2. Moved(p, f)
      BY <1>1 DEF Collects
    <2>3. /\ f \in Flow /\ f.jobs = proc[p].jobs /\ f.command = proc[p].command
          /\ f.tree = proc[p].tree \cup {Member(c)} /\ f.at = "collect"
      BY <1>0, <2>1 DEF Flow
    <2> HIDE DEF f
    <2>4. \A m \in f.tree : MemberOK(ids, f.at, m)
      BY <1>0, <2>1, <2>3 DEF FlowOK
    <2>5. FlowOK(ids, f)
      BY <1>0, <2>3, <2>4, PurgeGoesOn
    <2>6. QED
      BY <1>0, <2>2, <2>3, <2>5, QuietStep DEF Moved
  <1>2. CASE ~Exists(c)
    <2>1. Moved(p, g)
      BY <1>2 DEF Collects
    <2>2. /\ g \in Flow /\ g.jobs = proc[p].jobs /\ g.command = proc[p].command
          /\ g.tree = proc[p].tree /\ g.at = "collect"
      BY <1>0 DEF Flow
    <2> HIDE DEF g
    <2>3. \A m \in g.tree : MemberOK(ids, g.at, m)
      BY <1>0, <2>2 DEF FlowOK
    <2>4. FlowOK(ids, g)
      BY <1>0, <2>2, <2>3, PurgeGoesOn
    <2>5. QED
      BY <1>0, <2>1, <2>2, <2>4, QuietStep DEF Moved
  <1>3. QED
    BY <1>1, <1>2

LEMMA PurgeStopsStep ==
  ASSUME NEW ids, IInv(ids), NEW p \in Caller,
         Refuses(p) \/ ArchiverRaises(p) \/ \E m \in proc[p].tree : DeleteConflicts(p, m)
  PROVE  Step(ids)
  <1>1. TypeOK /\ NextTree(p) \in Flow /\ FlowOK(ids, NextTree(p))
    BY NextTreeOK DEF IInv
  <1>2. Moved(p, NextTree(p)) \/ Moved(p, Idle)
    BY DEF Refuses, ArchiverRaises, DeleteConflicts
  <1>3. QED
    BY <1>1, <1>2, IdleStep, QuietStep DEF Moved

LEMMA ArchivesStep ==
  ASSUME NEW ids, IInv(ids), NEW p \in Caller, Archives(p)
  PROVE  Step(ids)
  <1> DEFINE next == [proc[p] EXCEPT !.at = "delete"]
  <1>0. TypeOK /\ proc[p] \in Flow /\ FlowOK(ids, proc[p])
    BY ProcType DEF IInv
  <1>1. /\ archived' = archived \cup {<<m.x, m.rec.version>> : m \in proc[p].tree}
        /\ Become(p, next) /\ UNCHANGED <<exe, step, queues>>
        /\ \A m \in proc[p].tree : m.rec.status \in Finished
    BY DEF Archives
  <1>2. \A m \in proc[p].tree : m.x \in Exec /\ m.rec.version \in Nat
    BY <1>0 DEF Flow, Record
  <1>3. archived' \subseteq Exec \X Nat /\ archived \subseteq archived'
    BY <1>0, <1>1, <1>2 DEF TypeOK
  <1>a. next \in Flow
    BY <1>0 DEF Flow
  <1>b. PICK f \in Flow : f = next
    BY <1>a
  <1>4. f.jobs = proc[p].jobs /\ f.command = proc[p].command /\ f.tree = proc[p].tree /\ f.at = "delete"
    BY <1>0, <1>b DEF Flow
  <1>c. Become(p, f)
    BY <1>1, <1>b
  <1> HIDE DEF next
  <1>5. \A x : \A r : Snapshot(x, r) => Snapshot(x, r)'
    BY <1>1, <1>3 DEF Snapshot, Exists, Gone
  <1>6. ASSUME NEW j \in f.jobs PROVE JobOK(ids, f.command, j)'
    BY <1>0, <1>4, <1>5 DEF FlowOK, JobOK, Decided, Unfinished, Finished
  <1>7. ASSUME NEW m \in f.tree PROVE MemberOK(ids, f.at, m)'
    <2>1. m.x \in ids => Snapshot(m.x, m.rec)
      BY <1>0, <1>4 DEF FlowOK, MemberOK
    <2>2. <<m.x, m.rec.version>> \in archived'
      BY <1>1, <1>4
    <2>3. m.rec.status \in Finished
      BY <1>1, <1>4
    <2>4. QED
      BY <1>5, <2>1, <2>2, <2>3 DEF MemberOK, Finished
  <1>8. FlowOK(ids, f)'
    BY <1>6, <1>7 DEF FlowOK
  <1>9. QueuesTyped'
    BY <1>0, <1>1, <1>3 DEF QueuesTyped, TypeOK, queues
  <1>10. QED
    BY <1>1, <1>3, <1>c, <1>8, <1>9 DEF Step, RecordsMove, FlowsMove

LEMMA DeletesStep ==
  ASSUME NEW ids, IInv(ids), NEW p \in Caller, NEW m \in proc[p].tree, Deletes(p, m)
  PROVE  Step(ids)
  <1> DEFINE f == [proc[p] EXCEPT !.tree = @ \ {m}]
  <1>0. /\ TypeOK /\ proc[p] \in Flow /\ FlowOK(ids, proc[p])
        /\ m.x \in Exec /\ m.rec \in Record /\ exe[m.x].version = m.rec.version
        /\ proc[p].at = "delete"
    BY ProcType DEF IInv, Flow, Deletes, AsFound
  <1>1. exe' = [exe EXCEPT ![m.x] = Absent] /\ step' = [step EXCEPT ![m.x] = "none"] /\ archived' = archived
    BY DEF Deletes, Delete
  <1>2. ASSUME m.x \in ids PROVE Removes(m.x)
    <2>1. MemberOK(ids, "delete", m)
      BY <1>0 DEF FlowOK
    <2>2. Snapshot(m.x, m.rec) /\ m.rec.status \in Finished /\ <<m.x, m.rec.version>> \in archived
      BY <1>2, <2>1 DEF MemberOK
    <2>3. Exists(m.x) => exe[m.x] = m.rec
      BY <1>0, <2>2 DEF Snapshot
    <2>4. QED
      BY <1>1, <2>2, <2>3 DEF Removes
  <1>3. RecordsMove(ids)
    BY <1>0, <1>1, <1>2 DEF RecordsMove
  <1>4. f \in Flow /\ f.jobs = proc[p].jobs /\ f.command = proc[p].command /\ f.tree \subseteq proc[p].tree /\ f.at = proc[p].at
    BY <1>0 DEF Flow
  <1>5. Become(p, NextTree(p)) \/ Become(p, f)
    BY DEF Deletes
  <1> HIDE DEF f
  <1>6. FlowOK(ids, f)
    <2>1. \A n \in f.tree : MemberOK(ids, f.at, n)
      BY <1>0, <1>4 DEF FlowOK
    <2>2. QED
      BY <1>0, <1>4, <2>1, PurgeGoesOn
  <1>7. NextTree(p) \in Flow /\ FlowOK(ids, NextTree(p))
    BY <1>0, NextTreeOK
  <1>8. FlowsMove(ids)
    BY <1>4, <1>5, <1>6, <1>7 DEF FlowsMove
  <1>9. QueuesTyped'
    BY <1>0, <1>1 DEF QueuesTyped, TypeOK, Deletes, Delete
  <1>10. QED
    BY <1>1, <1>3, <1>8, <1>9 DEF Step

LEMMA SweepsStep ==
  ASSUME NEW ids, IInv(ids), NEW p \in Caller, NEW c \in Exec, Sweeps(p, c)
  PROVE  Step(ids)
  <1> DEFINE f == [proc[p] EXCEPT !.missing = @ \ {c}]
  <1>0. TypeOK /\ proc[p] \in Flow /\ FlowOK(ids, proc[p])
    BY ProcType DEF IInv
  <1>1. RecordsMove(ids)
    BY DEF Sweeps, Delete, RecordsMove, Removes
  <1>2. /\ f \in Flow /\ f.jobs = proc[p].jobs /\ f.command = proc[p].command
        /\ f.tree = proc[p].tree /\ f.at = proc[p].at
    BY <1>0 DEF Flow
  <1>3. Become(p, f) /\ archived' = archived
    BY DEF Sweeps
  <1> HIDE DEF f
  <1>4. \A m \in f.tree : MemberOK(ids, f.at, m)
    BY <1>0, <1>2 DEF FlowOK
  <1>5. FlowOK(ids, f)
    BY <1>0, <1>2, <1>4, PurgeGoesOn
  <1>6. QueuesTyped'
    BY <1>0 DEF QueuesTyped, TypeOK, Sweeps, Delete
  <1>7. QED
    BY <1>1, <1>2, <1>3, <1>5, <1>6 DEF Step, FlowsMove

LEMMA PurgesStep ==
  ASSUME NEW ids, IInv(ids), NEW p \in Caller, PurgeStep(p)
  PROVE  Step(ids)
  BY LoadsRootStep, ListsIdsStep, CollectsStep, PurgeStopsStep, ArchivesStep, DeletesStep, SweepsStep DEF PurgeStep

LEMMA CallersStep ==
  ASSUME NEW ids, IInv(ids), NEW p \in Caller, CallerStep(p)
  PROVE  Step(ids)
  <1>0. TypeOK
    BY DEF IInv
  <1>1. CASE JobStep(p)
    BY <1>1, JobsStep
  <1>2. CASE PurgeStep(p)
    BY <1>2, PurgesStep
  <1>3. CASE Returns(p) \/ CallerStops(p)
    BY <1>0, <1>3, IdleStep DEF Returns, CallerStops, Moved
  <1>4. CASE (\E x \in Exec : Purge(p, x)) \/ PurgeFinished(p)
    BY <1>0, <1>4, PurgesBegin
  <1>5. CASE \E x \in Exec : \/ Terminate(p, x) \/ Cancel(p, x) \/ Suspend(p, x) \/ Resume(p, x)
                            \/ \E target \in Place : Redrive(p, x, target)
    BY <1>0, <1>5, CommandsBegin
  <1>6. QED
    BY <1>1, <1>2, <1>3, <1>4, <1>5 DEF CallerStep

LEMMA NextIsStep ==
  ASSUME NEW ids, IInv(ids), [Next]_vars
  PROVE  Step(ids)
  <1>1. CASE WorkerStep
    BY <1>1, WorkersStep DEF IInv
  <1>2. CASE \E p \in Caller : CallerStep(p)
    BY <1>2, CallersStep
  <1>3. CASE UNCHANGED vars
    BY <1>3 DEF vars, queues, Step, RecordsMove, FlowsMove, QueuesTyped, IInv, TypeOK
  <1>4. QED
    BY <1>1, <1>2, <1>3 DEF Next
-----------------------------------------------------------------------------
(* What the commands keep *)

LEMMA InitIsRight == ASSUME NEW ids PROVE Init => IInv(ids)
  <1> SUFFICES ASSUME Init PROVE IInv(ids)
    OBVIOUS
  <1>1. PICK r \in {[Started EXCEPT !.digest = d] : d \in Digest} \cup {DeadLetter} :
          exe = [x \in Exec |-> IF x \in Root THEN [r EXCEPT !.version = 1] ELSE Absent]
    BY DEF Init
  <1>2. r \in Record
    BY AbsentType DEF Record
  <1>3. [r EXCEPT !.version = 1] \in Record
    BY <1>2 DEF Record
  <1>4. exe \in [Exec -> Record]
    BY <1>1, <1>3, AbsentType
  <1>5. proc \in [Caller -> Flow] /\ \A p \in Caller : FlowOK(ids, proc[p])
    BY IdleType, IdleOK DEF Init
  <1>6. step \in [Exec -> Causes]
    BY DEF Init, Causes
  <1>7. QED
    BY <1>4, <1>5, <1>6 DEF Init, IInv, TypeOK

LEMMA NextKeeps ==
  ASSUME NEW ids, ids \subseteq Exec, IInv(ids), [Next]_vars, [OneLifeOf(ids)]_vars
  PROVE  IInv(ids)'
  <1>1. OneLifeOf(ids)
    BY DEF OneLifeOf, vars, Exists
  <1>2. QED
    BY <1>1, NextIsStep, StepKeeps

\* Whatever the step, no record is removed, revived or redriven that may not be.
LEMMA StepIsLawful ==
  ASSUME NEW ids, ids \subseteq Exec, IInv(ids), [Next]_vars
  PROVE  KeepsFinished(ids) /\ RedrivesDeadLetters(ids) /\ PurgesArchived(ids)
  <1>0. TypeOK /\ RecordsMove(ids)
    BY NextIsStep DEF IInv, Step
  <1> SUFFICES ASSUME NEW x \in ids
               PROVE  /\ exe[x].status \in Finished /\ Exists(x) /\ Written(x)
                           => exe'[x].status = exe[x].status \/ step'[x] = "Reset"
                      /\ By(x, "redrive") => exe[x].status = "FAILED" /\ Unfinished(exe[x]) = {}
                      /\ Exists(x) /\ exe'[x].version = 0
                           => exe[x].status \in Finished /\ <<x, exe[x].version>> \in archived
    BY DEF KeepsFinished, RedrivesDeadLetters, PurgesArchived
  <1>1. x \in Exec /\ exe[x] \in Record /\ exe[x].version \in Nat
    BY <1>0 DEF TypeOK, Record
  <1>2. CASE exe'[x] = exe[x]
    BY <1>1, <1>2 DEF Written, By, Exists
  <1>3. ASSUME NEW y \in Exec, NEW r \in Record, NEW cause \in Causes,
               y \in ids => Lawful(y, r, cause), Commit(y, r, cause), exe'[x] # exe[x]
        PROVE  /\ exe[x].status \in Finished /\ Exists(x) /\ Written(x)
                    => exe'[x].status = exe[x].status \/ step'[x] = "Reset"
               /\ By(x, "redrive") => exe[x].status = "FAILED" /\ Unfinished(exe[x]) = {}
               /\ Exists(x) /\ exe'[x].version = 0
                    => exe[x].status \in Finished /\ <<x, exe[x].version>> \in archived
    <2>1. y = x
      BY <1>0, <1>1, <1>3, CommitType
    <2>2. exe'[x].version = exe[x].version + 1 /\ exe'[x].status = r.status /\ step'[x] = cause
      BY <1>0, <1>3, <2>1, CommitType
    <2>3. QED
      BY <1>1, <1>3, <2>1, <2>2 DEF Lawful, By
  <1>4. ASSUME NEW y \in Exec, y \in ids => Removes(y), exe' = [exe EXCEPT ![y] = Absent],
               step' = [step EXCEPT ![y] = "none"], exe'[x] # exe[x]
        PROVE  /\ exe[x].status \in Finished /\ Exists(x) /\ Written(x)
                    => exe'[x].status = exe[x].status \/ step'[x] = "Reset"
               /\ By(x, "redrive") => exe[x].status = "FAILED" /\ Unfinished(exe[x]) = {}
               /\ Exists(x) /\ exe'[x].version = 0
                    => exe[x].status \in Finished /\ <<x, exe[x].version>> \in archived
    <2>1. y = x
      BY <1>0, <1>1, <1>4, RemoveType
    <2>2. exe'[x].version = 0
      BY <1>0, <1>4, <2>1, RemoveType
    <2>3. QED
      BY <1>1, <1>4, <2>1, <2>2 DEF Removes, Written, By
  <1>5. QED
    BY <1>0, <1>2, <1>3, <1>4 DEF RecordsMove

\* The types, whatever lives twice.
THEOREM ControlTypeCorrect == Spec => []TypeOK
  <1>1. Init => IInv({})
    BY InitIsRight
  <1>2. IInv({}) /\ [Next]_vars => IInv({})'
    BY NextKeeps DEF OneLifeOf
  <1>3. IInv({}) => TypeOK
    BY DEF IInv
  <1>4. QED
    BY <1>1, <1>2, <1>3, PTL DEF Spec

\* The invariant, where every id lives once.
LEMMA RightAlways == Spec /\ OneLife => []IInv(Exec)
  <1>1. IInv(Exec) /\ [Next]_vars /\ [OneLifeOf(Exec)]_vars => IInv(Exec)'
    BY NextKeeps
  <1>2. Init => IInv(Exec)
    BY InitIsRight
  <1>3. QED
    BY <1>1, <1>2, PTL DEF Spec, OneLife

\* What is finished stays so, whichever command or worker was about to write it, as long as
\* no id is given a second life.
THEOREM FinishedStays == Spec /\ OneLife => FinishedForGood
  <1>1. IInv(Exec) /\ [Next]_vars => [KeepsFinished(Exec)]_vars
    BY StepIsLawful
  <1>2. QED
    BY <1>1, RightAlways, PTL DEF Spec, FinishedForGood

\* A redrive is decided on the record it writes over, on every attempt.
THEOREM RedriveIsDecided == Spec /\ OneLife => RedriveOrphansNobody
  <1>1. IInv(Exec) /\ [Next]_vars => [RedrivesDeadLetters(Exec)]_vars
    BY StepIsLawful
  <1>2. QED
    BY <1>1, RightAlways, PTL DEF Spec, RedriveOrphansNobody

\* A purge deletes only what it archived as it is.
THEOREM PurgeIsDecided == Spec /\ OneLife => PurgedAsArchived
  <1>1. IInv(Exec) /\ [Next]_vars => [PurgesArchived(Exec)]_vars
    BY StepIsLawful
  <1>2. QED
    BY <1>1, RightAlways, PTL DEF Spec, PurgedAsArchived

\* Roots live once: nothing but the relay creates, and it creates children.  So what the
\* commands promise holds of roots as the code is.
THEOREM RootsAreKept ==
  Spec => [][KeepsFinished(Root) /\ RedrivesDeadLetters(Root) /\ PurgesArchived(Root)]_vars
  <1>0. Root \subseteq Exec
    BY ControlAssumption
  <1>1. IInv(Root) /\ [Next]_vars => OneLifeOf(Root)
    <2> SUFFICES ASSUME IInv(Root), [Next]_vars, NEW x \in Root, ~Exists(x), Exists(x)'
                 PROVE  FALSE
      BY DEF OneLifeOf
    <2>0. TypeOK /\ RecordsMove(Root) /\ x \in Exec
      BY <1>0, NextIsStep DEF IInv, Step
    <2>1. exe'[x] # exe[x]
      BY DEF Exists
    <2>2. ASSUME NEW y \in Exec, NEW r \in Record, NEW cause \in Causes,
                 y \in Root => Lawful(y, r, cause), Commit(y, r, cause)
          PROVE  FALSE
      <3>1. y = x
        BY <2>0, <2>1, <2>2, CommitType
      <3>2. QED
        BY <2>2, <3>1 DEF Lawful
    <2>3. ASSUME NEW y \in Exec, exe' = [exe EXCEPT ![y] = Absent], step' = [step EXCEPT ![y] = "none"]
          PROVE  FALSE
      <3>1. y = x
        BY <2>0, <2>1, <2>3, RemoveType
      <3>2. exe'[x].version = 0
        BY <2>0, <2>3, <3>1, RemoveType
      <3>3. QED
        BY <3>2 DEF Exists
    <2>4. QED
      BY <2>0, <2>1, <2>2, <2>3 DEF RecordsMove
  <1>2. Init => IInv(Root)
    BY InitIsRight
  <1>3. IInv(Root) /\ [Next]_vars => IInv(Root)'
    BY <1>0, <1>1, NextKeeps
  <1>4. IInv(Root) /\ [Next]_vars
          => [KeepsFinished(Root) /\ RedrivesDeadLetters(Root) /\ PurgesArchived(Root)]_vars
    BY <1>0, StepIsLawful
  <1>5. QED
    BY <1>2, <1>3, <1>4, PTL DEF Spec
=============================================================================
