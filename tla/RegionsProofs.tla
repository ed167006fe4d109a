---------------------------- MODULE RegionsProofs ----------------------------
(***************************************************************************)
(* Root and its regions are well typed and implement ForkJoin, for every   *)
(* set of regions, every behaviour of theirs, any number of visits and     *)
(* any clients.                                                            *)
(***************************************************************************)
EXTENDS Regions, TLAPS

\* Each Finished in a sequence of messages tells the truth about the child that sent it.
Honest(m, status) ==
  m.kind = "Finished" => m.child \in Child /\ m.verdict \in Verdicts /\ status[m.child] = m.verdict
HonestSeq(s, status) == \A i \in DOMAIN s : Honest(s[i], status)

Truthful == HonestSeq(queue[Root], child) /\ HonestSeq(outbox[Root], child)

\* A visit that can be left has a successor within the bound.
Bounded == site = "fork" => visit < MaxVisits

\* A child that exists, is about to or is in the record belongs to the current visit or to
\* an earlier one: the children of the next visit are unheard of.
NoneAhead == \A c \in Child :
  (child[c] # "absent" \/ c \in spawns \/ children[c] # "none")
    => (c[2] < visit \/ (c[2] = visit /\ site = "fork"))

\* What the record says of a child's verdict is the child's verdict.
Known == \A c \in Child : children[c] \in Verdicts => child[c] = children[c]

\* During a visit, the record holds exactly its children.
Exactly == site = "fork" => \A c \in Child : (children[c] # "none") <=> (c[2] = visit)

Sound == Truthful /\ Bounded /\ NoneAhead /\ Known /\ Exactly
IInv == TypeOK /\ Sound
-----------------------------------------------------------------------------
(* Sequences of messages *)

LEMMA Taken ==
  ASSUME NEW s \in Seq(Message), s # <<>>, NEW status, HonestSeq(s, status)
  PROVE  HonestSeq(Tail(s), status) /\ Honest(Head(s), status)
  <1>1. Head(s) = s[1] /\ 1 \in DOMAIN s
    OBVIOUS
  <1>2. \A i \in DOMAIN Tail(s) : i + 1 \in DOMAIN s /\ Tail(s)[i] = s[i + 1]
    OBVIOUS
  <1>3. QED
    BY <1>1, <1>2 DEF HonestSeq

LEMMA Added ==
  ASSUME NEW s \in Seq(Message), NEW m \in Message, NEW status, HonestSeq(s, status), Honest(m, status)
  PROVE  HonestSeq(Append(s, m), status)
  <1>1. \A i \in DOMAIN Append(s, m) : Append(s, m)[i] = IF i \in DOMAIN s THEN s[i] ELSE m
    OBVIOUS
  <1>2. QED
    BY <1>1 DEF HonestSeq

\* A verdict is final, so what was true of it stays true.
LEMMA StaysHonest ==
  ASSUME NEW s, NEW status, NEW later, HonestSeq(s, status),
         \A c \in Child : status[c] \in Verdicts => later[c] = status[c]
  PROVE  HonestSeq(s, later)
  BY DEF HonestSeq, Honest

LEMMA HeadType ==
  ASSUME TypeOK, NEW g \in Group, NEW m, Head1(g, m)
  PROVE  m \in Message /\ queue[g] \in Seq(Message) /\ Tail(queue[g]) \in Seq(Message)
  BY DEF TypeOK, Head1

LEMMA HeadHonest ==
  ASSUME TypeOK, Truthful, NEW m, Head1(Root, m)
  PROVE  Honest(m, child) /\ HonestSeq(Tail(queue[Root]), child)
  BY HeadType, Taken DEF Truthful, Head1, Group

LEMMA InputType == \A m \in Input : m \in Message
  BY RegionsAssumption DEF Message, Plain, Kinds

LEMMA CancelType == Cancel \in Message
  BY DEF Message, Plain, Kinds, Cancel

LEMMA FinishedType == \A c \in Child, v \in Verdicts : Finished(c, v) \in Message
  BY DEF Message, Finished, Kinds

LEMMA RootApart == Root \in Group /\ Child \subseteq Group /\ Root \notin Child
  BY RegionsAssumption DEF Group
-----------------------------------------------------------------------------
(* Types *)

LEMMA AppendType ==
  ASSUME NEW f \in [Group -> Seq(Message)], NEW g \in Group, NEW m \in Message
  PROVE  [f EXCEPT ![g] = Append(@, m)] \in [Group -> Seq(Message)]
  OBVIOUS

LEMMA TailType ==
  ASSUME NEW f \in [Group -> Seq(Message)], NEW g \in Group, f[g] # <<>>
  PROVE  [f EXCEPT ![g] = Tail(@)] \in [Group -> Seq(Message)]
  OBVIOUS

LEMMA MarkType ==
  ASSUME NEW f \in [Group -> SUBSET Message], NEW g \in Group, NEW m \in Message
  PROVE  [f EXCEPT ![g] = @ \cup {m}] \in [Group -> SUBSET Message]
  OBVIOUS

LEMMA NoCastType == NoCast \in [pc : {"idle", "look", "publish"}, load : SUBSET Child, live : SUBSET Child]
  BY DEF NoCast

\* What every step of Root's machine does to the rest of the state.
LEMMA RootTakesType ==
  ASSUME TypeOK, NEW m, RootTakes(m)
  PROVE  /\ m \in Message
         /\ queue' \in [Group -> Seq(Message)] /\ processed' \in [Group -> SUBSET Message]
         /\ cast' \in [pc : {"idle", "look", "publish"}, load : SUBSET Child, live : SUBSET Child]
         /\ child' \in [Child -> {"absent"} \cup Unfinished \cup Verdicts]
         /\ sweep' \in [pc : {"idle", "publish", "delete"}, visit : Visits]
         /\ sent' \subseteq Input /\ crashes' \in Nat
  <1>1. Root \in Group
    BY RootApart
  <1>2. m \in Message /\ queue[Root] # <<>>
    BY <1>1, HeadType DEF RootTakes, Head1
  <1>3. queue' \in [Group -> Seq(Message)]
    BY <1>1, <1>2, TailType DEF RootTakes, Next1, TypeOK
  <1>4. processed' \in [Group -> SUBSET Message]
    BY <1>1, <1>2, MarkType DEF RootTakes, TypeOK
  <1>5. QED
    BY <1>2, <1>3, <1>4, NoCastType DEF RootTakes, TypeOK

LEMMA LeaveType ==
  ASSUME TypeOK, Bounded, site = "fork", NEW known, Leave(known)
  PROVE  visit' \in Visits /\ outbox' \in [Group -> Seq(Message)]
  <1>1. visit' \in Visits
    BY RegionsAssumption DEF TypeOK, Bounded, Leave, Visits
  <1>2. \A g \in Group : Append(outbox[g], Cancel) \in Seq(Message)
    BY CancelType DEF TypeOK
  <1>3. QED
    BY <1>1, <1>2 DEF Leave, TypeOK

LEMMA MachineType ==
  ASSUME TypeOK, Sound, NEW m, Machine(m)
  PROVE  TypeOK'
  <1>1. CASE Fork(m)
    <2>1. New \subseteq Child
      BY DEF New
    <2>2. children' \in [Child -> {"none", "live"} \cup Verdicts]
      BY <1>1 DEF Fork
    <2>3. timers' \subseteq Visits
      BY <1>1 DEF Fork, TypeOK
    <2>4. QED
      BY <1>1, <2>1, <2>2, <2>3, RootTakesType DEF Fork, TypeOK, Sites
  <1>2. CASE Activity(m)
    BY <1>2, RootTakesType DEF Activity, TypeOK, record
  <1>3. CASE Report(m)
    <2>1. RootTakes(m) /\ Head1(Root, m) /\ m.kind = "Finished"
      BY <1>3 DEF Report, RootTakes
    <2>2. m.child \in Child /\ m.verdict \in Verdicts
      BY <2>1, HeadHonest DEF Sound, Honest
    <2>3. children' \in [Child -> {"none", "live"} \cup Verdicts]
      BY <1>3, <2>2 DEF Report, TypeOK
    <2>4. site' \in Sites /\ timers' \subseteq Visits /\ visit' \in Visits /\ outbox' \in [Group -> Seq(Message)]
      <3>1. CASE site = "fork" /\ JoinOpen(children')
        BY <1>3, <3>1, LeaveType DEF Report, Sites, Sound
      <3>2. CASE ~(site = "fork" /\ JoinOpen(children'))
        BY <1>3, <3>2 DEF Report, TypeOK
      <3>3. QED
        BY <3>1, <3>2
    <2>5. QED
      BY <1>3, <2>1, <2>3, <2>4, RootTakesType DEF Report, TypeOK
  <1>4. CASE Expire(m)
    <2>1. site' \in Sites /\ timers' \subseteq Visits /\ visit' \in Visits /\ outbox' \in [Group -> Seq(Message)]
      <3>1. CASE site = "fork"
        BY <1>4, <3>1, LeaveType DEF Expire, Sites, Sound
      <3>2. CASE site # "fork"
        BY <1>4, <3>2 DEF Expire, TypeOK
      <3>3. QED
        BY <3>1, <3>2
    <2>2. QED
      BY <1>4, <2>1, RootTakesType DEF Expire, TypeOK
  <1>5. CASE Reset(m)
    <2>1. visit' \in Visits /\ outbox' \in [Group -> Seq(Message)]
      <3>1. CASE site = "fork"
        BY <1>5, <3>1, LeaveType DEF Reset, Sound
      <3>2. CASE site # "fork"
        BY <1>5, <3>2 DEF Reset, TypeOK
      <3>3. QED
        BY <3>1, <3>2
    <2>2. children' \in [Child -> {"none", "live"} \cup Verdicts]
      BY <1>5 DEF Reset
    <2>3. QED
      BY <1>5, <2>1, <2>2, RootTakesType DEF Reset, TypeOK, Sites
  <1>6. QED
    BY <1>1, <1>2, <1>3, <1>4, <1>5 DEF Machine

LEMMA CastingType ==
  ASSUME TypeOK, NEW m, Casting(m)
  PROVE  TypeOK'
  <1>1. CASE BeginCast(m)
    BY <1>1 DEF BeginCast, Live, TypeOK, record
  <1>2. CASE CommitCast(m)
    <2>1. Root \in Group /\ m \in Message /\ queue[Root] # <<>>
      BY <1>2, RootApart, HeadType DEF CommitCast, Head1
    <2>2. queue' \in [Group -> Seq(Message)]
      BY <1>2, <2>1, TailType DEF CommitCast, Next1, TypeOK
    <2>3. processed' \in [Group -> SUBSET Message]
      BY <1>2, <2>1, MarkType DEF CommitCast, TypeOK
    <2>4. QED
      BY <1>2, <2>2, <2>3, NoCastType DEF CommitCast, TypeOK, record
  <1>3. QED
    BY <1>1, <1>2 DEF Casting

LEMMA PublishToType ==
  ASSUME TypeOK, queue[Root] # <<>>, NEW c \in Child, LookAt(c) \/ PublishTo(c)
  PROVE  TypeOK'
  <1>1. CASE LookAt(c)
    BY <1>1 DEF LookAt, TypeOK, record
  <1>2. CASE PublishTo(c)
    <2>1. c \in Group /\ Head(queue[Root]) \in Message
      BY RootApart, HeadType DEF Head1
    <2>2. queue' \in [Group -> Seq(Message)]
      BY <1>2, <2>1, AppendType DEF PublishTo, TypeOK
    <2>3. QED
      BY <1>2, <2>2 DEF PublishTo, TypeOK, record
  <1>3. QED
    BY <1>1, <1>2

\* A child's new status, and its Finished if it has one to send.
LEMMA BecomesType ==
  ASSUME TypeOK, NEW c \in Child, NEW status \in {"absent"} \cup Unfinished \cup Verdicts, Becomes(c, status)
  PROVE  child' \in [Child -> {"absent"} \cup Unfinished \cup Verdicts] /\ outbox' \in [Group -> Seq(Message)]
  <1>1. status \in Verdicts => Finished(c, status) \in Message
    BY FinishedType
  <1>2. outbox' \in [Group -> Seq(Message)]
    BY <1>1, RootApart, AppendType DEF Becomes, TypeOK
  <1>3. QED
    BY <1>2 DEF Becomes, TypeOK

LEMMA OutcomeType ==
  \A c \in Child : \A kind : Outcome(c, kind) \subseteq Unfinished \cup Verdicts
  BY DEF Outcome, Unfinished, Verdicts

LEMMA ChildType ==
  ASSUME TypeOK, NEW c \in Child, Create(c) \/ RegionTakes(c) \/ Terminate(c)
  PROVE  TypeOK'
  <1>1. CASE Create(c)
    <2>1. child' \in [Child -> {"absent"} \cup Unfinished \cup Verdicts] /\ outbox' \in [Group -> Seq(Message)]
      <3>1. CASE IsCreated(c)
        BY <1>1, <3>1 DEF Create, TypeOK
      <3>2. CASE ~IsCreated(c)
        BY <1>1, <3>2, OutcomeType, BecomesType DEF Create
      <3>3. QED
        BY <3>1, <3>2
    <2>2. QED
      BY <1>1, <2>1 DEF Create, TypeOK, record
  <1>2. CASE RegionTakes(c)
    <2> DEFINE m == Head(queue[c])
    <2>1. c \in Group /\ queue[c] # <<>> /\ m \in Message
      BY <1>2, RootApart, HeadType DEF RegionTakes, Head1
    <2>2. queue' \in [Group -> Seq(Message)]
      BY <1>2, <2>1, TailType DEF RegionTakes, Next1, TypeOK
    <2>3. processed' \in [Group -> SUBSET Message]
      <3>1. [processed EXCEPT ![c] = @ \cup {m}] \in [Group -> SUBSET Message]
        BY <2>1, MarkType DEF TypeOK
      <3>2. processed' = processed \/ processed' = [processed EXCEPT ![c] = @ \cup {m}]
        BY <1>2 DEF RegionTakes
      <3>3. QED
        BY <3>1, <3>2 DEF TypeOK
    <2>4. child' \in [Child -> {"absent"} \cup Unfinished \cup Verdicts] /\ outbox' \in [Group -> Seq(Message)]
      <3>1. CASE UNCHANGED <<child, outbox>>
        BY <3>1 DEF TypeOK
      <3>2. CASE \E status \in Unfinished \cup Verdicts : Becomes(c, status)
        BY <3>2, BecomesType
      <3>3. QED
        BY <1>2, <3>1, <3>2, OutcomeType DEF RegionTakes, Unfinished
    <2>5. QED
      BY <1>2, <2>2, <2>3, <2>4 DEF RegionTakes, TypeOK, record
  <1>3. CASE Terminate(c)
    BY <1>3 DEF Terminate, TypeOK, record, Unfinished
  <1>4. QED
    BY <1>1, <1>2, <1>3

LEMMA PublishType ==
  ASSUME TypeOK, NEW g \in Group, Publish(g)
  PROVE  TypeOK'
  <1>1. outbox[g] \in Seq(Message) /\ outbox[g] # <<>>
    BY DEF Publish, TypeOK
  <1>2. Head(outbox[g]) \in Message
    BY <1>1
  <1>3. queue' \in [Group -> Seq(Message)]
    BY <1>2, AppendType DEF Publish, TypeOK
  <1>4. outbox' \in [Group -> Seq(Message)]
    BY <1>1, TailType DEF Publish, TypeOK
  <1>5. QED
    BY <1>3, <1>4 DEF Publish, TypeOK, record

LEMMA SweepType ==
  ASSUME TypeOK, ReadDue \/ PublishTimeout \/ DeleteTimer
  PROVE  TypeOK'
  <1>1. CASE ReadDue
    BY <1>1 DEF ReadDue, TypeOK, record
  <1>2. CASE PublishTimeout
    <2>1. Plain("Timeout", sweep.visit) \in Message
      BY RegionsAssumption DEF TypeOK, Plain, Message, Kinds, Visits
    <2>2. queue' \in [Group -> Seq(Message)]
      BY <1>2, <2>1, RootApart, AppendType DEF PublishTimeout, TypeOK
    <2>3. QED
      BY <1>2, <2>2 DEF PublishTimeout, TypeOK, record
  <1>3. CASE DeleteTimer
    <2>1. sweep' \in [pc : {"idle", "publish", "delete"}, visit : Visits]
      BY <1>3, RegionsAssumption DEF DeleteTimer, NoSweep, Visits
    <2>2. QED
      BY <1>3, <2>1 DEF DeleteTimer, TypeOK
  <1>4. QED
    BY <1>1, <1>2, <1>3

LEMMA SendType ==
  ASSUME TypeOK, NEW m \in Input, Send(m)
  PROVE  TypeOK'
  <1>1. queue' \in [Group -> Seq(Message)]
    BY InputType, RootApart, AppendType DEF Send, TypeOK
  <1>2. QED
    BY <1>1 DEF Send, TypeOK, record

LEMMA CrashType ==
  ASSUME TypeOK, Crash
  PROVE  TypeOK'
  BY NoCastType DEF Crash, TypeOK, record

LEMMA StepType ==
  ASSUME TypeOK, Sound, [Next]_vars
  PROVE  TypeOK'
  <1>1. CASE RootStep
    <2>1. CASE Machine(Head(queue[Root])) \/ Casting(Head(queue[Root]))
      BY <2>1, MachineType, CastingType
    <2>2. CASE \E c \in Child : LookAt(c) \/ PublishTo(c)
      BY <1>1, <2>2, PublishToType DEF RootStep
    <2>3. QED
      BY <1>1, <2>1, <2>2 DEF RootStep
  <1>2. CASE \E c \in Child : Create(c) \/ RegionTakes(c) \/ Terminate(c)
    BY <1>2, ChildType
  <1>3. CASE UNCHANGED vars
    BY <1>3 DEF vars, record, TypeOK
  <1>4. QED
    BY <1>1, <1>2, <1>3, CrashType, PublishType, SweepType, SendType DEF Next
-----------------------------------------------------------------------------
(* Finished messages, the record and the children agree *)

LEMMA ChildVisit == \A c \in Child : c[2] \in Int
  BY RegionsAssumption DEF Child, Visits

\* A step that moves messages only has to keep them honest.
LEMMA QuietSound ==
  ASSUME Sound, UNCHANGED <<site, visit, children, child, spawns>>, Truthful'
  PROVE  Sound'
  BY DEF Sound, Bounded, NoneAhead, Known, Exactly

LEMMA SilentSound ==
  ASSUME Sound, UNCHANGED <<site, visit, children, child, spawns>>,
         queue'[Root] = queue[Root], outbox'[Root] = outbox[Root]
  PROVE  Sound'
  BY QuietSound DEF Sound, Truthful

LEMMA RootTakesTruthful ==
  ASSUME TypeOK, Sound, NEW m, RootTakes(m), outbox'[Root] = outbox[Root]
  PROVE  Truthful'
  <1>1. queue'[Root] = Tail(queue[Root])
    BY RootApart DEF RootTakes, Next1, TypeOK
  <1>2. HonestSeq(Tail(queue[Root]), child)
    BY HeadHonest DEF RootTakes, Sound
  <1>3. QED
    BY <1>1, <1>2 DEF RootTakes, Sound, Truthful

LEMMA LeaveOutbox ==
  ASSUME NEW known, Leave(known)
  PROVE  outbox'[Root] = outbox[Root]
  BY RootApart DEF Leave, Live

\* Leaving the visit: nothing of the next one is known.
LEMMA LeftSound ==
  ASSUME TypeOK, Sound, site = "fork", site' # "fork", visit' = visit + 1,
         UNCHANGED <<child, spawns>>, Truthful', Known',
         \A c \in Child : children'[c] # "none" => children[c] # "none"
  PROVE  Sound'
  <1>1. visit \in Int
    BY RegionsAssumption DEF TypeOK, Visits
  <1>2. NoneAhead'
    BY <1>1, ChildVisit DEF Sound, NoneAhead
  <1>3. QED
    BY <1>2 DEF Sound, Bounded, Exactly

LEMMA ForkSound ==
  ASSUME TypeOK, Sound, NEW m, Fork(m)
  PROVE  Sound'
  <1>1. Truthful'
    BY RootTakesTruthful DEF Fork
  <1>2. NoneAhead'
    BY DEF Fork, New, Sound, NoneAhead, RootTakes
  <1>3. Known'
    BY DEF Fork, Known, Verdicts
  <1>4. Exactly'
    BY DEF Fork, New, Exactly
  <1>5. QED
    BY <1>1, <1>2, <1>3, <1>4 DEF Fork, Sound, Bounded

\* A Finished updates the record with what it says, and it says the truth.
LEMMA ReportRecord ==
  ASSUME TypeOK, Sound, NEW m, Report(m)
  PROVE  /\ \A c \in Child : children'[c] \in Verdicts => child[c] = children'[c]
         /\ \A c \in Child : children'[c] = "none" <=> children[c] = "none"
  <1>1. m.child \in Child /\ m.verdict \in Verdicts /\ child[m.child] = m.verdict
    BY HeadHonest DEF Report, RootTakes, Sound, Honest
  <1>2. \A c \in Child :
          children'[c] = IF c = m.child /\ children[c] # "none" THEN m.verdict ELSE children[c]
    BY <1>1 DEF Report, TypeOK
  <1>3. QED
    BY <1>1, <1>2 DEF Sound, Known, Verdicts

LEMMA ReportSound ==
  ASSUME TypeOK, Sound, NEW m, Report(m)
  PROVE  Sound'
  <1>1. RootTakes(m) /\ UNCHANGED <<child, spawns>>
    BY DEF Report, RootTakes
  <1>2. Known'
    BY <1>1, ReportRecord DEF Known
  <1>3. outbox'[Root] = outbox[Root]
    BY LeaveOutbox DEF Report
  <1>4. Truthful'
    BY <1>1, <1>3, RootTakesTruthful
  <1>5. CASE site = "fork" /\ JoinOpen(children')
    BY <1>1, <1>2, <1>4, <1>5, ReportRecord, LeftSound DEF Report, Leave
  <1>6. CASE ~(site = "fork" /\ JoinOpen(children'))
    BY <1>1, <1>2, <1>4, <1>6, ReportRecord DEF Report, Sound, Bounded, NoneAhead, Exactly
  <1>7. QED
    BY <1>5, <1>6

LEMMA ExpireSound ==
  ASSUME TypeOK, Sound, NEW m, Expire(m)
  PROVE  Sound'
  <1>1. RootTakes(m) /\ UNCHANGED <<child, spawns, children>>
    BY DEF Expire, RootTakes
  <1>2. outbox'[Root] = outbox[Root]
    BY LeaveOutbox DEF Expire
  <1>3. Truthful'
    BY <1>1, <1>2, RootTakesTruthful
  <1>4. Known'
    BY <1>1 DEF Sound, Known
  <1>5. CASE site = "fork"
    BY <1>1, <1>3, <1>4, <1>5, LeftSound DEF Expire, Leave
  <1>6. CASE site # "fork"
    BY <1>1, <1>3, <1>6, QuietSound DEF Expire
  <1>7. QED
    BY <1>5, <1>6

LEMMA ResetSound ==
  ASSUME TypeOK, Sound, NEW m, Reset(m)
  PROVE  Sound'
  <1>1. RootTakes(m) /\ UNCHANGED <<child, spawns>> /\ site' = "before"
    BY DEF Reset, RootTakes
  <1>2. outbox'[Root] = outbox[Root]
    BY LeaveOutbox DEF Reset
  <1>3. Truthful'
    BY <1>1, <1>2, RootTakesTruthful
  <1>4. Known' /\ \A c \in Child : children'[c] = "none"
    BY DEF Reset, Known, Verdicts
  <1>5. CASE site = "fork"
    BY <1>1, <1>3, <1>4, <1>5, LeftSound DEF Reset, Leave
  <1>6. CASE site # "fork"
    BY <1>1, <1>3, <1>4, <1>6 DEF Reset, Sound, Bounded, NoneAhead, Exactly
  <1>7. QED
    BY <1>5, <1>6

\* A child that has no verdict yet takes a new status, and reports it if it is one.
LEMMA BecomesSound ==
  ASSUME TypeOK, Sound, NEW c \in Child, NEW status, Becomes(c, status),
         child[c] \notin Verdicts, child[c] # "absent" \/ c \in spawns, spawns' \subseteq spawns,
         queue'[Root] = queue[Root], UNCHANGED <<site, visit, children>>
  PROVE  Sound'
  <1>1. \A d \in Child : child'[d] = IF d = c THEN status ELSE child[d]
    BY DEF Becomes, TypeOK
  <1>2. HonestSeq(queue[Root], child') /\ HonestSeq(outbox[Root], child')
    BY <1>1, StaysHonest DEF Sound, Truthful
  <1>3. HonestSeq(outbox'[Root], child')
    <2>1. CASE status \in Verdicts
      <3>1. Finished(c, status) \in Message /\ Honest(Finished(c, status), child')
        BY <1>1, <2>1, FinishedType DEF Finished, Honest
      <3>2. outbox[Root] \in Seq(Message) /\ outbox'[Root] = Append(outbox[Root], Finished(c, status))
        BY <2>1, RootApart DEF Becomes, TypeOK
      <3>3. QED
        BY <1>2, <3>1, <3>2, Added
    <2>2. CASE status \notin Verdicts
      BY <1>2, <2>2 DEF Becomes
    <2>3. QED
      BY <2>1, <2>2
  <1>4. Truthful'
    BY <1>2, <1>3 DEF Truthful
  <1>5. NoneAhead'
    BY <1>1 DEF Sound, NoneAhead
  <1>6. Known'
    BY <1>1 DEF Sound, Known
  <1>7. QED
    BY <1>4, <1>5, <1>6 DEF Sound, Bounded, Exactly

LEMMA Unsettled == \A c \in Child :
  /\ child[c] \in {"absent", "RUNNING", "FAILED"} => child[c] \notin Verdicts
  /\ "CANCELLED" \notin Verdicts
  BY DEF Verdicts

LEMMA ChildSound ==
  ASSUME TypeOK, Sound, NEW c \in Child, Create(c) \/ RegionTakes(c) \/ Terminate(c)
  PROVE  Sound'
  <1>1. CASE Create(c)
    <2>1. UNCHANGED <<site, visit, children>> /\ queue' = queue /\ c \in spawns /\ spawns' \subseteq spawns
      BY <1>1 DEF Create, record
    <2>2. CASE IsCreated(c)
      <3>1. UNCHANGED <<child, outbox>>
        BY <1>1, <2>2 DEF Create
      <3>2. QED
        BY <2>1, <3>1 DEF Sound, Truthful, Bounded, NoneAhead, Known, Exactly
    <2>3. CASE ~IsCreated(c)
      BY <1>1, <2>1, <2>3, Unsettled, BecomesSound DEF Create, IsCreated
    <2>4. QED
      BY <2>2, <2>3
  <1>2. CASE RegionTakes(c)
    <2>1. UNCHANGED <<site, visit, children, spawns>> /\ queue'[Root] = queue[Root] /\ child[c] # "absent"
      BY <1>2, RootApart DEF RegionTakes, Next1, TypeOK, record, IsCreated
    <2>2. CASE UNCHANGED <<child, outbox>>
      BY <2>1, <2>2, SilentSound
    <2>3. CASE child[c] \in {"RUNNING", "FAILED"} /\ \E status : Becomes(c, status)
      BY <2>1, <2>3, Unsettled, BecomesSound
    <2>4. QED
      BY <1>2, <2>2, <2>3 DEF RegionTakes
  <1>3. CASE Terminate(c)
    <2>1. Becomes(c, "CANCELLED") /\ child[c] \in {"RUNNING", "FAILED"}
      BY <1>3, Unsettled DEF Terminate, Becomes
    <2>2. QED
      BY <1>3, <2>1, Unsettled, BecomesSound DEF Terminate, record
  <1>4. QED
    BY <1>1, <1>2, <1>3

LEMMA PublishSound ==
  ASSUME TypeOK, Sound, NEW g \in Group, Publish(g)
  PROVE  Sound'
  <1>1. CASE g = Root
    <2>1. outbox[Root] \in Seq(Message) /\ queue[Root] \in Seq(Message) /\ outbox[Root] # <<>>
      BY <1>1 DEF Publish, TypeOK
    <2>2. HonestSeq(Tail(outbox[Root]), child) /\ Honest(Head(outbox[Root]), child)
      BY <2>1, Taken DEF Sound, Truthful
    <2>3. HonestSeq(Append(queue[Root], Head(outbox[Root])), child)
      BY <2>1, <2>2, Added DEF Sound, Truthful
    <2>4. queue'[Root] = Append(queue[Root], Head(outbox[Root])) /\ outbox'[Root] = Tail(outbox[Root])
      BY <1>1 DEF Publish, TypeOK
    <2>5. QED
      BY <2>2, <2>3, <2>4, QuietSound DEF Publish, record, Truthful
  <1>2. CASE g # Root
    BY <1>2, RootApart, SilentSound DEF Publish, TypeOK, record
  <1>3. QED
    BY <1>1, <1>2

\* A message that is no Finished may be added to Root's queue at will.
LEMMA OtherSound ==
  ASSUME TypeOK, Sound, NEW m \in Message, m.kind # "Finished",
         queue' = [queue EXCEPT ![Root] = Append(@, m)],
         UNCHANGED <<site, visit, children, child, spawns, outbox>>
  PROVE  Sound'
  <1>1. queue[Root] \in Seq(Message) /\ queue'[Root] = Append(queue[Root], m)
    BY RootApart DEF TypeOK
  <1>2. HonestSeq(Append(queue[Root], m), child)
    BY <1>1, Added DEF Sound, Truthful, Honest
  <1>3. QED
    BY <1>1, <1>2, QuietSound DEF Sound, Truthful

LEMMA SweepSound ==
  ASSUME TypeOK, Sound, ReadDue \/ PublishTimeout \/ DeleteTimer
  PROVE  Sound'
  <1>1. CASE ReadDue \/ DeleteTimer
    BY <1>1, SilentSound DEF ReadDue, DeleteTimer, record
  <1>2. CASE PublishTimeout
    <2>1. Plain("Timeout", sweep.visit) \in Message /\ Plain("Timeout", sweep.visit).kind # "Finished"
      BY RegionsAssumption DEF TypeOK, Plain, Message, Kinds, Visits
    <2>2. QED
      BY <1>2, <2>1, OtherSound DEF PublishTimeout, record
  <1>3. QED
    BY <1>1, <1>2

LEMMA SendSound ==
  ASSUME TypeOK, Sound, NEW m \in Input, Send(m)
  PROVE  Sound'
  <1>1. m \in Message /\ m.kind # "Finished"
    BY InputType, RegionsAssumption
  <1>2. QED
    BY <1>1, OtherSound DEF Send, record

LEMMA RootSound ==
  ASSUME TypeOK, Sound, RootStep
  PROVE  Sound'
  <1> DEFINE m == Head(queue[Root])
  <1>1. CASE Machine(m)
    <2>1. CASE Activity(m)
      BY <2>1, RootTakesTruthful, QuietSound DEF Activity, RootTakes, record
    <2>2. QED
      BY <1>1, <2>1, ForkSound, ReportSound, ExpireSound, ResetSound DEF Machine
  <1>2. CASE BeginCast(m)
    BY <1>2, SilentSound DEF BeginCast, record
  <1>3. CASE CommitCast(m)
    <2>1. queue'[Root] = Tail(queue[Root])
      BY <1>3, RootApart DEF CommitCast, Next1, TypeOK
    <2>2. HonestSeq(Tail(queue[Root]), child)
      BY <1>3, HeadHonest DEF CommitCast, Sound
    <2>3. QED
      BY <1>3, <2>1, <2>2, QuietSound DEF CommitCast, record, Sound, Truthful
  <1>4. CASE \E c \in Child : LookAt(c) \/ PublishTo(c)
    <2>1. PICK c \in Child : LookAt(c) \/ PublishTo(c)
      BY <1>4
    <2>2. queue'[Root] = queue[Root]
      BY <2>1, RootApart DEF LookAt, PublishTo, TypeOK
    <2>3. QED
      BY <2>1, <2>2, SilentSound DEF LookAt, PublishTo, record
  <1>5. QED
    BY <1>1, <1>2, <1>3, <1>4 DEF RootStep, Casting

LEMMA StepSound ==
  ASSUME TypeOK, Sound, [Next]_vars
  PROVE  Sound'
  <1>1. CASE Crash \/ UNCHANGED vars
    BY <1>1, SilentSound DEF Crash, vars, record
  <1>2. QED
    BY <1>1, RootSound, ChildSound, PublishSound, SweepSound, SendSound DEF Next

LEMMA InitInv == Init => IInv
  <1> SUFFICES ASSUME Init PROVE IInv
    OBVIOUS
  <1>1. TypeOK
    BY RegionsAssumption, NoCastType DEF Init, TypeOK, Sites, Visits, NoSweep
  <1>2. Truthful
    BY RootApart DEF Init, Truthful, HonestSeq
  <1>3. Bounded /\ NoneAhead /\ Known /\ Exactly
    BY DEF Init, Bounded, NoneAhead, Known, Exactly, Verdicts
  <1>4. QED
    BY <1>1, <1>2, <1>3 DEF IInv, Sound

LEMMA Inductive == Spec => []IInv
  <1>1. IInv /\ [Next]_vars => IInv'
    BY StepType, StepSound DEF IInv
  <1>2. QED
    BY InitInv, <1>1, PTL DEF Spec

\* Root's record, its regions and every message between them stay well typed: in particular
\* no more visits are begun than the bound, and only verdicts are ever reported.
THEOREM RegionsTypeCorrect == Spec => []TypeOK
  BY Inductive, PTL DEF IInv
-----------------------------------------------------------------------------
(* ForkJoin is implemented *)

\* Outside the orthogonal state, no region of the next visit has ended.
LEMMA NoVerdictOutside ==
  ASSUME TypeOK, Sound, site # "fork"
  PROVE  VerdictOf = FJ!NoVerdicts
  <1>1. \A r \in Region : <<r, visit>> \in Child /\ <<r, visit>>[2] = visit
    BY DEF Child, TypeOK
  <1>2. \A c \in Child : child[c] # "absent" => c[2] < visit
    BY DEF Sound, NoneAhead
  <1>3. visit \in Int
    BY RegionsAssumption DEF TypeOK, Visits
  <1>4. \A r \in Region : child[<<r, visit>>] = "absent"
    <2> TAKE r \in Region
    <2> DEFINE c == <<r, visit>>
    <2>1. c \in Child /\ ~(c[2] < visit)
      BY <1>1, <1>3
    <2>2. QED
      BY <1>2, <2>1
  <1>5. QED
    BY <1>4 DEF VerdictOf, FJ!NoVerdicts, Verdicts

\* Leaving it, neither.
LEMMA LeftVerdicts ==
  ASSUME TypeOK', Sound', site' # "fork"
  PROVE  VerdictOf' = FJ!NoVerdicts
  <1>1. \A r \in Region : <<r, visit'>> \in Child /\ <<r, visit'>>[2] = visit'
    BY DEF Child, TypeOK
  <1>2. \A c \in Child : child'[c] # "absent" => c[2] < visit'
    BY DEF Sound, NoneAhead
  <1>3. visit' \in Int
    BY RegionsAssumption DEF TypeOK, Visits
  <1>4. \A r \in Region : child'[<<r, visit'>>] = "absent"
    <2> TAKE r \in Region
    <2> DEFINE c == <<r, visit'>>
    <2>1. c \in Child /\ ~(c[2] < visit')
      BY <1>1, <1>3
    <2>2. QED
      BY <1>2, <2>1
  <1>5. QED
    BY <1>4 DEF VerdictOf, FJ!NoVerdicts, Verdicts

LEMMA OpenImplemented ==
  ASSUME TypeOK, Sound, NEW m, Fork(m)
  PROVE  FJ!Open
  <1>1. VerdictOf' = VerdictOf
    BY DEF Fork, RootTakes, VerdictOf
  <1>2. QED
    BY <1>1, NoVerdictOutside DEF Fork, FJ!Open

LEMMA GateImplemented ==
  ASSUME TypeOK, Sound, NEW m, Report(m), site = "fork", JoinOpen(children')
  PROVE  FJ!JoinOpen
  <1>1. \A c \in Child : children'[c] # "none" <=> c[2] = visit
    BY ReportRecord DEF Sound, Exactly
  <1>2. \A c \in Child : children'[c] \in Verdicts => child[c] = children'[c]
    BY ReportRecord
  <1>3. \A r \in Region : <<r, visit>> \in Child /\ <<r, visit>>[2] = visit
    BY DEF Child, TypeOK
  <1>4. CASE Live(children') = {}
    <2>1. \A c \in Child : children'[c] \in {"none", "live"} \cup Verdicts
      BY MachineType DEF Machine, TypeOK
    <2>2. \A r \in Region : children'[<<r, visit>>] \in Verdicts
      BY <1>1, <1>3, <1>4, <2>1 DEF Live
    <2>3. QED
      BY <1>2, <1>3, <2>2 DEF FJ!JoinOpen, VerdictOf, Verdicts
  <1>5. CASE CancelOnFailure /\ \E c \in Child : children'[c] = "failure"
    <2>1. PICK c \in Child : children'[c] = "failure"
      BY <1>5
    <2>2. c[1] \in Region /\ c = <<c[1], visit>> /\ child[c] = "failure"
      BY <1>1, <1>2, <2>1 DEF Child, Verdicts
    <2>3. VerdictOf[c[1]] = "failure"
      BY <2>2 DEF VerdictOf, Verdicts
    <2>4. QED
      BY <1>5, <2>2, <2>3 DEF FJ!JoinOpen
  <1>6. QED
    BY <1>4, <1>5 DEF JoinOpen

\* Whatever Root's machine does is a step of ForkJoin, or no step of it at all.
LEMMA MachineImplements ==
  ASSUME TypeOK, Sound, TypeOK', Sound', NEW m, Machine(m)
  PROVE  FJ!Next \/ UNCHANGED <<site, VerdictOf>>
  <1>1. CASE Fork(m)
    BY <1>1, OpenImplemented DEF FJ!Next
  <1>2. CASE Activity(m)
    BY <1>2 DEF Activity, RootTakes, record, VerdictOf
  <1>3. CASE Report(m)
    <2>1. CASE site = "fork" /\ JoinOpen(children')
      <3>1. FJ!Join
        BY <1>3, <2>1, GateImplemented, LeftVerdicts DEF Report, FJ!Join
      <3>2. QED
        BY <3>1 DEF FJ!Next
    <2>2. CASE ~(site = "fork" /\ JoinOpen(children'))
      BY <1>3, <2>2 DEF Report, RootTakes, VerdictOf
    <2>3. QED
      BY <2>1, <2>2
  <1>4. CASE Expire(m)
    <2>1. CASE site = "fork"
      <3>1. FJ!Expire
        BY <1>4, <2>1, LeftVerdicts DEF Expire, FJ!Expire
      <3>2. QED
        BY <3>1 DEF FJ!Next
    <2>2. CASE site # "fork"
      BY <1>4, <2>2 DEF Expire, RootTakes, VerdictOf
    <2>3. QED
      BY <2>1, <2>2
  <1>5. CASE Reset(m)
    <2>1. FJ!Reset
      BY <1>5, LeftVerdicts DEF Reset, FJ!Reset
    <2>2. QED
      BY <2>1 DEF FJ!Next
  <1>6. QED
    BY <1>1, <1>2, <1>3, <1>4, <1>5 DEF Machine

\* A region that ends, in a visit that is not over, ends there for ForkJoin too.
LEMMA BecomesImplements ==
  ASSUME TypeOK, Sound, NEW c \in Child, NEW status, Becomes(c, status),
         child[c] \notin Verdicts, child[c] # "absent" \/ c \in spawns, UNCHANGED <<site, visit>>
  PROVE  FJ!Next \/ UNCHANGED <<site, VerdictOf>>
  <1>1. \A d \in Child : child'[d] = IF d = c THEN status ELSE child[d]
    BY DEF Becomes, TypeOK
  <1>2. \A r \in Region : <<r, visit>> \in Child
    BY DEF Child, TypeOK
  <1>3. c[1] \in Region /\ c = <<c[1], c[2]>>
    BY DEF Child
  <1>4. CASE c[2] = visit /\ status \in Verdicts
    <2>1. site = "fork"
      BY <1>4, RegionsAssumption DEF Sound, NoneAhead, TypeOK, Visits
    <2>2. c = <<c[1], visit>>
      BY <1>3, <1>4
    <2>3. VerdictOf[c[1]] = "none"
      BY <1>3, <2>2 DEF VerdictOf
    <2>4. \A r \in Region : child'[<<r, visit>>] = IF r = c[1] THEN status ELSE child[<<r, visit>>]
      BY <1>1, <1>2, <2>2
    <2>5. VerdictOf' = [VerdictOf EXCEPT ![c[1]] = status]
      BY <1>4, <2>4 DEF VerdictOf
    <2>6. FJ!End(c[1], status)
      BY <2>1, <2>3, <2>5 DEF FJ!End
    <2>7. QED
      BY <1>3, <1>4, <2>6 DEF FJ!Next, Verdicts
  <1>5. CASE ~(c[2] = visit /\ status \in Verdicts)
    <2>1. \A r \in Region : \/ child'[<<r, visit>>] = child[<<r, visit>>]
                            \/ child'[<<r, visit>>] \notin Verdicts /\ child[<<r, visit>>] \notin Verdicts
      BY <1>1, <1>2, <1>5
    <2>2. VerdictOf' = VerdictOf
      BY <2>1 DEF VerdictOf
    <2>3. QED
      BY <2>2
  <1>6. QED
    BY <1>4, <1>5

LEMMA ChildImplements ==
  ASSUME TypeOK, Sound, NEW c \in Child, Create(c) \/ RegionTakes(c) \/ Terminate(c)
  PROVE  FJ!Next \/ UNCHANGED <<site, VerdictOf>>
  <1>1. UNCHANGED <<site, visit>>
    BY DEF Create, RegionTakes, Terminate, record
  <1>2. CASE UNCHANGED child
    BY <1>1, <1>2 DEF VerdictOf
  <1>3. CASE Create(c) /\ ~IsCreated(c)
    BY <1>1, <1>3, Unsettled, BecomesImplements DEF Create, IsCreated
  <1>4. CASE child[c] \in {"RUNNING", "FAILED"} /\ \E status : Becomes(c, status)
    BY <1>1, <1>4, Unsettled, BecomesImplements
  <1>5. CASE Terminate(c)
    BY <1>4, <1>5, Unsettled DEF Terminate, Becomes
  <1>6. QED
    BY <1>2, <1>3, <1>4, <1>5 DEF Create, RegionTakes

LEMMA StepImplements ==
  ASSUME TypeOK, Sound, TypeOK', Sound', [Next]_vars
  PROVE  FJ!Next \/ UNCHANGED <<site, VerdictOf>>
  <1>1. CASE UNCHANGED <<site, visit, child>>
    BY <1>1 DEF VerdictOf
  <1>2. CASE RootStep
    <2>1. CASE Machine(Head(queue[Root]))
      BY <2>1, MachineImplements
    <2>2. CASE Casting(Head(queue[Root])) \/ \E c \in Child : LookAt(c) \/ PublishTo(c)
      BY <1>1, <2>2 DEF Casting, BeginCast, CommitCast, LookAt, PublishTo, record
    <2>3. QED
      BY <1>2, <2>1, <2>2 DEF RootStep
  <1>3. CASE \E c \in Child : Create(c) \/ RegionTakes(c) \/ Terminate(c)
    BY <1>3, ChildImplements
  <1>4. CASE \/ Crash \/ ReadDue \/ PublishTimeout \/ DeleteTimer
             \/ \E g \in Group : Publish(g)
             \/ \E m \in Input : Send(m)
    BY <1>1, <1>4 DEF Crash, ReadDue, PublishTimeout, DeleteTimer, Publish, Send, record
  <1>5. QED
    BY <1>1, <1>2, <1>3, <1>4 DEF Next, vars, record

\* Root and its regions implement ForkJoin: the orthogonal state is left by its join only on
\* the verdicts of this very visit's regions, and a verdict is never taken back.
THEOREM JoinsAreSound == Spec => ImplementsForkJoin
  <1>1. Init => FJ!Init
    <2> SUFFICES ASSUME Init PROVE FJ!Init
      OBVIOUS
    <2>1. VerdictOf = FJ!NoVerdicts
      BY InitInv, NoVerdictOutside DEF IInv, Init
    <2>2. QED
      BY <2>1 DEF Init, FJ!Init
  <1>2. IInv /\ IInv' /\ [Next]_vars => [FJ!Next]_<<site, VerdictOf>>
    BY StepImplements DEF IInv
  <1>3. QED
    BY <1>1, <1>2, Inductive, PTL DEF Spec, ImplementsForkJoin, FJ!Spec
-----------------------------------------------------------------------------
(* The broadcast.  A domain event that a region was told is done for Root, which did not     *)
(* take it itself; or it is still at the head of Root's group, and then the region is live   *)
(* in the record, so the next attempt finds it.                                              *)

ToldTo(m, c) == (\E i \in DOMAIN queue[c] : queue[c][i] = m) \/ m \in processed[c]

Told == \A c \in Child : \A m \in Input :
  IsDomain(m) /\ ToldTo(m, c) =>
    \/ m \in processed[Root] /\ m \notin own
    \/ Head1(Root, m) /\ children[c] = "live" /\ IsCreated(c)

\* A domain event waits for Root once, and is not processed before.
Once ==
  /\ own \subseteq processed[Root] \cap sent /\ (\A m \in own : IsDomain(m))
  /\ \A i \in DOMAIN queue[Root] :
       IsDomain(queue[Root][i]) => queue[Root][i] \in sent /\ queue[Root][i] \notin processed[Root]
  /\ \A i, j \in DOMAIN queue[Root] : IsDomain(queue[Root][i]) /\ queue[Root][i] = queue[Root][j] => i = j
  /\ \A m \in processed[Root] : IsDomain(m) => m \in sent

NoDomain(s) == \A i \in DOMAIN s : ~IsDomain(s[i])

\* A broadcast under way is of the head; it will look at, or has found, every region that was told.
CastOK == cast.pc # "idle" =>
  /\ queue[Root] # <<>> /\ IsDomain(Head(queue[Root]))
  /\ \A c \in cast.load \cup cast.live : children[c] = "live"
  /\ \A c \in cast.live : IsCreated(c)
  /\ cast.pc = "look" => \A c \in Child : ToldTo(Head(queue[Root]), c) => c \in cast.load \cup cast.live

BroadcastOK == Told /\ Once /\ CastOK /\ \A g \in Group : NoDomain(outbox[g])
LEMMA TailFacts ==
  ASSUME NEW s \in Seq(Message), s # <<>>
  PROVE  /\ Head(s) = s[1] /\ 1 \in DOMAIN s
         /\ \A i \in DOMAIN Tail(s) : i \in Int /\ i >= 1 /\ i + 1 \in DOMAIN s /\ Tail(s)[i] = s[i + 1]
         /\ \A i \in DOMAIN s : i # 1 => i - 1 \in DOMAIN Tail(s)
  OBVIOUS

LEMMA AppendFacts ==
  ASSUME NEW s \in Seq(Message), NEW m \in Message
  PROVE  /\ \A i \in DOMAIN Append(s, m) : Append(s, m)[i] = IF i \in DOMAIN s THEN s[i] ELSE m
         /\ \A i, j \in DOMAIN Append(s, m) : i \notin DOMAIN s /\ j \notin DOMAIN s => i = j
         /\ Append(s, m) # <<>>
         /\ s # <<>> => Head(Append(s, m)) = Head(s)
  <1> DEFINE t == Append(s, m)
  <1>1. /\ t \in Seq(Message) /\ Len(t) = Len(s) + 1 /\ Len(s) \in Nat
        /\ DOMAIN s = 1..Len(s) /\ DOMAIN t = 1..Len(s) + 1
    OBVIOUS
  <1>2. \A i \in DOMAIN t : t[i] = IF i \in DOMAIN s THEN s[i] ELSE m
    OBVIOUS
  <1>3. \A i, j \in DOMAIN t : i \notin DOMAIN s /\ j \notin DOMAIN s => i = j
    BY <1>1
  <1>4. t # <<>> /\ Head(t) = t[1]
    BY <1>1
  <1>5. s # <<>> => Head(s) = s[1] /\ 1 \in DOMAIN s /\ 1 \in DOMAIN t
    BY <1>1
  <1>6. QED
    BY <1>2, <1>3, <1>4, <1>5

LEMMA NoDomainKept ==
  /\ \A s \in Seq(Message) : s # <<>> /\ NoDomain(s) => NoDomain(Tail(s)) /\ ~IsDomain(Head(s))
  /\ \A s \in Seq(Message), m \in Message : NoDomain(s) /\ ~IsDomain(m) => NoDomain(Append(s, m))
  BY TailFacts, AppendFacts DEF NoDomain

\* What waits at the head of Root's group as a domain event was sent, and not processed.
LEMMA HeadFresh ==
  ASSUME TypeOK, BroadcastOK, NEW m, Head1(Root, m), IsDomain(m)
  PROVE  m \in sent /\ m \in Input /\ m \notin processed[Root] /\ m \notin own
  <1>1. queue[Root] \in Seq(Message) /\ queue[Root] # <<>> /\ m = Head(queue[Root])
    BY RootApart DEF TypeOK, Head1
  <1>2. m = queue[Root][1] /\ 1 \in DOMAIN queue[Root]
    BY <1>1, TailFacts
  <1>3. QED
    BY <1>2 DEF BroadcastOK, Once, TypeOK

\* No region was told of an event that Root's machine may take now.
LEMMA NobodyTold ==
  ASSUME TypeOK, BroadcastOK, NEW m, Head1(Root, m), IsDomain(m), NoneLive, NEW c \in Child
  PROVE  ~ToldTo(m, c)
  <1> SUFFICES ASSUME ToldTo(m, c) PROVE FALSE
    OBVIOUS
  <1>1. children[c] = "live"
    BY HeadFresh DEF BroadcastOK, Told
  <1>2. cast.pc = "look" /\ cast.load = {} /\ cast.live = {}
    BY <1>1 DEF NoneLive, Live
  <1>3. QED
    BY <1>2 DEF BroadcastOK, CastOK, Head1

\* Root is done with the message at its head: it took it itself, or it told its regions.
LEMMA RootDone ==
  ASSUME TypeOK, BroadcastOK, NEW m, Head1(Root, m), m \notin processed[Root],
         Next1(Root), processed' = [processed EXCEPT ![Root] = @ \cup {m}],
         cast' = NoCast, UNCHANGED <<child, sent>>,
         own' = own \/ (own' = own \cup {m} /\ IsDomain(m) /\ NoneLive),
         \A g \in Group : NoDomain(outbox'[g])
  PROVE  BroadcastOK'
  <1> DEFINE s == queue[Root]
  <1>1. /\ s \in Seq(Message) /\ s # <<>> /\ m = Head(s)
        /\ queue'[Root] = Tail(s) /\ processed'[Root] = processed[Root] \cup {m}
        /\ \A c \in Child : queue'[c] = queue[c] /\ processed'[c] = processed[c]
    BY RootApart DEF TypeOK, Head1, Next1
  <1>2. /\ m = s[1] /\ 1 \in DOMAIN s
        /\ \A i \in DOMAIN Tail(s) : i \in Int /\ i >= 1 /\ i + 1 \in DOMAIN s /\ Tail(s)[i] = s[i + 1]
    BY <1>1, TailFacts
  <1>3. IsDomain(m) => m \in sent
    BY HeadFresh
  <1>4. own \subseteq processed[Root] /\ own \subseteq sent /\ (\A e \in own : IsDomain(e))
    BY DEF BroadcastOK, Once
  <1>5. Told'
    <2> SUFFICES ASSUME NEW c \in Child, NEW e \in Input, IsDomain(e), ToldTo(e, c)'
                 PROVE  e \in processed'[Root] /\ e \notin own'
      BY DEF Told
    <2>1. ToldTo(e, c)
      BY <1>1 DEF ToldTo
    <2>2. \/ e \in processed[Root] /\ e \notin own
          \/ Head1(Root, e) /\ children[c] = "live" /\ IsCreated(c)
      BY <2>1 DEF BroadcastOK, Told
    <2>3. CASE e \in processed[Root] /\ e \notin own
      BY <1>1, <2>3
    <2>4. CASE Head1(Root, e)
      <3>1. e = m /\ e \notin own
        BY <1>1, <1>4, <2>4 DEF Head1
      <3>2. ~NoneLive
        BY <2>1, <2>4, NobodyTold
      <3>3. QED
        BY <1>1, <3>1, <3>2
    <2>5. QED
      BY <2>2, <2>3, <2>4
  <1>6. Once'
    <2>1. own' \subseteq processed'[Root] \cap sent' /\ (\A e \in own' : IsDomain(e))
      BY <1>1, <1>3, <1>4
    <2>2. \A i \in DOMAIN s : IsDomain(s[i]) => s[i] \in sent /\ s[i] \notin processed[Root]
      BY DEF BroadcastOK, Once
    <2>3. \A i, j \in DOMAIN s : IsDomain(s[i]) /\ s[i] = s[j] => i = j
      BY DEF BroadcastOK, Once
    <2>4. ASSUME NEW i \in DOMAIN Tail(s), IsDomain(Tail(s)[i])
          PROVE  Tail(s)[i] \in sent /\ Tail(s)[i] \notin processed[Root] \cup {m}
      <3>1. i \in Int /\ i >= 1 /\ i + 1 \in DOMAIN s /\ Tail(s)[i] = s[i + 1]
        BY <1>2
      <3>2. s[i + 1] # s[1]
        BY <1>2, <2>3, <2>4, <3>1
      <3>3. QED
        BY <1>2, <2>2, <2>4, <3>1, <3>2
    <2>5. ASSUME NEW i \in DOMAIN Tail(s), NEW j \in DOMAIN Tail(s), IsDomain(Tail(s)[i]), Tail(s)[i] = Tail(s)[j]
          PROVE  i = j
      <3>1. i \in Int /\ j \in Int /\ i + 1 \in DOMAIN s /\ j + 1 \in DOMAIN s
            /\ Tail(s)[i] = s[i + 1] /\ Tail(s)[j] = s[j + 1]
        BY <1>2
      <3>2. i + 1 = j + 1
        BY <2>3, <2>5, <3>1
      <3>3. QED
        BY <3>1, <3>2
    <2>6. \A e \in processed'[Root] : IsDomain(e) => e \in sent
      BY <1>1, <1>3 DEF BroadcastOK, Once
    <2>7. QED
      BY <1>1, <2>1, <2>4, <2>5, <2>6 DEF Once
  <1>7. CastOK'
    BY DEF CastOK, NoCast
  <1>8. QED
    BY <1>5, <1>6, <1>7 DEF BroadcastOK

\* A step that moves no domain event, and takes none of the children away.
LEMMA Elsewhere ==
  ASSUME TypeOK, BroadcastOK, UNCHANGED <<children, cast, sent, own>>,
         queue'[Root] = queue[Root], processed'[Root] = processed[Root],
         \A c \in Child : IsCreated(c) => IsCreated(c)',
         \A c \in Child : \A m \in Input : IsDomain(m) /\ ToldTo(m, c)' => ToldTo(m, c),
         \A g \in Group : NoDomain(outbox'[g])
  PROVE  BroadcastOK'
  <1>1. \A m : Head1(Root, m) => Head1(Root, m)'
    BY DEF Head1
  <1>2. Told'
    BY <1>1 DEF BroadcastOK, Told
  <1>3. Once'
    BY DEF BroadcastOK, Once
  <1>4. CastOK'
    <2> SUFFICES ASSUME cast.pc # "idle" PROVE CastOK'
      BY DEF CastOK
    <2>1. Head1(Root, Head(queue[Root])) /\ IsDomain(Head(queue[Root]))
      BY DEF BroadcastOK, CastOK, Head1
    <2>2. Head(queue[Root]) \in Input
      BY <2>1, HeadFresh
    <2>3. QED
      BY <2>1, <2>2 DEF BroadcastOK, CastOK, TypeOK
  <1>5. QED
    BY <1>2, <1>3, <1>4 DEF BroadcastOK

\* Root is sent a message: a domain event only if it was not sent before.
LEMMA RootGets ==
  ASSUME TypeOK, BroadcastOK, NEW m \in Message,
         queue' = [queue EXCEPT ![Root] = Append(@, m)],
         UNCHANGED <<children, child, processed, cast, own>>,
         sent \subseteq sent', IsDomain(m) => m \in sent' /\ m \notin sent,
         \A g \in Group : NoDomain(outbox'[g])
  PROVE  BroadcastOK'
  <1> DEFINE s == queue[Root]
             t == Append(s, m)
  <1>1. s \in Seq(Message) /\ queue'[Root] = t /\ \A c \in Child : queue'[c] = queue[c]
    BY RootApart DEF TypeOK
  <1>2. /\ \A i \in DOMAIN t : t[i] = IF i \in DOMAIN s THEN s[i] ELSE m
        /\ \A i, j \in DOMAIN t : i \notin DOMAIN s /\ j \notin DOMAIN s => i = j
        /\ t # <<>>
        /\ s # <<>> => Head(t) = Head(s)
    BY <1>1, AppendFacts
  <1>3. \A e : Head1(Root, e) => Head1(Root, e)'
    BY <1>1, <1>2 DEF Head1
  <1>4. \A e, c : c \in Child /\ ToldTo(e, c)' => ToldTo(e, c)
    BY <1>1 DEF ToldTo
  <1>5. Told'
    BY <1>3, <1>4 DEF BroadcastOK, Told, IsCreated
  <1>6. Once'
    <2>1. \A i \in DOMAIN s : IsDomain(s[i]) => s[i] \in sent /\ s[i] \notin processed[Root]
      BY DEF BroadcastOK, Once
    <2>2. \A i, j \in DOMAIN s : IsDomain(s[i]) /\ s[i] = s[j] => i = j
      BY DEF BroadcastOK, Once
    <2>3. \A e \in processed[Root] : IsDomain(e) => e \in sent
      BY DEF BroadcastOK, Once
    <2>4. \A i \in DOMAIN t : IsDomain(t[i]) => t[i] \in sent' /\ t[i] \notin processed[Root]
      BY <1>2, <2>1, <2>3
    <2>5. ASSUME NEW i \in DOMAIN t, NEW j \in DOMAIN t, IsDomain(t[i]), t[i] = t[j]
          PROVE  i = j
      <3>1. CASE i \in DOMAIN s /\ j \in DOMAIN s
        BY <1>2, <2>2, <2>5, <3>1
      <3>2. CASE i \notin DOMAIN s /\ j \notin DOMAIN s
        BY <1>2, <3>2
      <3>3. CASE i \in DOMAIN s /\ j \notin DOMAIN s
        <4>1. t[i] = s[i] /\ t[j] = m /\ s[i] \in sent
          BY <1>2, <2>1, <2>5, <3>3
        <4>2. QED
          BY <2>5, <4>1
      <3>4. CASE i \notin DOMAIN s /\ j \in DOMAIN s
        <4>1. t[j] = s[j] /\ t[i] = m /\ s[j] \in sent
          BY <1>2, <2>1, <2>5, <3>4
        <4>2. QED
          BY <2>5, <4>1
      <3>5. QED
        BY <3>1, <3>2, <3>3, <3>4
    <2>6. own' \subseteq processed'[Root] \cap sent' /\ (\A e \in own' : IsDomain(e))
      BY DEF BroadcastOK, Once
    <2>7. QED
      BY <1>1, <2>3, <2>4, <2>5, <2>6 DEF Once
  <1>7. CastOK'
    BY <1>1, <1>2, <1>4 DEF BroadcastOK, CastOK, IsCreated
  <1>8. QED
    BY <1>5, <1>6, <1>7 DEF BroadcastOK
LEMMA QuietOutbox ==
  ASSUME TypeOK, BroadcastOK, UNCHANGED outbox
  PROVE  \A g \in Group : NoDomain(outbox'[g])
  BY DEF BroadcastOK

LEMMA LeaveNoDomain ==
  ASSUME TypeOK, BroadcastOK, NEW known, Leave(known)
  PROVE  \A g \in Group : NoDomain(outbox'[g])
  <1>1. Cancel \in Message /\ ~IsDomain(Cancel)
    BY CancelType DEF Cancel, Plain, IsDomain
  <1>2. QED
    BY <1>1, NoDomainKept DEF Leave, BroadcastOK, TypeOK

LEMMA MachineBroadcast ==
  ASSUME TypeOK, BroadcastOK, NEW m, Machine(m)
  PROVE  BroadcastOK'
  <1>1. RootTakes(m)
    BY DEF Machine, Fork, Activity, Report, Expire, Reset
  <1>2. \A g \in Group : NoDomain(outbox'[g])
    BY QuietOutbox, LeaveNoDomain DEF Machine, Fork, Activity, Report, Expire, Reset, record
  <1>3. own' = own \/ (own' = own \cup {m} /\ IsDomain(m) /\ NoneLive)
    BY DEF Machine, Fork, Activity, Report, Expire, Reset, IsDomain
  <1>4. QED
    BY <1>1, <1>2, <1>3, RootDone DEF RootTakes

LEMMA CastingBroadcast ==
  ASSUME TypeOK, BroadcastOK, NEW m, Casting(m)
  PROVE  BroadcastOK'
  <1>1. CASE BeginCast(m)
    <2>1. Head1(Root, m) /\ IsDomain(m) /\ m = Head(queue[Root]) /\ queue[Root] # <<>>
      BY <1>1 DEF BeginCast, Head1
    <2>2. \A c \in Child : ToldTo(m, c) => children[c] = "live"
      BY <2>1, HeadFresh DEF BroadcastOK, Told
    <2>3. CastOK'
      BY <1>1, <2>1, <2>2 DEF BeginCast, CastOK, Live, ToldTo, record
    <2>4. Told' /\ Once' /\ \A g \in Group : NoDomain(outbox'[g])
      BY <1>1 DEF BeginCast, BroadcastOK, Told, Once, ToldTo, Head1, IsCreated, record
    <2>5. QED
      BY <2>3, <2>4 DEF BroadcastOK
  <1>2. CASE CommitCast(m)
    <2>1. Head1(Root, m) /\ IsDomain(m)
      BY <1>2 DEF CommitCast, Head1, BroadcastOK, CastOK
    <2>2. QED
      BY <1>2, <2>1, HeadFresh, RootDone, QuietOutbox DEF CommitCast, record
  <1>3. QED
    BY <1>1, <1>2 DEF Casting

LEMMA CastBroadcast ==
  ASSUME TypeOK, BroadcastOK, NEW c \in Child, LookAt(c) \/ PublishTo(c)
  PROVE  BroadcastOK'
  <1> DEFINE m == Head(queue[Root])
  <1>1. cast.pc # "idle" /\ Head1(Root, m) /\ IsDomain(m)
    BY DEF LookAt, PublishTo, BroadcastOK, CastOK, Head1
  <1>2. m \in Input /\ m \in sent /\ m \notin processed[Root] /\ m \in Message
    BY <1>1, HeadFresh, InputType
  <1>3. \A d \in Child : ToldTo(m, d) => children[d] = "live" /\ IsCreated(d)
    BY <1>1, <1>2 DEF BroadcastOK, Told
  <1>4. CASE LookAt(c)
    <2>1. cast.pc = "look" /\ cast'.pc = "look" /\ cast'.load = cast.load \ {c}
          /\ cast'.live = IF IsCreated(c) THEN cast.live \cup {c} ELSE cast.live
      BY <1>4 DEF LookAt, TypeOK
    <2>2. CastOK'
      BY <1>3, <1>4, <2>1 DEF LookAt, BroadcastOK, CastOK, ToldTo, IsCreated, record
    <2>3. Told' /\ Once' /\ \A g \in Group : NoDomain(outbox'[g])
      BY <1>4 DEF LookAt, BroadcastOK, Told, Once, ToldTo, Head1, IsCreated, record
    <2>4. QED
      BY <2>2, <2>3 DEF BroadcastOK
  <1>5. CASE PublishTo(c)
    <2>1. /\ cast'.pc = "publish" /\ cast'.load = cast.load /\ cast'.live = cast.live \ {c}
          /\ c \in cast.live /\ children[c] = "live" /\ IsCreated(c)
      BY <1>1, <1>5 DEF PublishTo, TypeOK, BroadcastOK, CastOK
    <2>2. /\ queue'[Root] = queue[Root] /\ queue'[c] = Append(queue[c], m) /\ queue[c] \in Seq(Message)
          /\ \A d \in Child : d # c => queue'[d] = queue[d]
      BY <1>5, RootApart DEF PublishTo, TypeOK
    <2>3. \A i \in DOMAIN queue'[c] : queue'[c][i] = m \/ ToldTo(queue'[c][i], c)
      BY <1>2, <2>2, AppendFacts DEF ToldTo
    <2>4. \A d \in Child : \A e : ToldTo(e, d)' => ToldTo(e, d) \/ (d = c /\ e = m)
      BY <1>5, <2>2, <2>3 DEF ToldTo, PublishTo
    <2>5. Told'
      <3> SUFFICES ASSUME NEW d \in Child, NEW e \in Input, IsDomain(e), ToldTo(e, d)'
                   PROVE  \/ e \in processed[Root] /\ e \notin own
                          \/ Head1(Root, e) /\ children[d] = "live" /\ IsCreated(d)
        BY <1>5, <2>2 DEF Told, PublishTo, Head1, IsCreated, record
      <3>1. CASE ToldTo(e, d)
        BY <3>1 DEF BroadcastOK, Told
      <3>2. CASE d = c /\ e = m
        BY <1>1, <2>1, <3>2
      <3>3. QED
        BY <2>4, <3>1, <3>2
    <2>6. Once' /\ \A g \in Group : NoDomain(outbox'[g])
      <3>1. UNCHANGED <<own, sent, processed, outbox>> /\ queue'[Root] = queue[Root]
        BY <1>5, <2>2 DEF PublishTo
      <3>2. Once'
        BY <3>1 DEF BroadcastOK, Once
      <3>3. QED
        BY <3>1, <3>2, QuietOutbox
    <2>7. CastOK'
      BY <1>1, <1>5, <2>1, <2>2 DEF PublishTo, BroadcastOK, CastOK, Head1, IsCreated, record
    <2>8. QED
      BY <2>5, <2>6, <2>7 DEF BroadcastOK
  <1>6. QED
    BY <1>4, <1>5

\* What a region publishes is its Finished.
LEMMA BecomesNoDomain ==
  ASSUME TypeOK, BroadcastOK, NEW c \in Child, NEW status, Becomes(c, status)
  PROVE  \A g \in Group : NoDomain(outbox'[g])
  <1>1. status \in Verdicts => Finished(c, status) \in Message /\ ~IsDomain(Finished(c, status))
    BY FinishedType DEF Finished, IsDomain
  <1>2. QED
    BY <1>1, RootApart, NoDomainKept DEF Becomes, BroadcastOK, TypeOK

LEMMA ChildBroadcast ==
  ASSUME TypeOK, BroadcastOK, NEW c \in Child, Create(c) \/ RegionTakes(c) \/ Terminate(c)
  PROVE  BroadcastOK'
  <1>1. \A d \in Child : IsCreated(d) => IsCreated(d)'
    <2>1. CASE child' = child
      BY <2>1 DEF IsCreated
    <2>2. CASE \E status \in Unfinished \cup Verdicts : Becomes(c, status)
      BY <2>2 DEF Becomes, IsCreated, TypeOK, Unfinished, Verdicts
    <2>3. CASE Terminate(c)
      BY <2>3 DEF Terminate, IsCreated, TypeOK
    <2>4. QED
      BY <2>1, <2>2, <2>3, OutcomeType DEF Create, RegionTakes, Unfinished
  <1>2. \A g \in Group : NoDomain(outbox'[g])
    BY QuietOutbox, BecomesNoDomain DEF Create, RegionTakes, Terminate
  <1>3. UNCHANGED <<children, cast, sent, own>>
    BY DEF Create, RegionTakes, Terminate, record
  <1>4. CASE UNCHANGED <<queue, processed>>
    BY <1>1, <1>2, <1>3, <1>4, Elsewhere DEF ToldTo
  <1>5. CASE RegionTakes(c)
    <2>1. /\ queue'[Root] = queue[Root] /\ processed'[Root] = processed[Root]
          /\ queue[c] \in Seq(Message) /\ queue[c] # <<>> /\ queue'[c] = Tail(queue[c])
          /\ processed'[c] \subseteq processed[c] \cup {Head(queue[c])}
          /\ \A d \in Child : d # c => queue'[d] = queue[d] /\ processed'[d] = processed[d]
      BY <1>5, RootApart DEF RegionTakes, Next1, TypeOK
    <2>2. \A e : ToldTo(e, c)' => ToldTo(e, c)
      BY <2>1, TailFacts DEF ToldTo
    <2>3. \A d \in Child : \A e : ToldTo(e, d)' => ToldTo(e, d)
      BY <2>1, <2>2 DEF ToldTo
    <2>4. QED
      BY <1>1, <1>2, <1>3, <2>1, <2>3, Elsewhere
  <1>6. QED
    BY <1>4, <1>5 DEF Create, Terminate

LEMMA PublishBroadcast ==
  ASSUME TypeOK, BroadcastOK, NEW g \in Group, Publish(g)
  PROVE  BroadcastOK'
  <1> DEFINE m == Head(outbox[g])
  <1>1. /\ outbox[g] \in Seq(Message) /\ outbox[g] # <<>> /\ NoDomain(outbox[g])
        /\ queue' = [queue EXCEPT ![g] = Append(@, m)] /\ outbox' = [outbox EXCEPT ![g] = Tail(@)]
    BY DEF Publish, TypeOK, BroadcastOK
  <1>2. m \in Message /\ ~IsDomain(m) /\ NoDomain(Tail(outbox[g]))
    BY <1>1, NoDomainKept
  <1>3. \A h \in Group : NoDomain(outbox'[h])
    BY <1>1, <1>2 DEF BroadcastOK, TypeOK
  <1>4. CASE g = Root
    BY <1>1, <1>2, <1>3, <1>4, RootGets DEF Publish, record
  <1>5. CASE g # Root
    <2>1. /\ queue'[Root] = queue[Root] /\ queue'[g] = Append(queue[g], m) /\ queue[g] \in Seq(Message)
          /\ \A d \in Child : d # g => queue'[d] = queue[d]
      BY <1>1, <1>5, RootApart DEF TypeOK
    <2>2. \A i \in DOMAIN queue'[g] : queue'[g][i] = m \/ \E j \in DOMAIN queue[g] : queue[g][j] = queue'[g][i]
      BY <1>2, <2>1, AppendFacts
    <2>3. \A d \in Child : \A e \in Input : IsDomain(e) /\ ToldTo(e, d)' => ToldTo(e, d)
      BY <1>2, <2>1, <2>2 DEF ToldTo, Publish
    <2>4. QED
      BY <1>3, <2>1, <2>3, Elsewhere DEF Publish, record, IsCreated
  <1>6. QED
    BY <1>4, <1>5

LEMMA SweepBroadcast ==
  ASSUME TypeOK, BroadcastOK, ReadDue \/ PublishTimeout \/ DeleteTimer
  PROVE  BroadcastOK'
  <1>1. \A g \in Group : NoDomain(outbox'[g])
    BY QuietOutbox DEF ReadDue, PublishTimeout, DeleteTimer
  <1>2. CASE ReadDue \/ DeleteTimer
    BY <1>1, <1>2, Elsewhere DEF ReadDue, DeleteTimer, record, ToldTo, IsCreated
  <1>3. CASE PublishTimeout
    <2>1. Plain("Timeout", sweep.visit) \in Message /\ ~IsDomain(Plain("Timeout", sweep.visit))
      BY RegionsAssumption DEF TypeOK, Plain, Message, Kinds, Visits, IsDomain
    <2>2. QED
      BY <1>1, <1>3, <2>1, RootGets DEF PublishTimeout, record
  <1>4. QED
    BY <1>2, <1>3

LEMMA SendBroadcast ==
  ASSUME TypeOK, BroadcastOK, NEW m \in Input, Send(m)
  PROVE  BroadcastOK'
  <1>1. m \in Message /\ \A g \in Group : NoDomain(outbox'[g])
    BY InputType, QuietOutbox DEF Send
  <1>2. QED
    BY <1>1, RootGets DEF Send, record

LEMMA StepBroadcast ==
  ASSUME TypeOK, BroadcastOK, [Next]_vars
  PROVE  BroadcastOK'
  <1>1. CASE RootStep
    BY <1>1, MachineBroadcast, CastingBroadcast, CastBroadcast DEF RootStep
  <1>2. CASE Crash
    BY <1>2 DEF Crash, BroadcastOK, Told, Once, CastOK, NoCast, ToldTo, Head1, IsCreated, record
  <1>3. CASE UNCHANGED vars
    <2>1. UNCHANGED <<children, cast, sent, own, queue, processed, child, outbox>>
      BY <1>3 DEF vars, record
    <2>2. QED
      BY <2>1, QuietOutbox, Elsewhere DEF ToldTo, IsCreated
  <1>4. QED
    BY <1>1, <1>2, <1>3, ChildBroadcast, PublishBroadcast, SweepBroadcast, SendBroadcast DEF Next

LEMMA InitBroadcast == Init => BroadcastOK
  <1> SUFFICES ASSUME Init PROVE BroadcastOK
    OBVIOUS
  <1>1. \A g \in Group : queue[g] = <<>> /\ outbox[g] = <<>> /\ processed[g] = {}
    BY DEF Init
  <1>2. own = {} /\ cast.pc = "idle"
    BY DEF Init, NoCast
  <1>3. QED
    BY <1>1, <1>2, RootApart DEF BroadcastOK, Told, Once, CastOK, NoDomain, ToldTo

LEMMA TakenAside ==
  ASSUME TypeOK, BroadcastOK
  PROVE  TakenByOneSide
  <1> SUFFICES ASSUME NEW m \in own, NEW c \in Child, m \in processed[c] PROVE FALSE
    BY DEF TakenByOneSide
  <1>1. m \in Input /\ IsDomain(m) /\ m \in processed[Root] /\ ToldTo(m, c)
    BY DEF BroadcastOK, Once, ToldTo, TypeOK
  <1>2. Head1(Root, m)
    BY <1>1 DEF BroadcastOK, Told
  <1>3. QED
    BY <1>1, <1>2, HeadFresh

\* A domain event is taken by Root's own machine or by its regions, never by both, however
\* often the broadcast is cut short and done again, and whatever the regions do meanwhile.
THEOREM EventsHaveOneTaker == Spec => []TakenByOneSide
  <1>1. BroadcastOK /\ IInv /\ [Next]_vars => BroadcastOK'
    BY StepBroadcast DEF IInv
  <1>2. BroadcastOK /\ IInv => TakenByOneSide
    BY TakenAside DEF IInv
  <1>3. QED
    BY <1>1, <1>2, InitBroadcast, Inductive, PTL DEF Spec
=============================================================================
