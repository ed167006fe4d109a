------------------------------- MODULE Regions -------------------------------
(***************************************************************************)
(* An execution with one orthogonal state, and the region executions that  *)
(* each visit of the state forks: the broadcast of domain events, the      *)
(* regions' Finished, the join, early exits, and entering again.           *)
(*                                                                         *)
(* Delivery is taken from Delivery: every execution handles the messages   *)
(* of its group one by one, in order, and records each.  Here handling is  *)
(* one step, but for the broadcast, whose publishes are not part of the    *)
(* commit that ends it.  A row addressed to a child is published after the *)
(* child was created (Delivery's run earlycancel is about the other case). *)
(*                                                                         *)
(* A definition right before another of nearly the same name is a mistake  *)
(* the code does not make; nothing uses it.                                *)
(***************************************************************************)
EXTENDS Integers, Sequences

CONSTANTS
  Region,          \* the regions of the orthogonal state
  Tidy,            \* those that model their own Cancel
  Mortal,          \* those that may fail, or be terminated by the control plane
  HasTimeout,      \* the state has a timeout of its own
  CancelOnFailure, \* the state ends with its first failing region
  Root,            \* the execution that forks them
  NoRegion,
  Input,           \* the messages a client sends to Root, each once
  MaxVisits,       \* bound: visits of the orthogonal state
  MaxCrashes       \* bound: broadcasts that stop half way

Visits == 0..MaxVisits
Child == Region \X Visits   \* a child's id: its region and the seq of the visit
Group == {Root} \cup Child
NoChild == <<NoRegion, 0>>

Sites == {"before", "fork", "joined", "expired"}
Verdicts == {"success", "failure"}
Unfinished == {"RUNNING", "FAILED", "CANCELLED"}

\* A message is its own id.  n tells a client's events apart; a Timeout's is the visit that
\* armed the timer.
Kinds == {"Go", "Work", "Reset", "Timeout", "Finished", "Cancel"}
Message == [kind : Kinds, n : Nat, child : Child \cup {NoChild}, verdict : Verdicts \cup {"none"}]
Plain(kind, n) == [kind |-> kind, n |-> n, child |-> NoChild, verdict |-> "none"]
Cancel == Plain("Cancel", 0)
Finished(c, v) == [kind |-> "Finished", n |-> 0, child |-> c, verdict |-> v]
IsDomain(m) == m.kind \in {"Go", "Work"}

ASSUME RegionsAssumption ==
  /\ Region # {} /\ Tidy \subseteq Region /\ Mortal \subseteq Region /\ NoRegion \notin Region
  /\ CancelOnFailure \in BOOLEAN /\ HasTimeout \in BOOLEAN
  /\ Root \notin Child
  /\ \A m \in Input : m.kind \in {"Go", "Work", "Reset"} /\ m.n \in Nat /\ m = Plain(m.kind, m.n)
  /\ MaxVisits \in Nat /\ MaxCrashes \in Nat

VARIABLES
  site,      \* Root's active state: the orthogonal one ("fork") or one around it
  visit,     \* invoke_seq: the seq of the current visit, or of the next one
  children,  \* Root's record: child -> "none" (not in it), "live" or its verdict
  timers,    \* the state's timer: the visit that armed it, if it is armed
  child,     \* child -> "absent", RUNNING, FAILED, CANCELLED, or (DONE) its verdict
  spawns,    \* children committed and not yet created
  outbox,    \* group -> messages committed and not yet published
  queue,     \* group -> its messages
  processed, \* group -> the messages recorded as processed
  cast,      \* the broadcast under way: children still to load, children found live
  sweep,     \* the timer sweep under way: the visit whose timer it read
  sent,      \* the inputs sent so far
  own,       \* history: domain events Root's own machine processed
  crashes    \* broadcasts that stopped half way

record == <<site, visit, children, timers>>
vars == <<record, child, spawns, outbox, queue, processed, cast, sweep, sent, own, crashes>>

NoCast == [pc |-> "idle", load |-> {}, live |-> {}]
NoSweep == [pc |-> "idle", visit |-> 0]
-----------------------------------------------------------------------------
(* The orthogonal state *)

New == {c \in Child : c[2] = visit}
Live(known) == {c \in Child : known[c] = "live"}

\* The gate of the join: every region in the record has reported, or one has failed.
JoinOpenAtAny(known) == \E c \in Child : known[c] \in Verdicts
JoinOpen(known) ==
  \/ Live(known) = {}
  \/ CancelOnFailure /\ (\E c \in Child : known[c] = "failure")

\* _leave_regions: the next visit's children get a fresh seq, and those still live a Cancel.
LeaveQuietly(known) ==
  /\ visit' = visit + 1
  /\ UNCHANGED outbox
Leave(known) ==
  /\ visit' = visit + 1
  /\ outbox' = [g \in Group |-> IF g \in Live(known) THEN Append(outbox[g], Cancel) ELSE outbox[g]]
-----------------------------------------------------------------------------
(* Root: what its own machine does with the message at the head of its group *)

Head1(g, m) == queue[g] # <<>> /\ m = Head(queue[g])
Next1(g) == queue' = [queue EXCEPT ![g] = Tail(@)]

RootTakes(m) ==
  /\ Head1(Root, m) /\ m \notin processed[Root]
  /\ Next1(Root)
  /\ processed' = [processed EXCEPT ![Root] = @ \cup {m}]
  /\ cast' = NoCast
  /\ UNCHANGED <<child, sweep, sent, crashes>>

\* route_flow hands a domain event to Root's own machine if no child of the record that has
\* not finished could be loaded.
NoneLive ==
  \/ cast = NoCast /\ Live(children) = {}
  \/ cast = [pc |-> "look", load |-> {}, live |-> {}]

Fork(m) ==
  /\ RootTakes(m) /\ m.kind = "Go" /\ NoneLive
  /\ site # "fork" /\ visit < MaxVisits
  /\ site' = "fork"
  /\ children' = [c \in Child |-> IF c \in New THEN "live" ELSE "none"]
  /\ spawns' = spawns \cup New
  /\ timers' = IF HasTimeout THEN {visit} ELSE {}
  /\ own' = own \cup {m}
  /\ UNCHANGED <<visit, outbox>>

Activity(m) ==
  /\ RootTakes(m) /\ NoneLive
  /\ m.kind = "Work" \/ (m.kind = "Go" /\ site = "fork")
  /\ own' = own \cup {m}
  /\ UNCHANGED <<record, spawns, outbox>>

\* A mistake: the join is tried on the record as it was before the report.
ReportTooLate(m) ==
  /\ RootTakes(m) /\ m.kind = "Finished"
  /\ children' = [children EXCEPT ![m.child] = IF @ = "none" THEN @ ELSE m.verdict]
  /\ IF site = "fork" /\ JoinOpen(children)
     THEN site' = "joined" /\ timers' = {} /\ Leave(children')
     ELSE UNCHANGED <<site, timers, visit, outbox>>
  /\ UNCHANGED <<spawns, own>>

\* A region's Finished: recorded if it is one of the record's, and the join is tried again.
Report(m) ==
  /\ RootTakes(m) /\ m.kind = "Finished"
  /\ children' = [children EXCEPT ![m.child] = IF @ = "none" THEN @ ELSE m.verdict]
  /\ IF site = "fork" /\ JoinOpen(children')
     THEN site' = "joined" /\ timers' = {} /\ Leave(children')
     ELSE UNCHANGED <<site, timers, visit, outbox>>
  /\ UNCHANGED <<spawns, own>>

Expire(m) ==
  /\ RootTakes(m) /\ m.kind = "Timeout"
  /\ IF site = "fork"
     THEN site' = "expired" /\ timers' = {} /\ Leave(children)
     ELSE UNCHANGED <<site, timers, visit, outbox>>
  /\ UNCHANGED <<children, spawns, own>>

\* Reset forgets the children and starts over; the timer stays armed.
Reset(m) ==
  /\ RootTakes(m) /\ m.kind = "Reset"
  /\ IF site = "fork" THEN Leave(children) ELSE UNCHANGED <<visit, outbox>>
  /\ site' = "before"
  /\ children' = [c \in Child |-> "none"]
  /\ UNCHANGED <<timers, spawns, own>>
-----------------------------------------------------------------------------
(* Root: the broadcast of a domain event to its live regions *)

BeginCast(m) ==
  /\ Head1(Root, m) /\ m \notin processed[Root]
  /\ IsDomain(m) /\ cast = NoCast /\ Live(children) # {}
  /\ cast' = [pc |-> "look", load |-> Live(children), live |-> {}]
  /\ UNCHANGED <<record, child, spawns, outbox, queue, processed, sweep, sent, own, crashes>>

IsRunning(c) == child[c] = "RUNNING"
IsCreated(c) == child[c] # "absent"

LookAt(c) ==
  /\ cast.pc = "look" /\ c \in cast.load
  /\ cast' = [cast EXCEPT !.load = @ \ {c}, !.live = IF IsCreated(c) THEN @ \cup {c} ELSE @]
  /\ UNCHANGED <<record, child, spawns, outbox, queue, processed, sweep, sent, own, crashes>>

PublishTo(c) ==
  /\ cast.pc \in {"look", "publish"} /\ cast.load = {} /\ c \in cast.live
  /\ queue' = [queue EXCEPT ![c] = Append(@, Head(queue[Root]))]
  /\ cast' = [cast EXCEPT !.pc = "publish", !.live = @ \ {c}]
  /\ UNCHANGED <<record, child, spawns, outbox, processed, sweep, sent, own, crashes>>

CommitCastFirst(m) ==
  /\ Head1(Root, m) /\ cast.pc = "publish"
  /\ Next1(Root)
  /\ processed' = [processed EXCEPT ![Root] = @ \cup {m}]
  /\ cast' = NoCast
  /\ UNCHANGED <<record, child, spawns, outbox, sweep, sent, own, crashes>>

CommitCast(m) ==
  /\ Head1(Root, m) /\ cast.pc = "publish" /\ cast.live = {}
  /\ Next1(Root)
  /\ processed' = [processed EXCEPT ![Root] = @ \cup {m}]
  /\ cast' = NoCast
  /\ UNCHANGED <<record, child, spawns, outbox, sweep, sent, own, crashes>>

\* A crash, a call that raises, or a commit that loses the CAS: the message comes back.
Crash ==
  /\ cast.pc # "idle" /\ crashes < MaxCrashes
  /\ cast' = NoCast
  /\ crashes' = crashes + 1
  /\ UNCHANGED <<record, child, spawns, outbox, queue, processed, sweep, sent, own>>
-----------------------------------------------------------------------------
(* The regions *)

\* A region that reaches its end reports to Root, in the same commit; one that is cancelled
\* or fails does not.
Becomes(c, status) ==
  /\ child' = [child EXCEPT ![c] = status]
  /\ outbox' = IF status \in Verdicts THEN [outbox EXCEPT ![Root] = Append(@, Finished(c, status))] ELSE outbox

\* Where a message of this kind may lead a region that is RUNNING (or that starts).
Outcome(c, kind) ==
  LET failing == IF c[1] \in Mortal THEN {"FAILED"} ELSE {} IN
  CASE kind # "Cancel" -> {"RUNNING"} \cup Verdicts \cup failing
    [] kind = "Cancel" /\ c[1] \in Tidy -> Verdicts \cup failing
    [] OTHER -> {"CANCELLED"}

Create(c) ==
  /\ c \in spawns
  /\ spawns' = spawns \ {c}
  /\ IF IsCreated(c) THEN UNCHANGED <<child, outbox>>
     ELSE \E status \in Outcome(c, "Start") : Becomes(c, status)
  /\ UNCHANGED <<record, queue, processed, cast, sweep, sent, own, crashes>>

RegionTakes(c) ==
  /\ queue[c] # <<>> /\ IsCreated(c)
  /\ Next1(c)
  /\ LET m == Head(queue[c]) IN
     IF m \in processed[c] \/ child[c] = "CANCELLED"
     THEN UNCHANGED <<processed, child, outbox>>
     ELSE /\ processed' = [processed EXCEPT ![c] = @ \cup {m}]
          /\ CASE child[c] = "RUNNING" -> \E status \in Outcome(c, m.kind) : Becomes(c, status)
               [] child[c] = "FAILED" /\ m.kind = "Cancel" -> Becomes(c, "CANCELLED")
               [] OTHER -> UNCHANGED <<child, outbox>>
  /\ UNCHANGED <<record, spawns, cast, sweep, sent, own, crashes>>

\* The control plane ends a region by itself; nobody tells Root.
Terminate(c) ==
  /\ c[1] \in Mortal /\ child[c] \in {"RUNNING", "FAILED"}
  /\ child' = [child EXCEPT ![c] = "CANCELLED"]
  /\ UNCHANGED <<record, spawns, outbox, queue, processed, cast, sweep, sent, own, crashes>>
-----------------------------------------------------------------------------
(* The relay, the timer sweep, and the client *)

Publish(g) ==
  /\ outbox[g] # <<>> /\ g \notin spawns
  /\ queue' = [queue EXCEPT ![g] = Append(@, Head(outbox[g]))]
  /\ outbox' = [outbox EXCEPT ![g] = Tail(@)]
  /\ UNCHANGED <<record, child, spawns, processed, cast, sweep, sent, own, crashes>>

ReadDue ==
  /\ sweep = NoSweep
  /\ \E v \in timers : sweep' = [pc |-> "publish", visit |-> v]
  /\ UNCHANGED <<record, child, spawns, outbox, queue, processed, cast, sent, own, crashes>>

PublishTimeout ==
  /\ sweep.pc = "publish"
  /\ queue' = [queue EXCEPT ![Root] = Append(@, Plain("Timeout", sweep.visit))]
  /\ sweep' = [sweep EXCEPT !.pc = "delete"]
  /\ UNCHANGED <<record, child, spawns, outbox, processed, cast, sent, own, crashes>>

DeleteTimer ==
  /\ sweep.pc = "delete"
  /\ timers' = timers \ {sweep.visit}
  /\ sweep' = NoSweep
  /\ UNCHANGED <<site, visit, children, child, spawns, outbox, queue, processed, cast, sent, own, crashes>>

Send(m) ==
  /\ m \in Input \ sent
  /\ queue' = [queue EXCEPT ![Root] = Append(@, m)]
  /\ sent' = sent \cup {m}
  /\ UNCHANGED <<record, child, spawns, outbox, processed, cast, sweep, own, crashes>>
-----------------------------------------------------------------------------
Init ==
  /\ site = "before" /\ visit = 0 /\ children = [c \in Child |-> "none"] /\ timers = {}
  /\ child = [c \in Child |-> "absent"] /\ spawns = {}
  /\ outbox = [g \in Group |-> <<>>] /\ queue = [g \in Group |-> <<>>]
  /\ processed = [g \in Group |-> {}]
  /\ cast = NoCast /\ sweep = NoSweep
  /\ sent = {} /\ own = {} /\ crashes = 0

Machine(m) == Fork(m) \/ Activity(m) \/ Report(m) \/ Expire(m) \/ Reset(m)
Casting(m) == BeginCast(m) \/ CommitCast(m)

RootStep ==
  /\ queue[Root] # <<>>
  /\ \/ LET m == Head(queue[Root]) IN Machine(m) \/ Casting(m)
     \/ \E c \in Child : LookAt(c) \/ PublishTo(c)

Next ==
  \/ RootStep \/ Crash
  \/ \E c \in Child : Create(c) \/ RegionTakes(c) \/ Terminate(c)
  \/ \E g \in Group : Publish(g)
  \/ ReadDue \/ PublishTimeout \/ DeleteTimer
  \/ \E m \in Input : Send(m)

Spec == Init /\ [][Next]_vars

\* Workers and the relay go on; whether clients send and timers fire is up to them.
Fairness ==
  /\ WF_vars(RootStep)
  /\ \A c \in Child : WF_vars(Create(c)) /\ WF_vars(RegionTakes(c))
  /\ \A g \in Group : WF_vars(Publish(g))

FairSpec == Spec /\ Fairness
-----------------------------------------------------------------------------
TypeOK ==
  /\ site \in Sites /\ visit \in Visits
  /\ children \in [Child -> {"none", "live"} \cup Verdicts] /\ timers \subseteq Visits
  /\ child \in [Child -> {"absent"} \cup Unfinished \cup Verdicts] /\ spawns \subseteq Child
  /\ outbox \in [Group -> Seq(Message)] /\ queue \in [Group -> Seq(Message)]
  /\ processed \in [Group -> SUBSET Message]
  /\ cast \in [pc : {"idle", "look", "publish"}, load : SUBSET Child, live : SUBSET Child]
  /\ sweep \in [pc : {"idle", "publish", "delete"}, visit : Visits]
  /\ sent \subseteq Input /\ own \subseteq Message /\ crashes \in Nat

\* How the regions of the current visit ended, as their own records say.
VerdictOf == [r \in Region |-> IF child[<<r, visit>>] \in Verdicts THEN child[<<r, visit>>] ELSE "none"]

FJ == INSTANCE ForkJoin WITH site <- site, verdict <- VerdictOf

\* The state is left by its join only on the verdicts of this visit's own regions, whatever
\* late Finished, redelivered broadcast or forgotten child is around: Root and its regions,
\* which share no record, implement ForkJoin.
ImplementsForkJoin == FJ!Spec

\* A domain event is taken by Root's own machine or by its regions, never by both, however
\* often a broadcast is cut short and done again: a region that took it, and even finished
\* on it, still counts as live for Root.
TakenByOneSide == \A m \in own : \A c \in Child : m \notin processed[c]

\* A domain event is broadcast to live regions: not when all there are is cancelled ones.
\* Refuted: cancelled regions stay live in the record after an early exit.
BroadcastsToTheLiving ==
  [][cast.pc = "idle" /\ cast'.pc = "look" => \E c \in cast'.load : child[c] # "CANCELLED"]_vars

\* A Timeout ends the visit that armed it, and no other.
\* Refuted: a Timeout is matched by its path alone.
TimeoutEndsItsVisit ==
  [][site = "fork" /\ site' = "expired" => Head(queue[Root]).n = visit]_vars

\* When every region of a visit has ended, the state is left.
JoinHappens == \A v \in Visits :
  (site = "fork" /\ visit = v /\ \A r \in Region : child[<<r, v>>] \in Verdicts) ~> (site # "fork" \/ visit # v)

\* A region that its visit left behind is cancelled, or ends by itself.
NoOrphans == \A c \in Child :
  (child[c] = "RUNNING" /\ ~(site = "fork" /\ visit = c[2])) ~> child[c] # "RUNNING"

\* A region that a broadcast found live takes the event, even if the broadcast is cut short
\* (or has been terminated by then).
EveryLiveRegionIsTold == \A c \in Child, m \in Input :
  (cast.pc # "idle" /\ c \in cast.live /\ Head1(Root, m)) ~> (m \in processed[c] \/ child[c] = "CANCELLED")
=============================================================================
