------------------------------- MODULE Engine -------------------------------
(***************************************************************************)
(* The statechart interpreter (engine/core.py) with the part of the driver *)
(* that serves its effects (engine/driving.py), for one execution of a     *)
(* machine of nested states.  A step begins with a message or a command    *)
(* and goes from hook to hook: every hook is an action of its own, which   *)
(* may raise.  The step ends in the commit of what it did.                 *)
(* Orthogonal states, invoke and fan-out are in Regions.                   *)
(***************************************************************************)
EXTENDS Naturals, Sequences

CONSTANTS
  Node,         \* the states, the machine's root included
  Top,          \* the root
  Parent,       \* the parent of every other state
  Line,         \* the chain from below the root to each state (a set, since it is a chain)
  Initial,      \* the initial child of every composite
  Keeps,        \* the composites that keep their history
  Timed,        \* the states with a timeout
  Event,        \* the kinds of domain events
  Defer,        \* the kinds each state defers
  Label,        \* the outcome a state declares, or NoLabel
  NoLabel,
  Trans,        \* the transitions in declaration order (see Transition)
  NoNode,
  MaxDeferred   \* bound: deferred events

\* One transition: its source, the kinds of event it is on ("auto": none), the targets its
\* `choose` or selector has, whether a guard over the context restricts it, and whether it
\* runs code that may raise before any state is left (a selector, an assignment).
Kind == Event \cup {"auto", "Cancel", "Timeout", "error"}
Transition == [source : Node, on : SUBSET Kind, to : SUBSET Node, guarded : BOOLEAN, fallible : BOOLEAN]
Composite == DOMAIN Initial
Leaf == Node \ Composite

ASSUME MachineAssumption ==
  /\ Top \in Composite /\ Composite \subseteq Node /\ NoNode \notin Node
  /\ Parent \in [Node \ {Top} -> Composite]
  /\ \A n \in Composite : Initial[n] \in Node \ {Top} /\ Parent[Initial[n]] = n
  /\ Event \cap {"auto", "Cancel", "Timeout", "error", "none", "start", "teardown"} = {}
  /\ Keeps \subseteq Composite /\ Timed \subseteq Node \ {Top}
  /\ Defer \in [Node -> SUBSET Event] /\ NoLabel \in {Label[n] : n \in Node} /\ DOMAIN Label = Node
  /\ Trans \in Seq(Transition) /\ MaxDeferred \in Nat
  /\ \A i \in DOMAIN Trans : Trans[i].source # Top /\ Trans[i].to # {} /\ Top \notin Trans[i].to

ASSUME TreeAssumption ==
  /\ Line \in [Node -> SUBSET (Node \ {Top})] /\ Line[Top] = {}
  /\ \A n \in Node \ {Top} : Line[n] = {n} \cup Line[Parent[n]] /\ n \notin Line[Parent[n]]
  /\ \A n \in Node : \A m \in Line[n] : Line[m] \subseteq Line[n]
  /\ \A n \in Node, a \in Node : a \in Line[n] \cup {Top} /\ a # n => \E m \in Line[n] : Parent[m] = a
  /\ \A n \in Node, S \in SUBSET Node : S # {} /\ S \subseteq Line[n] => \E m \in S : S \subseteq Line[m]

VARIABLES
  status, active, history, deferred, outcome,   \* the Execution
  holds,      \* whether the guards over its context hold
  timers,     \* the timers the store holds for it
  step,       \* the step in progress (see Step)
  inside,     \* observation: the states entered and not left
  fired,      \* observation: the timed states whose timer was spent since they were entered
  timing      \* observation: whether a step has dropped timers ("dropped"), or a command has
              \* moved the execution without its hooks ("placed"), or neither ("exact")

Status == {"PENDING", "RUNNING", "DONE", "FAILED", "CANCELLED", "CANCELLING"}

\* pc: idle, choose (a transition was found), move (from `active` to `target`), activity,
\* drain.  plan: what `timers` will be when this step commits.  rested: the last step
\* that moved the execution drained it.
Step == [pc : {"idle", "choose", "move", "activity", "drain"}, trans : 0..Len(Trans), target : Node,
         recovering : BOOLEAN, cause : Kind \cup {"none", "start", "teardown"}, plan : SUBSET Timed, rested : BOOLEAN]

Rest(rested) == [pc |-> "idle", trans |-> 0, target |-> Top, recovering |-> FALSE, cause |-> "none",
                 plan |-> {}, rested |-> rested]

exe == <<status, active, history, deferred, outcome>>
ghosts == <<fired, timing>>
vars == <<exe, holds, timers, step, inside, ghosts>>
-----------------------------------------------------------------------------
(* Resolution: innermost first, outer scopes as a fallback *)

\* The states whose transitions a lookup from n considers: without fallback, the state below
\* the root is left out unless it is n itself.
Sources(n, fallback) ==
  IF fallback THEN Line[n] ELSE {m \in Line[n] : Parent[m] # Top \/ m = n}

Fits(t, g) == t.guarded => g

\* The transitions on kind of n and the states around it: all of them, as a fallback, for an
\* event, while an automatic transition does not fall back.  (A function, so that TLC
\* computes it once.)
Candidates == [n \in Node |-> [kind \in Kind |->
  {i \in DOMAIN Trans : kind \in Trans[i].on /\ Trans[i].source \in Sources(n, kind # "auto")}]]

Found(n, kind, g) == {i \in Candidates[n][kind] : Fits(Trans[i], g)}

\* The transition resolved: the innermost source's first.
Resolved(S) == CHOOSE i \in S : \A j \in S :
  IF Trans[j].source = Trans[i].source THEN i <= j ELSE Trans[j].source \in Line[Trans[i].source]

\* A state, or one around it, has a transition of its own (whatever its guard).
HasOwn == [n \in Node |-> \E i \in DOMAIN Trans : Trans[i].source \in Sources(n, FALSE)]

Deferring(n) == Defer[Top] \cup UNION {Defer[m] : m \in Line[n]}

\* The deferred events that the current configuration has a transition for.
WakeableHead == {i \in DOMAIN deferred : i = 1 /\ Found(active, deferred[i], holds) # {}}
Wakeable == {i \in DOMAIN deferred : Found(active, deferred[i], holds) # {}}
-----------------------------------------------------------------------------
(* A step, from hook to hook *)

Idle == step.pc = "idle"

\* The commit: the timers the step armed and disarmed become the store's.
Settle == step' = Rest(TRUE) /\ timers' = step.plan

\* What the step did to timers is dropped, along with those that the hook at hand would have
\* armed.
Drops(armed) ==
  timing' = IF timing = "exact" /\ step.plan \cup armed # timers THEN "dropped" ELSE timing

\* The runner's policy: the execution fails.
Fail(armed) ==
  /\ status' = "FAILED"
  /\ step' = Rest(step.rested)
  /\ Drops(armed)

\* An action raised while the execution is at n: an `on error` in scope takes it, once.
Recovers(S, armed) ==
  /\ step' = [step EXCEPT !.pc = "choose", !.trans = Resolved(S), !.target = Top, !.recovering = TRUE,
                          !.plan = timers]
  /\ Drops(armed)
  /\ UNCHANGED status
Raised(n, g, armed) ==
  LET S == Found(n, "error", g) IN
  IF step.recovering \/ S = {} THEN Fail(armed) ELSE Recovers(S, armed)

\* A selector, or the assignments: any of the targets, or an exception before any state is left.
Choose ==
  /\ step.pc = "choose"
  /\ LET t == Trans[step.trans] IN
     \/ /\ \E m \in t.to : step' = [step EXCEPT !.pc = "move", !.trans = 0, !.target = m]
        /\ holds' \in IF t.fallible THEN BOOLEAN ELSE {holds}
        /\ UNCHANGED <<status, timing>>
     \/ /\ t.fallible
        /\ holds' \in BOOLEAN
        /\ Raised(active, holds', {})
  /\ UNCHANGED <<active, history, deferred, outcome, timers, inside, fired>>

\* The states left have been left: what remains is to enter.
Above == active = Top \/ active \in Line[step.target]

\* Leaving n disarms its timer.
KeepsArmed(plan, n) == plan
Disarm(plan, n) == plan \ {n}

Remembers(n) == IF Parent[n] = Top THEN history ELSE [history EXCEPT ![Parent[n]] = n]

\* on_exit of the innermost state that the transition leaves.  It must not raise.
Leave ==
  /\ step.pc = "move" /\ ~Above
  /\ holds' \in BOOLEAN
  /\ \/ /\ active' = Parent[active]
        /\ history' = Remembers(active)
        /\ step' = [step EXCEPT !.plan = Disarm(@, active)]
        /\ inside' = inside \ {active}
        /\ UNCHANGED <<status, timing>>
     \/ Fail({}) /\ UNCHANGED <<active, history, inside>>
  /\ UNCHANGED <<deferred, outcome, timers, fired>>

\* The next state down: towards the target, then to its initial state, or the one it remembers.
Down ==
  IF active # step.target THEN CHOOSE n \in Line[step.target] : Parent[n] = active
  ELSE IF active \in Keeps /\ history[active] # NoNode THEN history[active] ELSE Initial[active]

Forgets == IF active = step.target /\ active \notin Keeps THEN [history EXCEPT ![active] = NoNode] ELSE history

\* The execution is on a state before its on_enter runs, so that a raise is routed from there.
Behind(n) == active
Position(n) == n

Arms(n) == Timed \cap {n}

EnterState(n) ==
  /\ holds' \in BOOLEAN
  /\ \/ /\ active' = n
        /\ history' = IF active = Top THEN history ELSE [Forgets EXCEPT ![active] = n]
        /\ step' = [step EXCEPT !.target = IF active = @ THEN n ELSE @, !.plan = @ \cup Arms(n)]
        /\ UNCHANGED <<status, timing>>
     \/ /\ active' = Position(n)
        /\ history' = Forgets
        /\ Raised(Position(n), holds', Arms(n))
  /\ inside' = inside \cup {n}
  /\ fired' = fired \ {n}
  /\ UNCHANGED <<deferred, outcome, timers>>

Enter ==
  /\ step.pc = "move" /\ Above /\ (active # step.target \/ active \in Composite)
  /\ EnterState(Down)

Arrive ==
  /\ step.pc = "move" /\ active = step.target /\ active \in Leaf
  /\ step' = [step EXCEPT !.pc = "drain", !.target = Top]
  /\ UNCHANGED <<exe, holds, timers, inside, ghosts>>

\* on_activity of the state an event found no transition from.
Activity ==
  /\ step.pc = "activity"
  /\ holds' \in BOOLEAN
  /\ \/ step' = [step EXCEPT !.pc = "drain"] /\ UNCHANGED <<status, timing>>
     \/ Raised(active, holds', {})
  /\ UNCHANGED <<active, history, deferred, outcome, timers, inside, fired>>
-----------------------------------------------------------------------------
(* The drain: automatic transitions, deferred events, finished states *)

Takes(S) == step' = [step EXCEPT !.pc = "choose", !.trans = Resolved(S)]
Automatic == Found(active, "auto", holds)

DrainAuto ==
  /\ step.pc = "drain" /\ Automatic # {}
  /\ Takes(Automatic)
  /\ UNCHANGED <<exe, holds, timers, inside, ghosts>>

DrainDeferred ==
  /\ step.pc = "drain" /\ Automatic = {} /\ HasOwn[active] /\ Wakeable # {}
  /\ LET i == CHOOSE i \in Wakeable : \A j \in Wakeable : i <= j IN
     /\ Takes(Found(active, deferred[i], holds))
     /\ deferred' = SubSeq(deferred, 1, i - 1) \o SubSeq(deferred, i + 1, Len(deferred))
  /\ UNCHANGED <<status, active, history, outcome, holds, timers, inside, ghosts>>

DrainRest ==
  /\ step.pc = "drain" /\ Automatic = {} /\ HasOwn[active] /\ Wakeable = {}
  /\ Settle
  /\ UNCHANGED <<exe, holds, inside, ghosts>>

\* A state with nothing to take or to wait for is finished: its on_exit runs, and its
\* parent is next; below the root the execution is done.
DrainSink ==
  /\ step.pc = "drain" /\ Automatic = {} /\ ~HasOwn[active]
  /\ outcome' = IF outcome = NoLabel THEN Label[active] ELSE outcome
  /\ holds' \in BOOLEAN
  /\ \/ /\ inside' = inside \ {active}
        /\ IF Parent[active] # Top
           THEN /\ history' = [history EXCEPT ![Parent[active]] = NoNode]
                /\ active' = Parent[active]
                /\ step' = [step EXCEPT !.plan = Disarm(@, active)]
                /\ UNCHANGED <<status, timers>>
           ELSE /\ status' = "DONE"
                /\ timers' = Disarm(step.plan, active)
                /\ step' = Rest(TRUE)
                /\ UNCHANGED <<history, active>>
        /\ UNCHANGED timing
     \/ Fail({}) /\ UNCHANGED <<active, history, timers, inside>>
  /\ UNCHANGED <<deferred, fired>>

Advance == Choose \/ Leave \/ Enter \/ Arrive \/ Activity \/ DrainAuto \/ DrainDeferred \/ DrainRest \/ DrainSink
-----------------------------------------------------------------------------
(* What begins a step *)

Begins(pc, cause) == Idle /\ step' = [step EXCEPT !.pc = pc, !.cause = cause, !.plan = timers]
BeginsWith(S, cause, left) ==
  Idle /\ step' = [step EXCEPT !.pc = "choose", !.trans = Resolved(S), !.cause = cause, !.plan = left]

\* start: the initial state below the root is entered like a transition's target.
Restarts ==
  /\ Idle
  /\ status' = "RUNNING" /\ active' = Top /\ inside' = {} /\ fired' = {}
  /\ step' = [step EXCEPT !.pc = "move", !.target = Initial[Top], !.cause = "start", !.plan = timers]
  /\ holds' \in BOOLEAN
  /\ UNCHANGED timers

Start ==
  /\ status = "PENDING"
  /\ Restarts
  /\ UNCHANGED <<history, deferred, outcome, timing>>

\* Everything is forgotten, except the timers of the states it was in.
Reset ==
  /\ status # "CANCELLING"
  /\ Restarts
  /\ history' = [n \in Composite |-> NoNode] /\ deferred' = <<>> /\ outcome' = NoLabel
  /\ timing' = IF timers = {} THEN timing ELSE "placed"

\* A domain event: taken, deferred, or left to the active state's on_activity.
Domain(e) ==
  /\ status = "RUNNING"
  /\ LET S == Found(active, e, holds) IN
     \/ S # {} /\ BeginsWith(S, e, timers) /\ UNCHANGED deferred
     \/ /\ S = {} /\ e \in Deferring(active) /\ Len(deferred) < MaxDeferred
        /\ deferred' = Append(deferred, e)
        /\ Begins("drain", e)
     \/ S = {} /\ e \notin Deferring(active) /\ Begins("activity", e) /\ UNCHANGED deferred
  /\ UNCHANGED <<status, active, history, outcome, holds, timers, inside, ghosts>>

\* The timer of n is due, and gone.  The state it was armed for, if still active, or a state
\* around it, may have a transition on it.
Timeout(n) ==
  /\ n \in timers
  /\ timers' = timers \ {n}
  /\ fired' = fired \cup {n}
  /\ LET S == Found(n, "Timeout", holds) IN
     IF status = "RUNNING" /\ n \in Line[active] /\ S # {}
     THEN BeginsWith(S, "Timeout", timers \ {n})
     ELSE Idle /\ UNCHANGED step
  /\ UNCHANGED <<exe, holds, inside, timing>>

\* Cancel: the active configuration's own transition, or the end without one.
Cancel ==
  /\ status \notin {"DONE", "CANCELLED"}
  /\ LET S == Found(active, "Cancel", holds) IN
     IF status \in {"RUNNING", "CANCELLING"} /\ S # {}
     THEN BeginsWith(S, IF status = "CANCELLING" THEN "teardown" ELSE "Cancel", timers) /\ status' = "RUNNING"
     ELSE Idle /\ status' = "CANCELLED" /\ UNCHANGED step
  /\ UNCHANGED <<active, history, deferred, outcome, holds, timers, inside, ghosts>>

\* SetState: the execution is put on a leaf by hand, without hooks, and drained.
SetState(n) ==
  /\ status = "RUNNING" /\ n \in Leaf
  /\ deferred' = <<>> /\ active' = n /\ inside' = Line[n]
  /\ timing' = "placed"
  /\ UNCHANGED <<status, history, outcome, holds, timers, fired>>
  /\ Begins("drain", "start")

\* redrive: a failed execution is put on a leaf by hand, and waits.
Redrive(n) ==
  /\ Idle /\ status = "FAILED" /\ n \in Leaf
  /\ status' = "RUNNING" /\ active' = n /\ inside' = Line[n]
  /\ history' = [m \in Composite |-> NoNode]
  /\ step' = [step EXCEPT !.rested = FALSE]
  /\ timing' = "placed"
  /\ UNCHANGED <<deferred, outcome, holds, timers, fired>>

\* Reaching n would end the execution in the same step: neither n nor a state around it has
\* anything to take or to wait for.
WouldBeASinkAlone(n) == n \in Leaf /\ ~HasOwn[n]
WouldBeASink(n) == n \in Leaf /\ \A m \in Line[n] : ~HasOwn[m]

\* cancel(): the model's own teardown if it ends the execution at once, else the end by force.
RequestCancel ==
  /\ Idle /\ status \notin {"DONE", "CANCELLED"}
  /\ LET S == Found(active, "Cancel", holds) IN
     status' = IF status # "FAILED" /\ S # {} /\ \A n \in Trans[Resolved(S)].to : WouldBeASink(n)
               THEN "CANCELLING" ELSE "CANCELLED"
  /\ UNCHANGED <<active, history, deferred, outcome, holds, timers, step, inside, ghosts>>
-----------------------------------------------------------------------------
Init ==
  /\ status = "PENDING" /\ active = Top /\ history = [n \in Composite |-> NoNode]
  /\ deferred = <<>> /\ outcome = NoLabel /\ holds \in BOOLEAN /\ timers = {}
  /\ step = Rest(TRUE)
  /\ inside = {} /\ fired = {} /\ timing = "exact"

Next ==
  \/ Advance
  \/ Start \/ Reset \/ Cancel \/ RequestCancel
  \/ \E e \in Event : Domain(e)
  \/ \E n \in Node : Timeout(n) \/ SetState(n) \/ Redrive(n)

Spec == Init /\ [][Next]_vars

\* A step that has begun goes on: the driver runs it to its end.
FairSpec == Spec /\ WF_vars(Advance)

TypeOK ==
  /\ status \in Status /\ active \in Node
  /\ history \in [Composite -> Node \cup {NoNode}]
  /\ deferred \in Seq(Event) /\ outcome \in {Label[n] : n \in Node}
  /\ holds \in BOOLEAN /\ timers \subseteq Timed /\ step \in Step
  /\ inside \subseteq Node /\ fired \subseteq Timed /\ timing \in {"exact", "dropped", "placed"}

\* Hooks come in pairs, through errors and recoveries: at every point of a step, the states
\* entered and not left are those around the active one, so that none is left twice, or
\* entered twice, or never left.
HooksPair == status = "RUNNING" => inside = Line[active]

\* At rest the store's timers are those of the active states (less the spent ones), unless a
\* step lost its timers to an error, or the execution was placed by hand or restarted.
TimersFollow ==
  Idle /\ status = "RUNNING" /\ timing = "exact" => timers = (Timed \cap Line[active]) \ fired

\* At rest no deferred event waits for a state that is already there.
DeferredWakes == Idle /\ status = "RUNNING" /\ step.rested =>
  \A i \in DOMAIN deferred : Found(active, deferred[i], holds) = {}

\* A cancellation that was decided to be cooperative ends the execution in the step that
\* takes it, whatever its hooks do.  (For transitions that run no code before they leave: a
\* selector may raise where an `on error` is in scope, and the execution goes on from there.)
TeardownEnds ==
  [][step.cause = "teardown" /\ step.pc # "idle" /\ step'.pc = "idle" => status' # "RUNNING"]_vars

\* A timed state that is active has its timer armed, or spent, even if a step met an error.
\* Refuted: a recovery keeps the moves of the step that raised and drops their timer operations.
TimerNeverLost ==
  Idle /\ status = "RUNNING" /\ timing # "placed" => Timed \cap Line[active] \subseteq timers \cup fired
=============================================================================
