------------------------------ MODULE Machines ------------------------------
(***************************************************************************)
(* A machine from its configuration to its end: it is built, validated     *)
(* (validate_or_raise) and, unless an error is found, run by the engine    *)
(* (engine/core.py) as one execution: the machine's root, or one of its    *)
(* regions.  What the validator promised is compared with what happens.    *)
(* The engine is here as far as the validator predicts it: hooks, errors,  *)
(* deferred events and commits are in Engine; the join and the return of a *)
(* submachine, which are other executions' doing, may come at any time.    *)
(***************************************************************************)
EXTENDS Definitions

CONSTANTS
  Drafts,         \* the configurations an author begins with
  Vocabulary(_),  \* the transitions the author of a configuration may add
  MaxTrans        \* bound: transitions in a configuration

VARIABLES
  phase,     \* draft, built, refused (a BuildError or a ValidationError), running, crashed
  defn,      \* the draft, then the definition
  issues,    \* what validate() returned
  root,      \* the root of the execution that runs
  active, status, outcome, history,   \* the Execution
  ready,     \* whether the guards over its context hold (every `when` of a choose)
  joined,    \* whether the orthogonal state it waits in is joined
  step       \* busy: a step is being taken; cause: the teardown event it began with, or None;
             \* sink: the state that finished and bubbles up, or None

vars == <<phase, defn, issues, root, active, status, outcome, history, ready, joined, step>>
exe == <<root, active, status, outcome, history, ready, joined, step>>

Rest == [busy |-> FALSE, cause |-> None, sink |-> None]
Running == phase = "running" /\ status = "RUNNING"
Idle == Running /\ ~step.busy /\ IsPrefix(root, active)
-----------------------------------------------------------------------------
(* Resolution *)

\* The states whose transitions are looked at from n: without fallback, the one below the root
\* is left out unless it is n itself.
Considered(n, fallback) ==
  {m \in Chain(root, n) \ {root} : fallback \/ m = n \/ Front(m) # root}

\* A choose is open if a branch holds or there is an else.
Open(t) == t.how = "choose" => ready \/ t.default
On(kind) == {i \in DOMAIN defn.trans : kind \in defn.trans[i].on /\ Open(defn.trans[i])}
Auto == {i \in DOMAIN defn.trans : Automatic(defn.trans[i]) /\ Open(defn.trans[i])}
Whichever == DOMAIN defn.trans

\* A state's transitions are those its parent owns: one that an outer scope owns is never found.
OfStates(S, M) == {i \in S : defn.trans[i].source \in M /\ defn.trans[i].scope = Front(defn.trans[i].source)}

Innermost(S) == CHOOSE i \in S : \A j \in S :
  \/ Len(defn.trans[j].source) < Len(defn.trans[i].source)
  \/ defn.trans[j].source = defn.trans[i].source /\ i <= j

Found(n, S, fallback) == OfStates(S, Considered(n, fallback))

\* A Timeout is looked up from the state that timed out, up to the top of the machine.
FoundAt(n, S) == OfStates(S, (Ancestors(n) \cup {n}) \ {<<>>})

\* Where a transition may go now; None if a selector's branch names nothing.
Destinations(t) ==
  IF t.how = "select" THEN {ResolveRelative(defn, t.scope, t.to[i]) : i \in DOMAIN t.to}
  ELSE IF t.how = "choose" /\ ~ready THEN {t.to[Len(t.to)]} ELSE {t.to[1]}

WouldBeASink(target) ==
  /\ ~Composite(defn, target) /\ target \notin defn.invoke
  /\ IsPrefix(root, target)
  /\ \A n \in Chain(root, target) \ {root} :
       (n = target \/ n \notin defn.orthogonal) /\ Found(n, Whichever, FALSE) = {}

\* The control plane's choice: the configuration's own teardown if every way it may go ends the
\* execution at once.
SafeTeardown(kind) ==
  {i \in Found(active, On(kind), TRUE) :
     /\ i = Innermost(Found(active, On(kind), TRUE))
     /\ LET t == defn.trans[i] IN
        /\ t.how = "select" => None \notin Destinations(t)
        /\ \A n \in Targets(defn, t) : WouldBeASink(n)}
-----------------------------------------------------------------------------
(* Moving *)

RECURSIVE Entered(_, _)
Entered(h, n) ==
  LET down == IF h[n] # None THEN h[n]
              ELSE IF n \in DOMAIN defn.start /\ Append(n, defn.start[n]) \in defn.states
              THEN Append(n, defn.start[n]) ELSE None
  IN IF ~Composite(defn, n) \/ n \in defn.orthogonal \/ down = None THEN n ELSE Entered(h, down)

Remembers(h, line) == [n \in DOMAIN h |-> IF \E m \in line : m # <<>> /\ Front(m) = n
                                          THEN CHOOSE m \in line : m # <<>> /\ Front(m) = n ELSE h[n]]

\* The states down to the target are left and entered, then its initial states or those it
\* remembers; an orthogonal state forks its regions anew.
MoveTo(target) ==
  LET pivot == Lca(active, target)
      passed == Remembers(Remembers(history, Chain(pivot, active) \ {pivot}), Chain(pivot, target) \ {pivot})
  IN /\ active' = Entered(passed, target)
     /\ history' = Remembers(passed, Chain(target, active') \ {target})
     /\ joined' = (active' \notin defn.orthogonal)

\* A transition is taken: its assignments and the hooks may change what the guards read.
Take(i, cause) ==
  LET t == defn.trans[i] IN
  \/ /\ None \in Destinations(t)
     /\ phase' = "crashed"
     /\ UNCHANGED exe
  \/ \E target \in Destinations(t) \ {None} :
       /\ MoveTo(target)
       /\ ready' \in BOOLEAN
       /\ step' = [busy |-> TRUE, cause |-> cause, sink |-> None]
       /\ UNCHANGED <<phase, root, status, outcome>>
-----------------------------------------------------------------------------
(* From a configuration to an execution *)

Author(t) ==
  /\ phase = "draft" /\ Len(defn.raw) < MaxTrans
  /\ defn' = [defn EXCEPT !.raw = Append(@, t)]
  /\ UNCHANGED <<phase, issues, exe>>

BuildDraft ==
  /\ phase = "draft"
  /\ LET d == Build(defn) IN
     IF \A i \in DOMAIN d.trans : Builds(d.trans[i])
     THEN /\ phase' = "built" /\ defn' = d /\ issues' = Validate(d)
     ELSE phase' = "refused" /\ UNCHANGED <<defn, issues>>
  /\ UNCHANGED exe

ValidateOrRaise ==
  /\ phase = "built" /\ Errors(issues) # {}
  /\ phase' = "refused"
  /\ UNCHANGED <<defn, issues, exe>>

Begin(r) ==
  /\ phase = "built" /\ Errors(issues) = {} /\ r \in ExecutionRoots(defn)
  /\ root' = r
  /\ IF r \in DOMAIN defn.start /\ Append(r, defn.start[r]) \in defn.states
     THEN LET first == Append(r, defn.start[r]) IN
          /\ phase' = "running" /\ status' = "RUNNING"
          /\ active' = Entered([n \in defn.states |-> None], first)
          /\ history' = Remembers([n \in defn.states |-> None], Chain(first, active') \ {first})
          /\ joined' = (active' \notin defn.orthogonal)
          /\ step' = [Rest EXCEPT !.busy = TRUE]
     ELSE phase' = "crashed" /\ UNCHANGED <<status, active, history, joined, step>>
  /\ ready' \in BOOLEAN
  /\ UNCHANGED <<defn, issues, outcome>>
-----------------------------------------------------------------------------
(* The drain *)

Drains == Running /\ step.busy
Waits == active \in defn.invoke \/ (active \in defn.orthogonal /\ ~joined)

\* The execution is outside its own branch: resolution raises, in this step or at the next message.
Lost ==
  /\ Running /\ ~IsPrefix(root, active) /\ (step.busy => ~Waits)
  /\ phase' = "crashed"
  /\ UNCHANGED <<defn, issues, exe>>

DrainAuto ==
  /\ Drains /\ ~Waits /\ IsPrefix(root, active)
  /\ LET S == Found(active, Auto, FALSE) IN S # {} /\ Take(Innermost(S), step.cause)
  /\ UNCHANGED <<defn, issues>>

DrainRest ==
  /\ Drains
  /\ \/ Waits
     \/ IsPrefix(root, active) /\ Found(active, Auto, FALSE) = {} /\ Found(active, Whichever, FALSE) # {}
  /\ step' = [step EXCEPT !.busy = FALSE]
  /\ UNCHANGED <<phase, defn, issues, root, active, status, outcome, history, ready, joined>>

\* A state with no transition of its own has finished: the one around it is next.
DrainSink ==
  /\ Drains /\ ~Waits /\ IsPrefix(root, active) /\ Found(active, Whichever, FALSE) = {}
  /\ outcome' = IF outcome = None /\ active \in DOMAIN defn.outcome THEN defn.outcome[active] ELSE outcome
  /\ LET sink == IF step.sink = None THEN active ELSE step.sink IN
     IF active # <<>> /\ Front(active) # root
     THEN /\ active' = Front(active)
          /\ history' = [history EXCEPT ![Front(active)] = None]
          /\ step' = [step EXCEPT !.sink = sink]
          /\ UNCHANGED status
     ELSE /\ status' = "DONE"
          /\ step' = [step EXCEPT !.busy = FALSE, !.sink = sink]
          /\ UNCHANGED <<active, history>>
  /\ UNCHANGED <<phase, defn, issues, root, ready, joined>>
-----------------------------------------------------------------------------
(* What a step begins with *)

\* A domain event, taken or left to the active state's on_activity; either drains again.
Process(kind) ==
  /\ Idle /\ kind \in defn.events
  /\ LET S == Found(active, On(kind), TRUE) IN
     \/ S # {} /\ Take(Innermost(S), None)
     \/ /\ S = {}
        /\ ready' \in IF active \in defn.activity THEN BOOLEAN ELSE {ready}
        /\ step' = [Rest EXCEPT !.busy = TRUE]
        /\ UNCHANGED <<phase, root, active, status, outcome, history, joined>>
  /\ UNCHANGED <<defn, issues>>

Timeout(n) ==
  /\ Idle /\ n \in defn.timed \cap Chain(root, active)
  /\ LET S == FoundAt(n, On("Timeout")) IN S # {} /\ Take(Innermost(S), None)
  /\ UNCHANGED <<defn, issues>>

\* Without a transition of its own the execution is cancelled.
Cancel ==
  /\ Idle
  /\ LET S == Found(active, On("Cancel"), TRUE) IN
     \/ S # {} /\ Take(Innermost(S), "Cancel")
     \/ S = {} /\ status' = "CANCELLED" /\ UNCHANGED <<phase, root, active, outcome, history, ready, joined, step>>
  /\ UNCHANGED <<defn, issues>>

Expire ==
  /\ Idle /\ defn.ttl # None /\ root = <<>>
  /\ LET S == SafeTeardown("Expired") IN
     \/ \E i \in S : Take(i, "Expired")
     \/ /\ S = {} /\ status' = "CANCELLED" /\ outcome' = "expired"
        /\ UNCHANGED <<phase, root, active, history, ready, joined, step>>
  /\ UNCHANGED <<defn, issues>>

\* Every region has reported Finished.
Join ==
  /\ Idle /\ active \in defn.orthogonal /\ ~joined
  /\ joined' = TRUE
  /\ step' = [Rest EXCEPT !.busy = TRUE]
  /\ UNCHANGED <<phase, defn, issues, root, active, status, outcome, history, ready>>

Returned ==
  /\ Idle /\ active \in defn.invoke
  /\ LET S == Found(active, On("Returned"), TRUE) IN S # {} /\ Take(Innermost(S), None)
  /\ UNCHANGED <<defn, issues>>
-----------------------------------------------------------------------------
Init ==
  /\ phase = "draft" /\ defn \in Drafts /\ issues = {}
  /\ root = <<>> /\ active = <<>> /\ status = "PENDING" /\ outcome = None /\ history = None
  /\ ready = FALSE /\ joined = TRUE /\ step = Rest

Next ==
  \/ phase = "draft" /\ \E t \in Vocabulary(defn) : Author(t)
  \/ BuildDraft \/ ValidateOrRaise
  \/ \E r \in defn.states : Begin(r)
  \/ Lost \/ DrainAuto \/ DrainRest \/ DrainSink
  \/ \E kind \in defn.events : Process(kind)
  \/ \E n \in defn.timed : Timeout(n)
  \/ Cancel \/ Expire \/ Join \/ Returned

Spec == Init /\ [][Next]_vars
-----------------------------------------------------------------------------
TypeOK ==
  /\ phase \in {"draft", "built", "refused", "running", "crashed"}
  /\ status \in {"PENDING", "RUNNING", "DONE", "CANCELLED"}
  /\ root \in defn.states /\ active \in defn.states
  /\ ready \in BOOLEAN /\ joined \in BOOLEAN
  /\ phase \in {"running", "crashed"} => Errors(issues) = {}

\* A validated machine never meets a selector branch or an initial state that the engine cannot
\* resolve (the assertions of core.py): all that may fail is a position outside its branch.
NeverCrashes == phase = "crashed" => status = "RUNNING" /\ ~IsPrefix(root, active)

\* An execution that ends in a leaf ends with an outcome.
VerdictGiven ==
  phase = "running" /\ status = "DONE" /\ ~Composite(defn, step.sink) => outcome # None

\* No state that an execution is ever in is reported unreachable.
ReachedIsReachable ==
  phase = "running" => \A n \in Chain(root, active) : [code |-> "unreachable", at |-> n] \notin issues

\* An execution that waits for a guard in a state whose choose has no else can be moved by an
\* event or by its on_activity.
\* Refuted: the validator counts the event transitions of sibling states.
NeverStuck ==
  Idle /\ (\E i \in Leaving(defn, active) : Automatic(defn.trans[i]) /\ defn.trans[i].how = "choose")
    => \/ active \in defn.activity
       \/ \E i \in OfStates(Whichever, Considered(active, TRUE)) : defn.trans[i].on \ Teardown # {}

\* The outcome is that of the state the execution ended in.
\* Refuted: the first labelled sink of an execution sets its outcome, also one inside a
\* composite that goes on.
EndsInItsVerdict ==
  phase = "running" /\ status = "DONE" /\ ~Composite(defn, step.sink) /\ step.sink \in DOMAIN defn.outcome
    => outcome = defn.outcome[step.sink]

\* An execution stays in the part of the machine it runs.
\* Refuted: the Timeout of a region may be handled by a transition outside its branch.
StaysInBranch == phase = "running" => IsPrefix(root, active)
=============================================================================
