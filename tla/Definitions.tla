---------------------------- MODULE Definitions ----------------------------
(***************************************************************************)
(* What a machine is (definition/model.py), how it is built from a parsed  *)
(* configuration (definition/builder.py, normalize.py) and what static     *)
(* validation says of it (definition/validate.py).  A node is its path of  *)
(* names from the root <<>>; names resolve by walking the tree.            *)
(*                                                                         *)
(* A draft (the configuration) is a record of                              *)
(*   states, orthogonal, invoke, timed, activity   sets of paths           *)
(*   start      the initial child's name, of some composites               *)
(*   outcome    the declared outcome, of some states                       *)
(*   events     the declared kinds;   ttl  an integer or None              *)
(*   raw        the transitions in order: scope, from (a list of names),   *)
(*              on (kinds; {}: automatic), how ("to", "select", "choose"), *)
(*              to (names), default (whether the last of `to` is the else) *)
(* and its definition has `trans` besides: one source each, `to` resolved  *)
(* (a selector's branches stay names).  Types are in Contexts.             *)
(***************************************************************************)
EXTENDS Integers, Sequences, FiniteSets, SequencesExt, FiniteSetsExt

CONSTANTS None

Reserved == {"Timeout", "Finished", "Cancel", "Reset", "SetState", "Start", "Returned", "error", "Expired"}
Teardown == {"Cancel", "Expired"}
-----------------------------------------------------------------------------
(* The tree *)

Ancestors(n) == {SubSeq(n, 1, k) : k \in 0..(Len(n) - 1)}
Chain(top, n) == {m \in Ancestors(n) \cup {n} : IsPrefix(top, m)}
Lca(a, b) == CHOOSE m \in (Ancestors(a) \cup {a}) \cap (Ancestors(b) \cup {b}) :
  \A k \in (Ancestors(a) \cup {a}) \cap (Ancestors(b) \cup {b}) : Len(k) <= Len(m)

Children(d, n) == {m \in d.states : m # <<>> /\ Front(m) = n}
Composite(d, n) == Children(d, n) # {}

Descend(d, scope, name) == IF scope \o name \in d.states THEN scope \o name ELSE None

\* The innermost scope, from this one outwards, in which the name is found.
ResolveRelative(d, scope, name) ==
  LET found == {m \in Ancestors(scope) \cup {scope} : m \o name \in d.states} IN
  IF found = {} THEN None ELSE (CHOOSE m \in found : \A k \in found : Len(k) <= Len(m)) \o name

-----------------------------------------------------------------------------
(* Building *)

\* A transition with a list of sources is one transition for each.
Expanded(raws) == FlattenSeq([i \in DOMAIN raws |->
  [j \in DOMAIN raws[i].from |-> [raws[i] EXCEPT !.from = raws[i].from[j]]]])

BuildTransition(d, t) ==
  [scope |-> t.scope, source |-> Descend(d, t.scope, t.from), on |-> t.on, how |-> t.how,
   to |-> IF t.how = "select" THEN t.to
          ELSE [i \in DOMAIN t.to |-> ResolveRelative(d, t.scope, t.to[i])],
   default |-> t.default]

Builds(t) == t.source # None /\ (t.how # "select" => \A i \in DOMAIN t.to : t.to[i] # None)

Build(d) ==
  LET raws == Expanded(d.raw) IN
  [states |-> d.states, orthogonal |-> d.orthogonal, start |-> d.start, outcome |-> d.outcome,
   timed |-> d.timed, invoke |-> d.invoke, activity |-> d.activity, ttl |-> d.ttl, events |-> d.events,
   trans |-> [i \in DOMAIN raws |-> BuildTransition(d, raws[i])]]
-----------------------------------------------------------------------------
(* What the checks ask of a definition *)

Automatic(t) == t.on = {}

BranchesButElse(t) == IF t.default THEN 1..(Len(t.to) - 1) ELSE DOMAIN t.to
Branches(t) == DOMAIN t.to

\* Every place a transition may lead to; a selector's names resolve from the scope that owns
\* the transition.
Targets(d, t) ==
  {IF t.how = "select" THEN ResolveRelative(d, t.scope, t.to[i]) ELSE t.to[i] : i \in Branches(t)} \ {None}

Leaving(d, n) == {i \in DOMAIN d.trans : d.trans[i].source = n}
AllTransitionsFrom(d, n) == {i \in DOMAIN d.trans : d.trans[i].scope = n} \cup Leaving(d, n)

IsTerminal(d, n) == ~Composite(d, n) /\ n \notin d.invoke /\ Leaving(d, n) = {}

IsRegion(d, n) == n # <<>> /\ Front(n) \in d.orthogonal
ExecutionRoots(d) == {<<>>} \cup {n \in d.states : IsRegion(d, n)}
ExecutionRootOf(d, n) ==
  LET regions == {m \in Ancestors(n) \cup {n} : IsRegion(d, m)} IN
  IF regions = {} THEN <<>> ELSE CHOOSE m \in regions : \A k \in regions : Len(k) <= Len(m)

\* A state between the leaf and the root that goes on when the leaf has finished.
Caught(d, leaf, root) == \E m \in Ancestors(leaf) : IsStrictPrefix(root, m) /\ Leaving(d, m) # {}

Ends(d, target, root) ==
  ExecutionRootOf(d, target) = root /\ IsTerminal(d, target) /\ ~Caught(d, target, root)

TopTerminals(d, root) == {n \in Children(d, root) : root \notin d.orthogonal /\ IsTerminal(d, n)}
ExecutionTerminals(d, root) ==
  {n \in d.states : /\ IsPrefix(root, n) /\ ~Composite(d, n)
                    /\ ~\E m \in Ancestors(n) : IsPrefix(root, m) /\ m \in d.orthogonal
                    /\ IsTerminal(d, n) /\ ~Caught(d, n, root)}

\* Entering a composite enters its initial child, an orthogonal state all of its regions; the
\* transitions of a scope are looked at once the scope itself is reached.
StepFromInitial(d, n) ==
  {m \in Children(d, n) : n \in DOMAIN d.start /\ m = Append(n, d.start[n])}
  \cup UNION {Targets(d, d.trans[i]) : i \in {j \in DOMAIN d.trans : d.trans[j].scope = n}}
StepFrom(d, n) ==
  (IF n \in d.orthogonal THEN Children(d, n)
   ELSE {m \in Children(d, n) : n \in DOMAIN d.start /\ m = Append(n, d.start[n])})
  \cup UNION {Targets(d, d.trans[i]) : i \in {j \in DOMAIN d.trans : d.trans[j].scope = n}}

RECURSIVE Spread(_, _)
Spread(d, S) == LET more == S \cup UNION {StepFrom(d, n) : n \in S} IN IF more = S THEN S ELSE Spread(d, more)
Reachable(d) == Spread(d, {<<>>})

\* A Timeout is handled by the state's own transition or by one of a state around it.
HasTimeoutHandler(d, n) == \E m \in Ancestors(n) \cup {n} : m # <<>> /\
  \E i \in Leaving(d, m) : d.trans[i].scope = Front(m) /\ "Timeout" \in d.trans[i].on

\* The execution can get past n by something else than n's automatic transitions.
CanRerun(d, n) == n \in d.activity \/ \E m \in Chain(ExecutionRootOf(d, n), n) :
  \E i \in AllTransitionsFrom(d, m) : d.trans[i].on \ Teardown # {}
-----------------------------------------------------------------------------
(* The checks: each the set of the issues it reports, [code, at] *)

Issue(code, S) == {[code |-> code, at |-> n] : n \in S}
Sources(d, P(_)) == {d.trans[i].source : i \in {j \in DOMAIN d.trans : P(d.trans[j])}}
Scopes(d, P(_)) == {d.trans[i].scope : i \in {j \in DOMAIN d.trans : P(d.trans[j])}}

CheckSelectors(d) ==
  Issue("selector_target_unresolved", Scopes(d, LAMBDA t :
    t.how = "select" /\ \E i \in Branches(t) : ResolveRelative(d, t.scope, t.to[i]) = None))

CheckInitial(d) ==
  LET composites == {n \in d.states \ d.orthogonal : Composite(d, n)} IN
  Issue("missing_initial", composites \ DOMAIN d.start)
  \cup Issue("initial_unresolved",
             {n \in composites \cap DOMAIN d.start : Append(n, d.start[n]) \notin d.states})

CheckNondeterminism(d) ==
  Issue("nondeterministic_automatic",
    {n \in d.states : Cardinality({i \in Leaving(d, n) : Automatic(d.trans[i])}) > 1})

CheckReachability(d) == Issue("unreachable", d.states \ Reachable(d))

CheckEvents(d) == Issue("unknown_event", Scopes(d, LAMBDA t : t.on \ (Reserved \cup d.events) # {}))

CheckCancelTarget(d) ==
  LET fails(kind) == Scopes(d, LAMBDA t : kind \in t.on /\
                       \E n \in Targets(d, t) : ~Ends(d, n, ExecutionRootOf(d, t.scope))) IN
  Issue("cancel_target_not_terminal", fails("Cancel")) \cup Issue("expired_target_not_terminal", fails("Expired"))

CheckChooseCanHang(d) ==
  Issue("choose_can_hang", Sources(d, LAMBDA t :
    t.how = "choose" /\ Automatic(t) /\ ~t.default /\ ~CanRerun(d, t.source)))

CheckTtl(d) ==
  (IF d.ttl # None /\ d.ttl <= 0 THEN Issue("ttl_not_positive", {<<>>}) ELSE {})
  \cup (IF d.ttl = None THEN Issue("expired_without_ttl", Scopes(d, LAMBDA t : "Expired" \in t.on)) ELSE {})

CheckTimeout(d) == Issue("timeout_unhandled", {n \in d.timed : ~HasTimeoutHandler(d, n)})

CheckOutcome(d) ==
  LET labelled == DOMAIN d.outcome IN
  Issue("outcome_on_composite", {n \in labelled : Composite(d, n)})
  \cup Issue("outcome_on_nonterminal", {n \in labelled : ~Composite(d, n) /\ Leaving(d, n) # {}})

CheckInvoke(d) ==
  Issue("invoke_on_composite", {n \in d.invoke : Composite(d, n)})
  \cup Issue("invoke_automatic_exit",
             {n \in d.invoke : \E i \in Leaving(d, n) : Automatic(d.trans[i])})

CheckTerminalOutcomes(d) == Issue("terminal_missing_outcome",
  UNION {ExecutionTerminals(d, root) : root \in ExecutionRoots(d)} \ DOMAIN d.outcome)

Warning == {"unreachable", "expired_without_ttl", "timeout_unhandled", "outcome_on_composite", "outcome_on_nonterminal"}

Validate(d) ==
  CheckSelectors(d) \cup CheckInitial(d) \cup CheckTimeout(d) \cup CheckOutcome(d) \cup CheckInvoke(d)
  \cup CheckNondeterminism(d) \cup CheckReachability(d) \cup CheckEvents(d) \cup CheckCancelTarget(d)
  \cup CheckChooseCanHang(d) \cup CheckTtl(d) \cup CheckTerminalOutcomes(d)

Errors(issues) == {x \in issues : x.code \notin Warning}
=============================================================================
