---------------------------- MODULE EngineProofs ----------------------------
(***************************************************************************)
(* What the interpreter guarantees for every machine: every tree of        *)
(* states, every list of transitions, and every hook that may raise.       *)
(***************************************************************************)
EXTENDS Engine, WellFoundedInduction, SequenceTheorems, TLAPS

(* The inductive invariant *)

\* The execution is, or will be, moved by its machine.
Live == status \in {"PENDING", "RUNNING", "CANCELLING"}

Control ==
  /\ ~Idle => status = "RUNNING"
  /\ step.pc = "choose" => step.trans # 0
  /\ step.pc = "move" => step.target # Top

\* Where the execution is, and what its composites remember.
Placed ==
  /\ \A p \in Composite : history[p] # NoNode => history[p] # Top /\ Parent[history[p]] = p
  /\ status = "PENDING" => active = Top
  /\ status = "RUNNING" /\ step.pc # "move" => active # Top
  /\ status = "CANCELLING" => active # Top

Paired == Live => inside = Line[active]

\* In a step, it is the timers it will commit that follow the active states.
Armed == timing = "exact" /\ Live =>
  (IF Idle THEN timers ELSE step.plan) = (Timed \cap Line[active]) \ fired

IInv == TypeOK /\ Control /\ Placed /\ Paired /\ Armed /\ DeferredWakes
-----------------------------------------------------------------------------
(* The machine *)

LEMMA Tree ==
  /\ \A n \in Node \ {Top} : /\ Parent[n] \in Node /\ Parent[n] \in Composite
                             /\ Line[n] = {n} \cup Line[Parent[n]] /\ n \notin Line[Parent[n]]
  /\ \A n \in Node : Line[n] \subseteq Node \ {Top}
  /\ Top \in Node /\ Line[Top] = {} /\ Top \notin Leaf /\ NoNode \notin Node
  /\ \A n \in Composite : n \in Node /\ Initial[n] \in Node \ {Top} /\ Parent[Initial[n]] = n
  BY MachineAssumption, TreeAssumption DEF Leaf, Composite

LEMMA TransLen == Len(Trans) \in Nat /\ DOMAIN Trans = 1..Len(Trans)
  <1>1. Trans \in Seq(Transition)
    BY MachineAssumption
  <1>2. QED
    BY <1>1, LenProperties

LEMMA TransType ==
  ASSUME NEW i \in DOMAIN Trans
  PROVE  /\ i \in Nat /\ i # 0 /\ i \in 0..Len(Trans) /\ Trans[i] \in Transition
         /\ Trans[i].source \in Node \ {Top}
         /\ Trans[i].to \subseteq Node \ {Top}
  <1>1. Trans \in Seq(Transition)
    BY MachineAssumption
  <1>2. Trans[i] \in Transition /\ i \in 1..Len(Trans) /\ Len(Trans) \in Nat
    BY <1>1, ElementOfSeq, LenProperties
  <1>3. Trans[i].source # Top /\ Top \notin Trans[i].to
    BY MachineAssumption
  <1>4. QED
    BY <1>2, <1>3 DEF Transition

\* A lookup finds transitions of the states from n up.
LEMMA FoundType ==
  ASSUME NEW n \in Node, NEW kind \in Kind, NEW g
  PROVE  /\ Found(n, kind, g) \subseteq DOMAIN Trans
         /\ \A i \in Found(n, kind, g) : Trans[i].source \in Line[n]
  <1>1. Candidates[n][kind] =
          {i \in DOMAIN Trans : kind \in Trans[i].on /\ Trans[i].source \in Sources(n, kind # "auto")}
    BY DEF Candidates
  <1>2. Sources(n, kind # "auto") \subseteq Line[n]
    BY DEF Sources
  <1>3. QED
    BY <1>1, <1>2 DEF Found

\* A nonempty set of numbers has a least one.
LEMMA Least ==
  ASSUME NEW S \in SUBSET Nat, S # {}
  PROVE  \E i \in S : \A j \in S : i <= j
  <1>1. PICK i \in S : \A j \in S : <<j, i>> \notin OpToRel(<, Nat)
    BY NatLessThanWellFounded, WFMin
  <1>2. \A j \in S : ~ (j < i)
    BY <1>1 DEF OpToRel
  <1>3. QED
    BY <1>2

\* Among transitions of one chain there is a first to resolve.
LEMMA ResolvedType ==
  ASSUME NEW n \in Node, NEW S \in SUBSET DOMAIN Trans, S # {},
         \A i \in S : Trans[i].source \in Line[n]
  PROVE  Resolved(S) \in S
  <1> DEFINE sources == {Trans[i].source : i \in S}
  <1>1. sources \in SUBSET Node /\ sources # {} /\ sources \subseteq Line[n]
    BY Tree
  <1>2. PICK m \in sources : sources \subseteq Line[m]
    <2> HIDE DEF sources
    <2> QED
      BY <1>1, TreeAssumption
  <1> DEFINE own == {i \in S : Trans[i].source = m}
  <1>3. own # {} /\ own \in SUBSET Nat
    BY <1>2, TransType
  <1>4. PICK i \in own : \A j \in own : i <= j
    BY <1>3, Least
  <1>5. i \in S /\ \A j \in S :
          IF Trans[j].source = Trans[i].source THEN i <= j ELSE Trans[j].source \in Line[Trans[i].source]
    BY <1>2, <1>4
  <1>6. QED
    BY <1>5 DEF Resolved

LEMMA Resolves ==
  ASSUME NEW n \in Node, NEW kind \in Kind, NEW g, Found(n, kind, g) # {}
  PROVE  Resolved(Found(n, kind, g)) \in DOMAIN Trans
  BY FoundType, ResolvedType
-----------------------------------------------------------------------------
(* The parts that the actions are made of *)

LEMMA KindType == {"auto", "Cancel", "Timeout", "error"} \subseteq Kind /\ Event \subseteq Kind
  BY DEF Kind

LEMMA RestType == ASSUME NEW b \in BOOLEAN PROVE Rest(b) \in Step /\ Rest(b).pc = "idle"
  BY Tree, TransLen DEF Rest, Step

\* Whatever raises, the execution fails, or a recovery begins from where it is.
LEMMA RaisedStep ==
  ASSUME TypeOK, Control, ~Idle, NEW n \in Node \ {Top}, NEW g, NEW armed \in SUBSET Timed,
         Raised(n, g, armed)
  PROVE  /\ step' \in Step /\ status' \in Status /\ timing' \in {"exact", "dropped", "placed"}
         /\ \/ status' = "FAILED" /\ step'.pc = "idle"
            \/ /\ status' = "RUNNING" /\ step'.pc = "choose" /\ step'.trans # 0 /\ step'.plan = timers
               /\ timing' = "exact" => timing = "exact" /\ step.plan \cup armed = timers
  <1> DEFINE S == Found(n, "error", g)
  <1>1. step \in Step /\ timers \in SUBSET Timed /\ timing \in {"exact", "dropped", "placed"}
    BY DEF TypeOK
  <1>2. timing' \in {"exact", "dropped", "placed"}
        /\ (timing' = "exact" => timing = "exact" /\ step.plan \cup armed = timers)
    BY <1>1 DEF Raised, Fail, Recovers, Drops
  <1>3. CASE step.recovering \/ S = {}
    <2>1. step' = Rest(step.rested) /\ status' = "FAILED"
      BY <1>3 DEF Raised, Fail
    <2>2. step.rested \in BOOLEAN
      BY <1>1 DEF Step
    <2>3. QED
      BY <1>2, <2>1, <2>2, RestType DEF Status
  <1>4. CASE ~(step.recovering \/ S = {})
    <2>1. Recovers(S, armed)
      BY <1>4 DEF Raised
    <2>2. Resolved(S) \in 0..Len(Trans) /\ Resolved(S) # 0
      BY <1>4, Resolves, TransType, KindType
    <2>3. step' = [step EXCEPT !.pc = "choose", !.trans = Resolved(S), !.target = Top, !.recovering = TRUE,
                               !.plan = timers]
          /\ status' = status
      BY <2>1 DEF Recovers
    <2>4. status = "RUNNING"
      BY DEF Control
    <2>5. step' \in Step /\ step'.pc = "choose" /\ step'.trans = Resolved(S) /\ step'.plan = timers
      BY <1>1, <2>2, <2>3, Tree DEF Step
    <2>6. QED
      BY <1>2, <2>2, <2>3, <2>4, <2>5 DEF Status
  <1>5. QED
    BY <1>3, <1>4

LEMMA FailStep ==
  ASSUME TypeOK, NEW armed \in SUBSET Timed, Fail(armed)
  PROVE  /\ step' \in Step /\ status' \in Status /\ timing' \in {"exact", "dropped", "placed"}
         /\ status' = "FAILED" /\ step'.pc = "idle"
  BY RestType DEF Fail, Drops, TypeOK, Step, Status

\* A failed execution, or one that has ended, has nothing more to keep than its types and
\* what it remembers.
LEMMA Ended ==
  ASSUME status' \in {"FAILED", "CANCELLED", "DONE"}, step'.pc = "idle", TypeOK',
         \A p \in Composite : history'[p] # NoNode => history'[p] # Top /\ Parent[history'[p]] = p
  PROVE  IInv'
  BY DEF IInv, Control, Placed, Paired, Armed, DeferredWakes, Live, Idle
\* What raises while no state is being entered or left.
LEMMA RaisedHere ==
  ASSUME IInv, ~Idle, step.pc # "move", holds' \in BOOLEAN, Raised(active, holds', {}),
         UNCHANGED <<active, history, deferred, outcome, timers, inside, fired>>
  PROVE  IInv'
  <1> USE DEF IInv
  <1>1. status = "RUNNING" /\ active \in Node \ {Top}
    BY DEF Control, Placed, TypeOK
  <1>2. /\ step' \in Step /\ status' \in Status /\ timing' \in {"exact", "dropped", "placed"}
        /\ \/ status' = "FAILED" /\ step'.pc = "idle"
           \/ /\ status' = "RUNNING" /\ step'.pc = "choose" /\ step'.trans # 0 /\ step'.plan = timers
              /\ timing' = "exact" => timing = "exact" /\ step.plan \cup {} = timers
    BY <1>1, RaisedStep
  <1>3. TypeOK'
    BY <1>2 DEF TypeOK
  <1>4. CASE status' = "FAILED" /\ step'.pc = "idle"
    BY <1>3, <1>4, Ended DEF Placed
  <1>5. CASE status' = "RUNNING" /\ step'.pc = "choose"
    BY <1>1, <1>2, <1>3, <1>5 DEF Control, Placed, Paired, Armed, Live, DeferredWakes, Idle
  <1>6. QED
    BY <1>2, <1>4, <1>5

\* A transition found is taken next.
LEMMA ChosenType ==
  ASSUME step \in Step, NEW i \in DOMAIN Trans, step' = [step EXCEPT !.pc = "choose", !.trans = i]
  PROVE  step' \in Step /\ step'.pc = "choose" /\ step'.trans # 0 /\ step'.plan = step.plan
  <1>1. i \in 0..Len(Trans) /\ i # 0
    BY TransType
  <1>2. QED
    BY <1>1 DEF Step

\* What begins a step leaves what it will commit as it was.
LEMMA BegunType ==
  ASSUME step \in Step, Idle, NEW cause \in Kind \cup {"none", "start", "teardown"}, NEW left \in SUBSET Timed
  PROVE  /\ \A n \in Node, kind \in Kind, g \in BOOLEAN :
              Found(n, kind, g) # {} /\ BeginsWith(Found(n, kind, g), cause, left) =>
                step' \in Step /\ step'.pc = "choose" /\ step'.trans # 0 /\ step'.plan = left
         /\ \A pc \in {"activity", "drain"} : Begins(pc, cause) /\ timers \in SUBSET Timed =>
              step' \in Step /\ step'.pc = pc /\ step'.plan = timers
  <1>1. ASSUME NEW i \in DOMAIN Trans,
               step' = [step EXCEPT !.pc = "choose", !.trans = i, !.cause = cause, !.plan = left]
        PROVE  step' \in Step /\ step'.pc = "choose" /\ step'.trans # 0 /\ step'.plan = left
    <2>1. i \in 0..Len(Trans) /\ i # 0
      BY TransType
    <2>2. QED
      BY <1>1, <2>1 DEF Step
  <1>2. ASSUME NEW n \in Node, NEW kind \in Kind, NEW g \in BOOLEAN,
               Found(n, kind, g) # {}, BeginsWith(Found(n, kind, g), cause, left)
        PROVE  step' \in Step /\ step'.pc = "choose" /\ step'.trans # 0 /\ step'.plan = left
    BY <1>1, <1>2, Resolves DEF BeginsWith
  <1>3. ASSUME NEW pc \in {"activity", "drain"}, Begins(pc, cause), timers \in SUBSET Timed
        PROVE  step' \in Step /\ step'.pc = pc /\ step'.plan = timers
    BY <1>3 DEF Begins, Step
  <1>4. QED
    BY <1>2, <1>3

LEMMA RestartsType ==
  ASSUME TypeOK, Restarts
  PROVE  /\ status' = "RUNNING" /\ active' = Top /\ inside' = {} /\ fired' = {} /\ Idle
         /\ step' \in Step /\ step'.pc = "move" /\ step'.target # Top /\ step'.plan = timers
         /\ holds' \in BOOLEAN /\ timers' = timers
  <1>1. Initial[Top] \in Node \ {Top}
    BY MachineAssumption
  <1>2. QED
    BY <1>1 DEF Restarts, TypeOK, Step
-----------------------------------------------------------------------------
(* The actions *)

LEMMA ChooseInv == IInv /\ Choose => IInv'
  <1> SUFFICES ASSUME IInv, Choose PROVE IInv'
    OBVIOUS
  <1> USE DEF IInv
  <1> DEFINE t == Trans[step.trans]
  <1>1. /\ step.pc = "choose" /\ ~Idle /\ status = "RUNNING" /\ step \in Step
        /\ active \in Node \ {Top} /\ holds \in BOOLEAN /\ holds' \in BOOLEAN
        /\ UNCHANGED <<active, history, deferred, outcome, timers, inside, fired>>
    BY DEF Choose, Control, Placed, TypeOK, Idle
  <1>2. t.to \subseteq Node \ {Top}
    <2>1. step.trans \in DOMAIN Trans
      BY <1>1, TransLen DEF Control, Step
    <2>2. QED
      BY <2>1, TransType
  <1>3. CASE \E m \in t.to : step' = [step EXCEPT !.pc = "move", !.trans = 0, !.target = m]
             /\ UNCHANGED <<status, timing>>
    <2>1. PICK m \in t.to : step' = [step EXCEPT !.pc = "move", !.trans = 0, !.target = m]
                             /\ UNCHANGED <<status, timing>>
      BY <1>3
    <2>2. step' \in Step /\ step'.pc = "move" /\ step'.target = m /\ step'.plan = step.plan
      <3>1. m \in Node /\ 0 \in 0..Len(Trans)
        BY <1>2, TransLen
      <3> HIDE DEF t
      <3>2. QED
        BY <1>1, <2>1, <3>1 DEF Step
    <2>3. TypeOK'
      BY <1>1, <2>1, <2>2 DEF TypeOK
    <2>4. QED
      BY <1>1, <1>2, <2>1, <2>2, <2>3 DEF Control, Placed, Paired, Armed, Live, DeferredWakes, Idle
  <1>4. CASE Raised(active, holds', {})
    BY <1>1, <1>4, RaisedHere
  <1>5. QED
    BY <1>3, <1>4 DEF Choose

LEMMA LeaveInv == IInv /\ Leave => IInv'
  <1> SUFFICES ASSUME IInv, Leave PROVE IInv'
    OBVIOUS
  <1> USE DEF IInv
  <1>1. /\ step.pc = "move" /\ ~Idle /\ status = "RUNNING" /\ step \in Step
        /\ active \in Node \ {Top} /\ step.target # Top /\ holds' \in BOOLEAN
        /\ UNCHANGED <<deferred, outcome, timers, fired>>
    BY DEF Leave, Above, Control, TypeOK, Idle
  <1>2. /\ Parent[active] \in Composite /\ Parent[active] \in Node
        /\ Line[active] = {active} \cup Line[Parent[active]] /\ active \notin Line[Parent[active]]
    BY <1>1, Tree
  <1>3. CASE /\ active' = Parent[active]
             /\ history' = Remembers(active)
             /\ step' = [step EXCEPT !.plan = Disarm(@, active)]
             /\ inside' = inside \ {active}
             /\ UNCHANGED <<status, timing>>
    <2>1. /\ history' \in [Composite -> Node \cup {NoNode}]
          /\ \A p \in Composite : history'[p] # NoNode => history'[p] # Top /\ Parent[history'[p]] = p
      BY <1>1, <1>2, <1>3 DEF Remembers, TypeOK, Placed
    <2>2. /\ step' \in Step /\ step'.pc = "move" /\ step'.target = step.target
          /\ step'.plan = step.plan \ {active}
      BY <1>1, <1>3 DEF Disarm, Step
    <2>3. TypeOK'
      BY <1>1, <1>2, <1>3, <2>1, <2>2 DEF TypeOK
    <2>4. Paired' /\ Armed'
      BY <1>1, <1>2, <1>3, <2>2 DEF Paired, Armed, Live, Idle
    <2>5. QED
      BY <1>1, <1>3, <2>1, <2>2, <2>3, <2>4 DEF Control, Placed, DeferredWakes, Idle
  <1>4. CASE Fail({}) /\ UNCHANGED <<active, history, inside>>
    <2>1. /\ step' \in Step /\ status' = "FAILED" /\ step'.pc = "idle"
          /\ timing' \in {"exact", "dropped", "placed"}
      BY <1>4, FailStep
    <2>2. TypeOK'
      BY <1>1, <1>4, <2>1 DEF TypeOK, Status
    <2>3. QED
      BY <1>4, <2>1, <2>2, Ended DEF Placed
  <1>5. QED
    BY <1>3, <1>4 DEF Leave

\* The next state down is a child of the active one.
LEMMA DownType ==
  ASSUME IInv, step.pc = "move", Above, active # step.target \/ active \in Composite
  PROVE  Down \in Node \ {Top} /\ Parent[Down] = active /\ active \in Composite
  <1>1. active \in Node /\ step.target \in Node
    BY DEF IInv, TypeOK, Step
  <1>2. CASE active # step.target
    <2>1. \E n \in Line[step.target] : Parent[n] = active
      BY <1>1, <1>2, TreeAssumption DEF Above
    <2>2. Down \in Line[step.target] /\ Parent[Down] = active
      BY <1>2, <2>1 DEF Down
    <2>3. QED
      BY <1>1, <2>2, Tree
  <1>3. CASE active = step.target
    <2>1. active \in Composite
      BY <1>3
    <2>2. CASE active \in Keeps /\ history[active] # NoNode
      BY <1>3, <2>1, <2>2 DEF Down, IInv, TypeOK, Placed
    <2>3. CASE ~(active \in Keeps /\ history[active] # NoNode)
      BY <1>3, <2>1, <2>3, Tree DEF Down
    <2>4. QED
      BY <2>1, <2>2, <2>3
  <1>4. QED
    BY <1>2, <1>3

LEMMA EnterInv == IInv /\ Enter => IInv'
  <1> SUFFICES ASSUME IInv, Enter PROVE IInv'
    OBVIOUS
  <1> DEFINE n == Down
  <1>1. /\ n \in Node \ {Top} /\ Parent[n] = active /\ active \in Composite /\ EnterState(n)
        /\ step.pc = "move"
    BY DownType DEF Enter
  <1> HIDE DEF n
  <1> USE DEF IInv
  <1>2. /\ ~Idle /\ status = "RUNNING" /\ step \in Step /\ step.target # Top /\ holds' \in BOOLEAN
        /\ active \in Node /\ timers \in SUBSET Timed /\ fired \in SUBSET Timed
        /\ inside' = inside \cup {n} /\ fired' = fired \ {n}
        /\ UNCHANGED <<deferred, outcome, timers>>
    BY <1>1 DEF EnterState, Control, TypeOK, Idle
  <1>3. Line[n] = {n} \cup Line[active] /\ n \notin Line[active]
    BY <1>1, Tree
  <1>4. Arms(n) \in SUBSET Timed /\ Arms(n) = Timed \cap {n}
    BY DEF Arms
  <1>5. /\ Forgets \in [Composite -> Node \cup {NoNode}]
        /\ \A p \in Composite : Forgets[p] # NoNode => Forgets[p] # Top /\ Parent[Forgets[p]] = p
    BY <1>1 DEF Forgets, TypeOK, Placed
  <1>6. CASE /\ active' = n
             /\ history' = IF active = Top THEN history ELSE [Forgets EXCEPT ![active] = n]
             /\ step' = [step EXCEPT !.target = IF active = @ THEN n ELSE @, !.plan = @ \cup Arms(n)]
             /\ UNCHANGED <<status, timing>>
    <2>1. /\ history' \in [Composite -> Node \cup {NoNode}]
          /\ \A p \in Composite : history'[p] # NoNode => history'[p] # Top /\ Parent[history'[p]] = p
      BY <1>1, <1>5, <1>6 DEF TypeOK, Placed
    <2>2. /\ step' \in Step /\ step'.pc = "move" /\ step'.plan = step.plan \cup Arms(n)
          /\ step'.target \in {n, step.target}
      <3> DEFINE target == IF active = step.target THEN n ELSE step.target
                 plan == step.plan \cup Arms(n)
      <3>1. target \in Node /\ target \in {n, step.target} /\ plan \in SUBSET Timed
        BY <1>1, <1>2, <1>4 DEF Step
      <3>2. step' = [step EXCEPT !.target = target, !.plan = plan]
        BY <1>6
      <3> HIDE DEF target, plan
      <3>3. step' \in Step /\ step'.pc = step.pc /\ step'.plan = plan /\ step'.target = target
        BY <1>2, <3>1, <3>2 DEF Step
      <3>4. QED
        BY <1>1, <3>1, <3>3 DEF plan
    <2>3. TypeOK'
      BY <1>1, <1>2, <1>6, <2>1, <2>2 DEF TypeOK
    <2>4. Paired' /\ Armed'
      BY <1>1, <1>2, <1>3, <1>4, <1>6, <2>2 DEF Paired, Armed, Live, Idle
    <2>5. QED
      BY <1>1, <1>2, <1>6, <2>1, <2>2, <2>3, <2>4 DEF Control, Placed, DeferredWakes, Idle
  <1>7. CASE active' = Position(n) /\ history' = Forgets /\ Raised(Position(n), holds', Arms(n))
    <2>1. active' = n
      BY <1>7 DEF Position
    <2>2. /\ step' \in Step /\ status' \in Status /\ timing' \in {"exact", "dropped", "placed"}
          /\ \/ status' = "FAILED" /\ step'.pc = "idle"
             \/ /\ status' = "RUNNING" /\ step'.pc = "choose" /\ step'.trans # 0 /\ step'.plan = timers
                /\ timing' = "exact" => timing = "exact" /\ step.plan \cup Arms(n) = timers
      BY <1>1, <1>2, <1>4, <1>7, RaisedStep DEF Position
    <2>3. TypeOK'
      BY <1>1, <1>2, <1>5, <1>7, <2>1, <2>2 DEF TypeOK
    <2>4. CASE status' = "FAILED" /\ step'.pc = "idle"
      BY <1>5, <1>7, <2>3, <2>4, Ended
    <2>5. CASE status' = "RUNNING" /\ step'.pc = "choose"
      <3>1. Paired' /\ Armed'
        BY <1>2, <1>3, <1>4, <2>1, <2>2, <2>5 DEF Paired, Armed, Live, Idle
      <3>2. QED
        BY <1>1, <1>2, <1>5, <1>7, <2>1, <2>2, <2>3, <2>5, <3>1 DEF Control, Placed, DeferredWakes, Idle
    <2>6. QED
      BY <2>2, <2>4, <2>5
  <1>8. QED
    BY <1>1, <1>6, <1>7 DEF EnterState

LEMMA ArriveInv == IInv /\ Arrive => IInv'
  <1> SUFFICES ASSUME IInv, Arrive PROVE IInv'
    OBVIOUS
  <1> USE DEF IInv
  <1>1. /\ step.pc = "move" /\ status = "RUNNING" /\ step \in Step /\ active # Top
        /\ UNCHANGED <<exe, holds, timers, inside, ghosts>>
    BY DEF Arrive, Control, TypeOK, Idle
  <1>2. step' \in Step /\ step'.pc = "drain" /\ step'.plan = step.plan
    BY <1>1, Tree DEF Arrive, Step
  <1>3. TypeOK'
    BY <1>1, <1>2 DEF TypeOK, exe, ghosts
  <1>4. QED
    BY <1>1, <1>2, <1>3 DEF exe, ghosts, Control, Placed, Paired, Armed, Live, DeferredWakes, Idle

LEMMA ActivityInv == IInv /\ Activity => IInv'
  <1> SUFFICES ASSUME IInv, Activity PROVE IInv'
    OBVIOUS
  <1> USE DEF IInv
  <1>1. /\ step.pc = "activity" /\ ~Idle /\ status = "RUNNING" /\ step \in Step
        /\ active \in Node \ {Top} /\ holds' \in BOOLEAN
        /\ UNCHANGED <<active, history, deferred, outcome, timers, inside, fired>>
    BY DEF Activity, Control, Placed, TypeOK, Idle
  <1>2. CASE step' = [step EXCEPT !.pc = "drain"] /\ UNCHANGED <<status, timing>>
    <2>1. step' \in Step /\ step'.pc = "drain" /\ step'.plan = step.plan
      BY <1>1, <1>2 DEF Step
    <2>2. TypeOK'
      BY <1>1, <1>2, <2>1 DEF TypeOK
    <2>3. QED
      BY <1>1, <1>2, <2>1, <2>2 DEF Control, Placed, Paired, Armed, Live, DeferredWakes, Idle
  <1>3. CASE Raised(active, holds', {})
    BY <1>1, <1>3, RaisedHere
  <1>4. QED
    BY <1>2, <1>3 DEF Activity

LEMMA DrainAutoInv == IInv /\ DrainAuto => IInv'
  <1> SUFFICES ASSUME IInv, DrainAuto PROVE IInv'
    OBVIOUS
  <1> USE DEF IInv
  <1>1. /\ step.pc = "drain" /\ status = "RUNNING" /\ step \in Step /\ active \in Node \ {Top}
        /\ Takes(Automatic) /\ Automatic # {}
        /\ UNCHANGED <<exe, holds, timers, inside, ghosts>>
    BY DEF DrainAuto, Control, Placed, TypeOK, Idle
  <1>2. step' \in Step /\ step'.pc = "choose" /\ step'.trans # 0 /\ step'.plan = step.plan
    BY <1>1, KindType, Resolves, ChosenType DEF Takes, Automatic
  <1>3. TypeOK'
    BY <1>1, <1>2 DEF TypeOK, exe, ghosts
  <1>4. QED
    BY <1>1, <1>2, <1>3 DEF exe, ghosts, Control, Placed, Paired, Armed, Live, DeferredWakes, Idle

LEMMA DrainDeferredInv == IInv /\ DrainDeferred => IInv'
  <1> SUFFICES ASSUME IInv, DrainDeferred PROVE IInv'
    OBVIOUS
  <1> USE DEF IInv
  <1> DEFINE i == CHOOSE i \in Wakeable : \A j \in Wakeable : i <= j
  <1>1. /\ step.pc = "drain" /\ status = "RUNNING" /\ step \in Step /\ active \in Node \ {Top}
        /\ Takes(Found(active, deferred[i], holds)) /\ Wakeable # {}
        /\ deferred' = SubSeq(deferred, 1, i - 1) \o SubSeq(deferred, i + 1, Len(deferred))
        /\ deferred \in Seq(Event)
        /\ UNCHANGED <<status, active, history, outcome, holds, timers, inside, ghosts>>
    BY DEF DrainDeferred, Control, Placed, TypeOK, Idle
  <1>2. Wakeable \in SUBSET Nat /\ Wakeable \subseteq 1..Len(deferred) /\ Len(deferred) \in Nat
    <2>1. Len(deferred) \in Nat /\ DOMAIN deferred = 1..Len(deferred)
      BY <1>1, LenProperties
    <2>2. Wakeable \subseteq DOMAIN deferred
      BY DEF Wakeable
    <2>3. QED
      BY <2>1, <2>2
  <1>3. i \in Wakeable
    BY <1>1, <1>2, Least
  <1>4. i \in 1..Len(deferred) /\ i \in Nat /\ deferred[i] \in Kind /\ Found(active, deferred[i], holds) # {}
    BY <1>1, <1>2, <1>3, ElementOfSeq, KindType DEF Wakeable
  <1> HIDE DEF i
  <1>5. deferred' \in Seq(Event)
    <2>1. \A j \in 1..Len(deferred) : deferred[j] \in Event
      BY <1>1, ElementOfSeq
    <2>2. SubSeq(deferred, 1, i - 1) \in Seq(Event)
      <3>1. 1 \in Int /\ i - 1 \in Int /\ \A j \in 1..(i - 1) : deferred[j] \in Event
        BY <1>2, <1>4, <2>1
      <3>2. QED
        BY <3>1, SubSeqProperties
    <2>3. SubSeq(deferred, i + 1, Len(deferred)) \in Seq(Event)
      <3>1. i + 1 \in Int /\ Len(deferred) \in Int /\ \A j \in (i + 1)..Len(deferred) : deferred[j] \in Event
        BY <1>2, <1>4, <2>1
      <3>2. QED
        BY <3>1, SubSeqProperties
    <2>4. QED
      BY <1>1, <2>2, <2>3, ConcatProperties
  <1>6. step' \in Step /\ step'.pc = "choose" /\ step'.trans # 0 /\ step'.plan = step.plan
    BY <1>1, <1>4, Resolves, ChosenType DEF Takes
  <1>7. TypeOK'
    BY <1>1, <1>5, <1>6 DEF TypeOK, ghosts
  <1>8. QED
    BY <1>1, <1>6, <1>7 DEF ghosts, Control, Placed, Paired, Armed, Live, DeferredWakes, Idle

LEMMA DrainRestInv == IInv /\ DrainRest => IInv'
  <1> SUFFICES ASSUME IInv, DrainRest PROVE IInv'
    OBVIOUS
  <1> USE DEF IInv
  <1>1. /\ step.pc = "drain" /\ ~Idle /\ status = "RUNNING" /\ step \in Step /\ Wakeable = {}
        /\ step' = Rest(TRUE) /\ timers' = step.plan
        /\ UNCHANGED <<exe, holds, inside, ghosts>>
    BY DEF DrainRest, Settle, Control, TypeOK, Idle
  <1>2. step' \in Step /\ step'.pc = "idle" /\ timers' \in SUBSET Timed
    BY <1>1, RestType DEF Step
  <1>3. TypeOK'
    BY <1>1, <1>2 DEF TypeOK, exe, ghosts
  <1>4. DeferredWakes'
    BY <1>1 DEF DeferredWakes, Wakeable, exe, Found, Fits
  <1>5. QED
    BY <1>1, <1>2, <1>3, <1>4 DEF exe, ghosts, Control, Placed, Paired, Armed, Live, Idle

LEMMA DrainSinkInv == IInv /\ DrainSink => IInv'
  <1> SUFFICES ASSUME IInv, DrainSink PROVE IInv'
    OBVIOUS
  <1> USE DEF IInv
  <1>1. /\ step.pc = "drain" /\ ~Idle /\ status = "RUNNING" /\ step \in Step
        /\ active \in Node \ {Top} /\ holds' \in BOOLEAN /\ step.plan \in SUBSET Timed
        /\ UNCHANGED <<deferred, fired>>
    BY DEF DrainSink, Control, Placed, TypeOK, Idle, Step
  <1>2. outcome' \in {Label[n] : n \in Node}
    BY <1>1 DEF DrainSink, TypeOK
  <1>3. /\ Parent[active] \in Composite /\ Parent[active] \in Node
        /\ Line[active] = {active} \cup Line[Parent[active]] /\ active \notin Line[Parent[active]]
    BY <1>1, Tree
  <1>4. CASE /\ Parent[active] # Top
             /\ inside' = inside \ {active}
             /\ history' = [history EXCEPT ![Parent[active]] = NoNode]
             /\ active' = Parent[active]
             /\ step' = [step EXCEPT !.plan = Disarm(@, active)]
             /\ UNCHANGED <<status, timers, timing>>
    <2>1. /\ history' \in [Composite -> Node \cup {NoNode}]
          /\ \A p \in Composite : history'[p] # NoNode => history'[p] # Top /\ Parent[history'[p]] = p
      BY <1>1, <1>3, <1>4 DEF TypeOK, Placed
    <2>2. step' \in Step /\ step'.pc = "drain" /\ step'.plan = step.plan \ {active}
      BY <1>1, <1>4 DEF Disarm, Step
    <2>3. TypeOK'
      BY <1>1, <1>2, <1>3, <1>4, <2>1, <2>2 DEF TypeOK
    <2>4. Paired' /\ Armed'
      BY <1>1, <1>3, <1>4, <2>2 DEF Paired, Armed, Live, Idle
    <2>5. QED
      BY <1>1, <1>4, <2>1, <2>2, <2>3, <2>4 DEF Control, Placed, DeferredWakes, Idle
  <1>5. CASE /\ inside' = inside \ {active}
             /\ status' = "DONE" /\ timers' = Disarm(step.plan, active) /\ step' = Rest(TRUE)
             /\ UNCHANGED <<history, active, timing>>
    <2>1. step' \in Step /\ step'.pc = "idle" /\ timers' \in SUBSET Timed
      BY <1>1, <1>5, RestType DEF Disarm
    <2>2. TypeOK'
      BY <1>1, <1>2, <1>5, <2>1 DEF TypeOK, Status
    <2>3. QED
      BY <1>5, <2>1, <2>2, Ended DEF Placed
  <1>6. CASE Fail({}) /\ UNCHANGED <<active, history, timers, inside>>
    <2>1. /\ step' \in Step /\ status' = "FAILED" /\ step'.pc = "idle"
          /\ timing' \in {"exact", "dropped", "placed"}
      BY <1>6, FailStep
    <2>2. TypeOK'
      BY <1>1, <1>2, <1>6, <2>1 DEF TypeOK, Status
    <2>3. QED
      BY <1>6, <2>1, <2>2, Ended DEF Placed
  <1>7. QED
    BY <1>4, <1>5, <1>6 DEF DrainSink

LEMMA StartInv == IInv /\ Start => IInv'
  <1> SUFFICES ASSUME IInv, Start PROVE IInv'
    OBVIOUS
  <1> USE DEF IInv
  <1>1. /\ status = "PENDING" /\ UNCHANGED <<history, deferred, outcome, timing>>
        /\ status' = "RUNNING" /\ active' = Top /\ inside' = {} /\ fired' = {} /\ Idle
        /\ step' \in Step /\ step'.pc = "move" /\ step'.target # Top /\ step'.plan = timers
        /\ holds' \in BOOLEAN /\ timers' = timers
    BY RestartsType DEF Start
  <1>2. TypeOK'
    BY <1>1, Tree DEF TypeOK, Status
  <1>3. Paired' /\ Armed'
    BY <1>1, Tree DEF Paired, Armed, Live, Idle, Placed
  <1>4. QED
    BY <1>1, <1>2, <1>3 DEF Control, Placed, DeferredWakes, Idle

LEMMA ResetInv == IInv /\ Reset => IInv'
  <1> SUFFICES ASSUME IInv, Reset PROVE IInv'
    OBVIOUS
  <1> USE DEF IInv
  <1>1. /\ history' = [n \in Composite |-> NoNode] /\ deferred' = <<>> /\ outcome' = NoLabel
        /\ timing' = IF timers = {} THEN timing ELSE "placed"
        /\ status' = "RUNNING" /\ active' = Top /\ inside' = {} /\ fired' = {} /\ Idle
        /\ step' \in Step /\ step'.pc = "move" /\ step'.target # Top /\ step'.plan = timers
        /\ holds' \in BOOLEAN /\ timers' = timers
    BY RestartsType DEF Reset
  <1>2. NoLabel \in {Label[n] : n \in Node}
    BY MachineAssumption
  <1>3. TypeOK'
    BY <1>1, <1>2, Tree DEF TypeOK, Status
  <1>4. Paired' /\ Armed'
    BY <1>1, Tree DEF Paired, Armed, Live, Idle
  <1>5. QED
    BY <1>1, <1>3, <1>4 DEF Control, Placed, DeferredWakes, Idle

LEMMA DomainInv == ASSUME NEW e \in Event PROVE IInv /\ Domain(e) => IInv'
  <1> SUFFICES ASSUME IInv, Domain(e) PROVE IInv'
    OBVIOUS
  <1> USE DEF IInv
  <1>1. /\ status = "RUNNING" /\ step \in Step /\ timers \in SUBSET Timed /\ holds \in BOOLEAN
        /\ active \in Node /\ deferred \in Seq(Event) /\ e \in Kind
        /\ UNCHANGED <<status, active, history, outcome, holds, timers, inside, ghosts>>
    BY KindType DEF Domain, TypeOK
  <1>2. Idle /\ active # Top
    BY <1>1 DEF Domain, Begins, BeginsWith, Placed, Idle
  <1>3. /\ step' \in Step /\ step'.pc \in {"choose", "drain", "activity"} /\ step'.plan = timers
        /\ step'.pc = "choose" => step'.trans # 0
    <2>1. CASE Found(active, e, holds) # {} /\ BeginsWith(Found(active, e, holds), e, timers)
      BY <1>1, <1>2, <2>1, BegunType
    <2>2. CASE Begins("drain", e) \/ Begins("activity", e)
      BY <1>1, <1>2, <2>2, BegunType
    <2>3. QED
      BY <2>1, <2>2 DEF Domain
  <1>4. deferred' \in Seq(Event)
    BY <1>1, AppendProperties DEF Domain
  <1>5. TypeOK'
    BY <1>1, <1>3, <1>4 DEF TypeOK, ghosts
  <1>6. QED
    BY <1>1, <1>2, <1>3, <1>5 DEF ghosts, Control, Placed, Paired, Armed, Live, DeferredWakes, Idle

LEMMA TimeoutInv == ASSUME NEW n \in Node PROVE IInv /\ Timeout(n) => IInv'
  <1> SUFFICES ASSUME IInv, Timeout(n) PROVE IInv'
    OBVIOUS
  <1> USE DEF IInv
  <1>1. /\ n \in timers /\ timers' = timers \ {n} /\ fired' = fired \cup {n}
        /\ UNCHANGED <<exe, holds, inside, timing>>
        /\ step \in Step /\ timers \in SUBSET Timed /\ fired \in SUBSET Timed /\ holds \in BOOLEAN
    BY DEF Timeout, TypeOK
  <1>2. Idle
    BY DEF Timeout, BeginsWith
  <1>3. CASE /\ status = "RUNNING" /\ Found(n, "Timeout", holds) # {}
             /\ BeginsWith(Found(n, "Timeout", holds), "Timeout", timers \ {n})
    <2>1. step' \in Step /\ step'.pc = "choose" /\ step'.trans # 0 /\ step'.plan = timers \ {n}
      BY <1>1, <1>2, <1>3, KindType, BegunType
    <2>2. TypeOK'
      BY <1>1, <2>1 DEF TypeOK, exe
    <2>3. QED
      BY <1>1, <1>2, <1>3, <2>1, <2>2 DEF exe, Control, Placed, Paired, Armed, Live, DeferredWakes, Idle
  <1>4. CASE UNCHANGED step
    <2>1. TypeOK'
      BY <1>1, <1>4 DEF TypeOK, exe
    <2>2. Armed'
      BY <1>1, <1>2, <1>4 DEF exe, Armed, Live, Idle
    <2>3. QED
      BY <1>1, <1>2, <1>4, <2>1, <2>2 DEF exe, Control, Placed, Paired, Live, DeferredWakes, Idle
  <1>5. QED
    BY <1>3, <1>4 DEF Timeout

LEMMA CancelInv == IInv /\ Cancel => IInv'
  <1> SUFFICES ASSUME IInv, Cancel PROVE IInv'
    OBVIOUS
  <1> USE DEF IInv
  <1> DEFINE cause == IF status = "CANCELLING" THEN "teardown" ELSE "Cancel"
  <1>1. /\ UNCHANGED <<active, history, deferred, outcome, holds, timers, inside, ghosts>>
        /\ step \in Step /\ timers \in SUBSET Timed /\ holds \in BOOLEAN /\ active \in Node
        /\ cause \in Kind \cup {"none", "start", "teardown"}
    BY KindType DEF Cancel, TypeOK
  <1>2. Idle
    BY DEF Cancel, BeginsWith
  <1>3. CASE /\ status \in {"RUNNING", "CANCELLING"} /\ Found(active, "Cancel", holds) # {}
             /\ BeginsWith(Found(active, "Cancel", holds), cause, timers) /\ status' = "RUNNING"
    <2>1. step' \in Step /\ step'.pc = "choose" /\ step'.trans # 0 /\ step'.plan = timers
      BY <1>1, <1>2, <1>3, KindType, BegunType
    <2>2. TypeOK'
      BY <1>1, <1>3, <2>1 DEF TypeOK, ghosts, Status
    <2>3. QED
      BY <1>1, <1>2, <1>3, <2>1, <2>2 DEF ghosts, Control, Placed, Paired, Armed, Live, DeferredWakes, Idle
  <1>4. CASE status' = "CANCELLED" /\ UNCHANGED step
    <2>1. TypeOK' /\ step'.pc = "idle"
      BY <1>1, <1>2, <1>4 DEF TypeOK, ghosts, Status, Idle
    <2>2. QED
      BY <1>1, <1>4, <2>1, Ended DEF Placed
  <1>5. QED
    BY <1>3, <1>4 DEF Cancel

LEMMA SetStateInv == ASSUME NEW n \in Node PROVE IInv /\ SetState(n) => IInv'
  <1> SUFFICES ASSUME IInv, SetState(n) PROVE IInv'
    OBVIOUS
  <1> USE DEF IInv
  <1>1. /\ status = "RUNNING" /\ n \in Node \ {Top} /\ Idle
        /\ deferred' = <<>> /\ active' = n /\ inside' = Line[n] /\ timing' = "placed"
        /\ UNCHANGED <<status, history, outcome, holds, timers, fired>>
        /\ step \in Step /\ timers \in SUBSET Timed
    BY Tree DEF SetState, Begins, TypeOK
  <1>2. step' \in Step /\ step'.pc = "drain"
    BY <1>1, BegunType DEF SetState
  <1>3. TypeOK'
    BY <1>1, <1>2, Tree DEF TypeOK
  <1>4. QED
    BY <1>1, <1>2, <1>3 DEF Control, Placed, Paired, Armed, DeferredWakes, Idle

LEMMA RedriveInv == ASSUME NEW n \in Node PROVE IInv /\ Redrive(n) => IInv'
  <1> SUFFICES ASSUME IInv, Redrive(n) PROVE IInv'
    OBVIOUS
  <1> USE DEF IInv
  <1>1. /\ n \in Node \ {Top} /\ Idle
        /\ status' = "RUNNING" /\ active' = n /\ inside' = Line[n] /\ timing' = "placed"
        /\ history' = [m \in Composite |-> NoNode]
        /\ step' = [step EXCEPT !.rested = FALSE]
        /\ UNCHANGED <<deferred, outcome, holds, timers, fired>>
        /\ step \in Step
    BY Tree DEF Redrive, TypeOK
  <1>2. step' \in Step /\ step'.pc = "idle" /\ ~step'.rested
    BY <1>1 DEF Step, Idle
  <1>3. TypeOK'
    BY <1>1, <1>2, Tree DEF TypeOK, Status
  <1>4. QED
    BY <1>1, <1>2, <1>3 DEF Control, Placed, Paired, Armed, DeferredWakes, Idle

LEMMA RequestCancelInv == IInv /\ RequestCancel => IInv'
  <1> SUFFICES ASSUME IInv, RequestCancel PROVE IInv'
    OBVIOUS
  <1> USE DEF IInv
  <1> DEFINE S == Found(active, "Cancel", holds)
  <1>1. /\ Idle /\ status \notin {"DONE", "CANCELLED"} /\ active \in Node /\ holds \in BOOLEAN
        /\ UNCHANGED <<active, history, deferred, outcome, holds, timers, step, inside, ghosts>>
    BY DEF RequestCancel, TypeOK
  <1>2. CASE status' = "CANCELLING" /\ status # "FAILED" /\ S # {}
    <2>1. active # Top
      BY <1>1, <1>2, FoundType, KindType, Tree
    <2>2. TypeOK'
      BY <1>1, <1>2 DEF TypeOK, ghosts, Status
    <2>3. Live
      BY <1>1, <1>2 DEF Live, TypeOK, Status
    <2>4. QED
      BY <1>1, <1>2, <2>1, <2>2, <2>3 DEF ghosts, Control, Placed, Paired, Armed, Live, DeferredWakes, Idle
  <1>3. CASE status' = "CANCELLED"
    <2>1. TypeOK' /\ step'.pc = "idle"
      BY <1>1, <1>3 DEF TypeOK, ghosts, Status, Idle
    <2>2. QED
      BY <1>1, <1>3, <2>1, Ended DEF Placed
  <1>4. QED
    BY <1>2, <1>3 DEF RequestCancel
-----------------------------------------------------------------------------
(* The theorems *)

LEMMA InitInv == Init => IInv
  <1> SUFFICES ASSUME Init PROVE IInv
    OBVIOUS
  <1>1. step \in Step /\ Idle
    BY RestType DEF Init, Idle
  <1>2. NoLabel \in {Label[n] : n \in Node}
    BY MachineAssumption
  <1>3. TypeOK
    <2>1. active \in Node /\ history \in [Composite -> Node \cup {NoNode}] /\ deferred \in Seq(Event)
      BY Tree DEF Init
    <2>2. status \in Status /\ holds \in BOOLEAN /\ timing \in {"exact", "dropped", "placed"}
      BY DEF Init, Status
    <2>3. outcome \in {Label[n] : n \in Node} /\ timers \subseteq Timed /\ inside \subseteq Node /\ fired \subseteq Timed
      BY <1>2 DEF Init
    <2>4. QED
      BY <1>1, <2>1, <2>2, <2>3 DEF TypeOK
  <1>4. QED
    BY <1>1, <1>3, Tree DEF Init, IInv, Control, Placed, Paired, Armed, Live, DeferredWakes, Idle

LEMMA NextInv == IInv /\ [Next]_vars => IInv'
  <1> SUFFICES ASSUME IInv, [Next]_vars PROVE IInv'
    OBVIOUS
  <1>1. CASE Advance
    BY <1>1, ChooseInv, LeaveInv, EnterInv, ArriveInv, ActivityInv, DrainAutoInv, DrainDeferredInv,
       DrainRestInv, DrainSinkInv DEF Advance
  <1>2. CASE Start \/ Reset \/ Cancel \/ RequestCancel
    BY <1>2, StartInv, ResetInv, CancelInv, RequestCancelInv
  <1>3. CASE \E e \in Event : Domain(e)
    BY <1>3, DomainInv
  <1>4. CASE \E n \in Node : Timeout(n) \/ SetState(n) \/ Redrive(n)
    BY <1>4, TimeoutInv, SetStateInv, RedriveInv
  <1>5. CASE UNCHANGED vars
    <2>1. TypeOK'
      BY <1>5 DEF vars, exe, ghosts, IInv, TypeOK
    <2>2. QED
      BY <1>5, <2>1 DEF vars, exe, ghosts, IInv, Control, Placed, Paired, Armed, Live, DeferredWakes,
         Idle, Found, Fits
  <1>6. QED
    BY <1>1, <1>2, <1>3, <1>4, <1>5 DEF Next

LEMMA Inductive == Spec => []IInv
  BY InitInv, NextInv, PTL DEF Spec

\* Every reachable state of the interpreter is well typed, for any machine and any bound.
THEOREM EngineTypeCorrect == Spec => []TypeOK
  <1>1. IInv => TypeOK
    BY DEF IInv
  <1>2. QED
    BY <1>1, Inductive, PTL

\* Hooks come in pairs: through every cascade, error and recovery, the states entered and not
\* left are exactly those from the active state up.
THEOREM HooksComeInPairs == Spec => []HooksPair
  <1>1. IInv => HooksPair
    BY DEF IInv, Paired, Live, HooksPair
  <1>2. QED
    BY <1>1, Inductive, PTL

\* The store's timers follow the active states wherever no step's effects were dropped.
THEOREM TimersFollowStates == Spec => []TimersFollow
  <1>1. IInv => TimersFollow
    BY DEF IInv, Armed, Live, TimersFollow
  <1>2. QED
    BY <1>1, Inductive, PTL

\* A deferred event never waits, at rest, for a state that is already there.
THEOREM DeferredWake == Spec => []DeferredWakes
  <1>1. IInv => DeferredWakes
    BY DEF IInv
  <1>2. QED
    BY <1>1, Inductive, PTL
-----------------------------------------------------------------------------
(* Cooperative cancellation *)

\* A Cancel transition runs nothing that may raise before a state is left.
CancelIsSafe == \A i \in DOMAIN Trans : "Cancel" \in Trans[i].on => ~Trans[i].fallible

\* What a cancellation decided to be cooperative was decided from.
Decided ==
  LET S == Found(active, "Cancel", holds) IN
  S # {} /\ \A n \in Trans[Resolved(S)].to : WouldBeASink(n)

\* The states that the teardown is on its way to have nothing to take or to wait for.
Dooms == \A m \in Line[active] : ~HasOwn[m]
Doomed ==
  /\ status = "CANCELLING" => Decided
  /\ ~Idle /\ step.cause = "teardown" =>
       /\ step.pc \in {"choose", "move", "drain"}
       /\ step.pc = "choose" =>
            ~Trans[step.trans].fallible /\ \A n \in Trans[step.trans].to : WouldBeASink(n)
       /\ step.pc = "move" => WouldBeASink(step.target)
       /\ step.pc = "drain" => Dooms

\* Where no state has a transition of its own, nothing is found.
LEMMA NothingToTake ==
  ASSUME NEW n \in Node, \A m \in Line[n] : ~HasOwn[m]
  PROVE  \A kind \in Kind, g \in BOOLEAN : Found(n, kind, g) = {}
  <1> SUFFICES ASSUME NEW kind \in Kind, NEW g \in BOOLEAN, NEW i \in Found(n, kind, g) PROVE FALSE
    OBVIOUS
  <1> DEFINE s == Trans[i].source
  <1>1. i \in DOMAIN Trans /\ s \in Line[n] /\ s \in Node \ {Top}
    BY FoundType, TransType
  <1>2. s \in Sources(s, FALSE)
    BY <1>1, Tree DEF Sources
  <1>3. HasOwn[s]
    BY <1>1, <1>2 DEF HasOwn
  <1>4. QED
    BY <1>1, <1>3

\* An error on the way to a sink is not recovered from.
LEMMA RaisedOnTheWay ==
  ASSUME NEW n \in Node, \A m \in Line[n] : ~HasOwn[m], NEW g \in BOOLEAN, NEW armed, Raised(n, g, armed)
  PROVE  status' = "FAILED" /\ step'.pc = "idle"
  BY NothingToTake, KindType DEF Raised, Fail, Rest

LEMMA RaisedCause ==
  ASSUME step \in Step, status = "RUNNING", NEW n, NEW g, NEW armed, Raised(n, g, armed)
  PROVE  step'.cause \in {step.cause, "none"} /\ status' # "CANCELLING"
  <1>1. CASE Fail(armed)
    BY <1>1 DEF Fail, Rest
  <1>2. CASE Recovers(Found(n, "error", g), armed)
    <2>1. step' = [step EXCEPT !.pc = "choose", !.trans = Resolved(Found(n, "error", g)), !.target = Top,
                               !.recovering = TRUE, !.plan = timers]
          /\ status' = status
      BY <1>2 DEF Recovers
    <2>2. step'.cause = step.cause
      BY <2>1 DEF Step
    <2>3. QED
      BY <2>1, <2>2
  <1>3. QED
    BY <1>1, <1>2 DEF Raised

LEMMA DoomedInit == Init => Doomed
  BY DEF Init, Doomed, Idle, Rest

LEMMA DoomedChoose == IInv /\ Doomed /\ Choose => Doomed'
  <1> SUFFICES ASSUME IInv, Doomed, Choose PROVE Doomed'
    OBVIOUS
  <1>1. /\ step.pc = "choose" /\ ~Idle /\ status = "RUNNING" /\ step \in Step
    BY DEF IInv, Choose, Control, TypeOK, Idle
  <1>2. CASE \E m \in Trans[step.trans].to : step' = [step EXCEPT !.pc = "move", !.trans = 0, !.target = m]
             /\ UNCHANGED <<status, timing>>
    <2>1. PICK m \in Trans[step.trans].to : step' = [step EXCEPT !.pc = "move", !.trans = 0, !.target = m]
             /\ UNCHANGED <<status, timing>>
      BY <1>2
    <2>2. step'.pc = "move" /\ step'.target = m /\ step'.cause = step.cause
      BY <1>1, <2>1 DEF Step
    <2>3. QED
      BY <1>1, <2>1, <2>2 DEF Doomed, Idle, WouldBeASink
  <1>3. CASE Trans[step.trans].fallible /\ Raised(active, holds', {})
    <2>1. step.cause # "teardown"
      BY <1>1, <1>3 DEF Doomed
    <2>2. step'.cause # "teardown" /\ status' # "CANCELLING"
      BY <1>1, <1>3, <2>1, RaisedCause
    <2>3. QED
      BY <2>2 DEF Doomed
  <1>4. QED
    BY <1>2, <1>3 DEF Choose

LEMMA DoomedLeave == IInv /\ Doomed /\ Leave => Doomed'
  <1> SUFFICES ASSUME IInv, Doomed, Leave PROVE Doomed'
    OBVIOUS
  <1>1. step.pc = "move" /\ ~Idle /\ status = "RUNNING" /\ step \in Step
    BY DEF IInv, Leave, Control, TypeOK, Idle
  <1>2. CASE step' = [step EXCEPT !.plan = Disarm(@, active)] /\ UNCHANGED <<status, timing>>
    <2>1. step'.pc = "move" /\ step'.target = step.target /\ step'.cause = step.cause
      BY <1>1, <1>2 DEF Step
    <2>2. QED
      BY <1>1, <1>2, <2>1 DEF Doomed, Idle, WouldBeASink
  <1>3. CASE Fail({})
    BY <1>3 DEF Fail, Rest, Doomed, Idle
  <1>4. QED
    BY <1>2, <1>3 DEF Leave

LEMMA DoomedEnter == IInv /\ Doomed /\ Enter => Doomed'
  <1> SUFFICES ASSUME IInv, Doomed, Enter PROVE Doomed'
    OBVIOUS
  <1> DEFINE n == Down
  <1>1. /\ step.pc = "move" /\ ~Idle /\ status = "RUNNING" /\ step \in Step /\ holds' \in BOOLEAN
        /\ EnterState(n) /\ n \in Node \ {Top} /\ active \in Composite /\ active \in Node /\ step.target \in Node
    BY DownType DEF IInv, Enter, EnterState, Control, TypeOK, Idle, Step
  <1>2. step.cause = "teardown" =>
          step.target # active /\ WouldBeASink(step.target) /\ \A m \in Line[n] : ~HasOwn[m]
    <2> SUFFICES ASSUME step.cause = "teardown"
                 PROVE  step.target # active /\ WouldBeASink(step.target) /\ \A m \in Line[n] : ~HasOwn[m]
      OBVIOUS
    <2>1. WouldBeASink(step.target)
      BY <1>1 DEF Doomed
    <2>2. step.target # active
      BY <1>1, <2>1 DEF WouldBeASink, Leaf
    <2>3. \E m \in Line[step.target] : Parent[m] = active
      BY <1>1, <2>2, TreeAssumption DEF Enter, Above
    <2>4. n \in Line[step.target]
      BY <2>2, <2>3 DEF Down
    <2>5. Line[n] \subseteq Line[step.target]
      BY <1>1, <2>4, TreeAssumption
    <2>6. QED
      BY <2>1, <2>2, <2>5 DEF WouldBeASink
  <1> HIDE DEF n
  <1>3. CASE /\ step' = [step EXCEPT !.target = IF active = @ THEN n ELSE @, !.plan = @ \cup Arms(n)]
             /\ UNCHANGED <<status, timing>>
    <2>1. step'.pc = "move" /\ step'.cause = step.cause
          /\ (active # step.target => step'.target = step.target)
      BY <1>1, <1>3 DEF Step
    <2>2. QED
      BY <1>1, <1>2, <1>3, <2>1 DEF Doomed, Idle, WouldBeASink
  <1>4. CASE Raised(n, holds', Arms(n))
    <2>1. CASE step.cause = "teardown"
      <3>1. status' = "FAILED" /\ step'.pc = "idle"
        BY <1>1, <1>2, <1>4, <2>1, RaisedOnTheWay
      <3>2. QED
        BY <3>1 DEF Doomed, Idle
    <2>2. CASE step.cause # "teardown"
      <3>1. step'.cause # "teardown" /\ status' # "CANCELLING"
        BY <1>1, <1>4, <2>2, RaisedCause
      <3>2. QED
        BY <3>1 DEF Doomed
    <2>3. QED
      BY <2>1, <2>2
  <1>5. QED
    BY <1>1, <1>3, <1>4 DEF EnterState, Position

LEMMA DoomedArrive == IInv /\ Doomed /\ Arrive => Doomed'
  <1> SUFFICES ASSUME IInv, Doomed, Arrive PROVE Doomed'
    OBVIOUS
  <1>1. /\ step.pc = "move" /\ ~Idle /\ status = "RUNNING" /\ step \in Step /\ active = step.target
        /\ UNCHANGED <<status, active>>
    BY DEF IInv, Arrive, Control, TypeOK, Idle, exe
  <1>2. step'.pc = "drain" /\ step'.cause = step.cause
    BY <1>1 DEF Arrive, Step
  <1>3. step.cause = "teardown" => Dooms
    BY <1>1 DEF Doomed, WouldBeASink, Dooms
  <1>4. QED
    BY <1>1, <1>2, <1>3 DEF Doomed, Dooms

\* A teardown that drains finds nothing: it bubbles up, or has ended.
LEMMA DoomedDrain == IInv /\ Doomed /\ (DrainAuto \/ DrainDeferred \/ DrainRest \/ DrainSink) => Doomed'
  <1> SUFFICES ASSUME IInv, Doomed, DrainAuto \/ DrainDeferred \/ DrainRest \/ DrainSink PROVE Doomed'
    OBVIOUS
  <1>1. /\ step.pc = "drain" /\ ~Idle /\ status = "RUNNING" /\ step \in Step /\ active \in Node \ {Top}
        /\ holds \in BOOLEAN
    BY DEF IInv, DrainAuto, DrainDeferred, DrainRest, DrainSink, Control, Placed, TypeOK, Idle
  <1>2. step.cause = "teardown" => Automatic = {} /\ ~HasOwn[active] /\ \A m \in Line[active] : ~HasOwn[m]
    <2>1. step.cause = "teardown" => \A m \in Line[active] : ~HasOwn[m]
      BY <1>1 DEF Doomed, Dooms
    <2>2. active \in Line[active]
      BY <1>1, Tree
    <2>3. QED
      BY <1>1, <2>1, <2>2, NothingToTake, KindType DEF Automatic
  <1>3. CASE DrainAuto \/ DrainDeferred \/ DrainRest
    <2>1. step.cause # "teardown"
      BY <1>2, <1>3 DEF DrainAuto, DrainDeferred, DrainRest
    <2>2. step'.cause # "teardown" /\ status' # "CANCELLING"
      <3>1. CASE DrainRest
        BY <1>1, <3>1 DEF DrainRest, Settle, Rest, exe
      <3>2. CASE DrainAuto \/ DrainDeferred
        <4>1. PICK i : step' = [step EXCEPT !.pc = "choose", !.trans = i]
          BY <3>2 DEF DrainAuto, DrainDeferred, Takes
        <4>2. step'.cause = step.cause /\ status' = status
          BY <1>1, <3>2, <4>1 DEF DrainAuto, DrainDeferred, exe, Step
        <4>3. QED
          BY <1>1, <2>1, <4>2
      <3>3. QED
        BY <1>3, <3>1, <3>2
    <2>3. QED
      BY <2>2 DEF Doomed
  <1>4. CASE DrainSink
    <2>1. CASE /\ Parent[active] # Top /\ active' = Parent[active]
               /\ step' = [step EXCEPT !.plan = Disarm(@, active)] /\ UNCHANGED status
      <3>1. step'.pc = "drain" /\ step'.cause = step.cause
        BY <1>1, <2>1 DEF Step
      <3>2. Line[active'] \subseteq Line[active]
        BY <1>1, <2>1, Tree
      <3>3. QED
        BY <1>1, <1>2, <2>1, <3>1, <3>2 DEF Doomed, Dooms
    <2>2. CASE status' = "DONE" /\ step' = Rest(TRUE)
      BY <2>2 DEF Rest, Doomed, Idle
    <2>3. CASE Fail({})
      BY <2>3 DEF Fail, Rest, Doomed, Idle
    <2>4. QED
      BY <1>4, <2>1, <2>2, <2>3 DEF DrainSink
  <1>5. QED
    BY <1>3, <1>4

LEMMA DoomedActivity == IInv /\ Doomed /\ Activity => Doomed'
  <1> SUFFICES ASSUME IInv, Doomed, Activity PROVE Doomed'
    OBVIOUS
  <1>1. /\ step.pc = "activity" /\ ~Idle /\ status = "RUNNING" /\ step \in Step /\ step.cause # "teardown"
    BY DEF IInv, Activity, Control, TypeOK, Idle, Doomed
  <1>2. step'.cause # "teardown" /\ status' # "CANCELLING"
    <2>1. CASE step' = [step EXCEPT !.pc = "drain"] /\ UNCHANGED status
      BY <1>1, <2>1 DEF Step
    <2>2. CASE Raised(active, holds', {})
      BY <1>1, <2>2, RaisedCause
    <2>3. QED
      BY <2>1, <2>2 DEF Activity
  <1>3. QED
    BY <1>2 DEF Doomed

\* Nothing but a Cancel begins a teardown, and only from what was decided.
LEMMA DoomedBegin ==
  ASSUME CancelIsSafe, IInv, Doomed,
         Start \/ Reset \/ Cancel \/ RequestCancel \/ (\E e \in Event : Domain(e))
         \/ (\E n \in Node : Timeout(n) \/ SetState(n) \/ Redrive(n))
  PROVE  Doomed'
  <1>1. step \in Step /\ status \in Status /\ holds \in BOOLEAN /\ active \in Node
    BY DEF IInv, TypeOK
  <1>2. CASE Start \/ Reset
    BY <1>1, <1>2 DEF Start, Reset, Restarts, Doomed, Step
  <1>3. CASE Cancel
    <2> DEFINE S == Found(active, "Cancel", holds)
    <2>1. Idle /\ UNCHANGED <<active, holds>>
      BY <1>3 DEF Cancel, BeginsWith
    <2>2. CASE /\ S # {} /\ status' = "RUNNING"
               /\ BeginsWith(S, IF status = "CANCELLING" THEN "teardown" ELSE "Cancel", timers)
      <3>1. step'.pc = "choose" /\ step'.trans = Resolved(S)
            /\ step'.cause = IF status = "CANCELLING" THEN "teardown" ELSE "Cancel"
        BY <1>1, <2>2 DEF BeginsWith, Step
      <3>2. Resolved(S) \in S /\ S \subseteq DOMAIN Trans
        BY <1>1, <2>2, FoundType, ResolvedType, KindType
      <3>3. ~Trans[Resolved(S)].fallible
        <4>1. "Cancel" \in Trans[Resolved(S)].on
          BY <1>1, <3>2, KindType DEF Found, Candidates
        <4>2. QED
          BY <3>2, <4>1 DEF CancelIsSafe
      <3>4. status = "CANCELLING" => \A n \in Trans[Resolved(S)].to : WouldBeASink(n)
        BY DEF Doomed, Decided
      <3>5. QED
        BY <2>2, <3>1, <3>3, <3>4 DEF Doomed, WouldBeASink
    <2>3. CASE status' = "CANCELLED" /\ UNCHANGED step
      BY <2>1, <2>3 DEF Doomed, Idle
    <2>4. QED
      BY <1>3, <2>2, <2>3 DEF Cancel
  <1>4. CASE RequestCancel
    BY <1>4 DEF RequestCancel, Doomed, Decided, Idle, Found, Fits, WouldBeASink
  <1>5. CASE \E e \in Event : Domain(e)
    <2>1. PICK e \in Event : Domain(e)
      BY <1>5
    <2>2. status' = "RUNNING" /\ step'.cause = e
      BY <1>1, <2>1 DEF Domain, Begins, BeginsWith, Step
    <2>3. e # "teardown"
      BY MachineAssumption
    <2>4. QED
      BY <2>2, <2>3 DEF Doomed
  <1>6. CASE \E n \in Node : Timeout(n)
    <2>1. PICK n \in Node : Timeout(n)
      BY <1>6
    <2>2. Idle /\ UNCHANGED <<status, active, holds>>
      BY <2>1 DEF Timeout, BeginsWith, exe
    <2>3. CASE UNCHANGED step
      BY <2>2, <2>3 DEF Doomed, Decided, Idle, Found, Fits, WouldBeASink
    <2>4. CASE status = "RUNNING" /\ step'.cause = "Timeout"
      BY <2>2, <2>4 DEF Doomed
    <2>5. QED
      BY <1>1, <2>1, <2>3, <2>4 DEF Timeout, BeginsWith, Step
  <1>7. CASE \E n \in Node : SetState(n) \/ Redrive(n)
    BY <1>1, <1>7 DEF SetState, Redrive, Begins, Doomed, Idle, Step
  <1>8. QED
    BY <1>2, <1>3, <1>4, <1>5, <1>6, <1>7

LEMMA DoomedNext == CancelIsSafe /\ IInv /\ Doomed /\ [Next]_vars => Doomed'
  <1> SUFFICES ASSUME CancelIsSafe, IInv, Doomed, [Next]_vars PROVE Doomed'
    OBVIOUS
  <1>1. CASE Advance
    BY <1>1, DoomedChoose, DoomedLeave, DoomedEnter, DoomedArrive, DoomedActivity, DoomedDrain DEF Advance
  <1>2. CASE Next /\ ~Advance
    BY <1>2, DoomedBegin DEF Next
  <1>3. CASE UNCHANGED vars
    BY <1>3 DEF vars, exe, ghosts, Doomed, Decided, Dooms, Idle, Found, Fits, WouldBeASink
  <1>4. QED
    BY <1>1, <1>2, <1>3

\* The step of a teardown ends in no other way than by the end, or the failure, of the execution.
LEMMA TeardownStep ==
  ASSUME IInv, Doomed, [Next]_vars, step.cause = "teardown", ~Idle, step'.pc = "idle"
  PROVE  status' # "RUNNING"
  <1>1. step \in Step /\ status = "RUNNING" /\ holds \in BOOLEAN /\ active \in Node
    BY DEF IInv, TypeOK, Control
  <1>2. Advance
    BY DEF Next, vars, Idle, Start, Reset, Restarts, Cancel, RequestCancel, Domain, Timeout, SetState, Redrive,
       Begins, BeginsWith
  <1>3. ASSUME NEW n \in Node \ {Top}, NEW g, NEW armed \in SUBSET Timed, Raised(n, g, armed)
        PROVE  status' # "RUNNING"
    BY <1>3, RaisedStep DEF IInv
  <1>4. CASE Choose
    <2>1. CASE \E m \in Trans[step.trans].to : step' = [step EXCEPT !.pc = "move", !.trans = 0, !.target = m]
      BY <1>1, <2>1 DEF Step
    <2>2. CASE Trans[step.trans].fallible
      BY <1>4, <2>2 DEF Choose, Doomed
    <2>3. QED
      BY <1>4, <2>1, <2>2 DEF Choose
  <1>5. CASE Leave
    <2>1. CASE step' = [step EXCEPT !.plan = Disarm(@, active)]
      BY <1>1, <1>5, <2>1 DEF Leave, Step
    <2>2. QED
      BY <1>5, <2>1 DEF Leave, Fail
  <1>6. CASE Enter
    <2> DEFINE n == Down
    <2>1. n \in Node \ {Top} /\ EnterState(n) /\ step.pc = "move"
      BY <1>6, DownType DEF Enter
    <2> HIDE DEF n
    <2>2. CASE step' = [step EXCEPT !.target = IF active = @ THEN n ELSE @, !.plan = @ \cup Arms(n)]
      BY <1>1, <2>1, <2>2 DEF Step
    <2>3. CASE Raised(Position(n), holds', Arms(n))
      BY <1>3, <2>1, <2>3 DEF Position, Arms
    <2>4. QED
      BY <2>1, <2>2, <2>3 DEF EnterState
  <1>7. CASE Arrive
    BY <1>1, <1>7 DEF Arrive, Step
  <1>8. CASE Activity
    BY <1>8 DEF Activity, Doomed
  <1>9. CASE DrainAuto \/ DrainDeferred
    <2>1. PICK i : step' = [step EXCEPT !.pc = "choose", !.trans = i]
      BY <1>9 DEF DrainAuto, DrainDeferred, Takes
    <2>2. QED
      BY <1>1, <2>1 DEF Step
  <1>10. CASE DrainRest
    <2>1. ~HasOwn[active]
      <3>1. step.pc = "drain" /\ active # Top
        BY <1>1, <1>10 DEF DrainRest, IInv, Placed
      <3>2. active \in Line[active]
        BY <1>1, <3>1, Tree
      <3>3. QED
        BY <3>1, <3>2 DEF Doomed, Dooms
    <2>2. QED
      BY <1>10, <2>1 DEF DrainRest
  <1>11. CASE DrainSink
    <2>1. CASE step' = [step EXCEPT !.plan = Disarm(@, active)]
      BY <1>1, <1>11, <2>1 DEF DrainSink, Step
    <2>2. QED
      BY <1>11, <2>1 DEF DrainSink, Fail
  <1>12. QED
    BY <1>2, <1>4, <1>5, <1>6, <1>7, <1>8, <1>9, <1>10, <1>11 DEF Advance

\* A cancellation that was decided to be cooperative ends the execution in the step that takes
\* it, for any machine whose Cancel transitions run no code before they leave.
THEOREM CancelEndsAtOnce == ASSUME CancelIsSafe PROVE Spec => TeardownEnds
  <1>1. Init => Doomed
    BY DoomedInit
  <1>2. IInv /\ Doomed /\ [Next]_vars => Doomed'
    BY CancelIsSafe, DoomedNext
  <1>3. IInv /\ Doomed /\ [Next]_vars =>
          [step.cause = "teardown" /\ step.pc # "idle" /\ step'.pc = "idle" => status' # "RUNNING"]_vars
    BY TeardownStep DEF Idle
  <1>4. QED
    BY <1>1, <1>2, <1>3, Inductive, PTL DEF Spec, TeardownEnds
=============================================================================
