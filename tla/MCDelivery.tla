----------------------------- MODULE MCDelivery -----------------------------
(***************************************************************************)
(* Small systems for Delivery: what their machines emit and fork.          *)
(***************************************************************************)
EXTENDS Delivery, TLC

CONSTANTS w1, w2, u, p, q, c, d,
          startP, go, leave, cancelC, doneC, cancelP, a, b, reset

Row(x, e) == [to |-> x, event |-> e]

\* A table that is `none` but for the given entries, a function of <<execution, event>>.
Table(entries, none) == [x \in Exec |-> [e \in Event \cup {NoEvent} |->
  IF <<x, e>> \in DOMAIN entries THEN entries[<<x, e>>] ELSE none]]

Kind == [e \in Event |->
  CASE e = startP -> "Start" [] e \in {cancelC, cancelP} -> "Cancel"
    [] e = reset -> "Reset" [] OTHER -> "Domain"]

\* A client sends what no machine and no command emits: ids are fresh.
Sent == [e \in Event |->
  CASE e = cancelP \/ ByMachine(e) -> NoExec
    [] OTHER -> p]

\* p forks c on go; c, when it starts, emits a and then reports doneC.
FamilyEmits == Table(<<c, NoEvent>> :> <<Row(p, a), Row(p, doneC)>>, <<>>)
FamilyForks == Table(<<p, go>> :> {c}, {})

\* c only reports doneC.
ChildEmits == Table(<<c, NoEvent>> :> <<Row(p, doneC)>>, <<>>)

\* p leaves the state it forked c in on its next event, which cancels c.
LeaverEmits == Table(<<p, leave>> :> <<Row(c, cancelC)>>, <<>>)

\* p forks c and d on go.
PairForks == Table(<<p, go>> :> {c, d}, {})

Symmetry == Permutations(Worker)
=============================================================================
