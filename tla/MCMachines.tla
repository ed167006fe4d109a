----------------------------- MODULE MCMachines -----------------------------
(***************************************************************************)
(* Families of small machines: a tree, its declarations or one of them     *)
(* missing, and transitions drawn from a vocabulary, in every order.       *)
(*   Nested: A (B (C, D), Z), Z           the name Z at two levels         *)
(*   Forked: O (R (X, Y), S (X)), I, Z    an orthogonal state, an invoke   *)
(***************************************************************************)
EXTENDS Machines, TLC

A == <<"A">>
B == <<"A", "B">>
C == <<"A", "B", "C">>
D == <<"A", "B", "D">>
O == <<"O">>
R == <<"O", "R">>
S == <<"O", "S">>
I == <<"I">>
Z == <<"Z">>

NestedStates == {<<>>, A, B, C, D, A \o Z, Z}
ForkedStates == {<<>>, O, R, R \o <<"X">>, R \o <<"Y">>, S, S \o <<"X">>, I, Z}

Without(f, gone) == [n \in DOMAIN f \ gone |-> f[n]]
Leaves(states) == {n \in states : n # <<>> /\ ~\E m \in states : m # <<>> /\ Front(m) = n}
Labels(states) == [n \in Leaves(states) |-> IF Len(n) = 1 THEN "failed" ELSE "success"]

To(scope, from, on, name) ==
  [scope |-> scope, from |-> <<from>>, on |-> on, how |-> "to", to |-> <<name>>, default |-> FALSE]
Or(t, how, name) == [t EXCEPT !.how = how, !.to = Append(@, name), !.default = TRUE]
When(t) == [t EXCEPT !.how = "choose"]

NestedDraft == [states |-> NestedStates, orthogonal |-> {}, invoke |-> {}, timed |-> {B, C}, activity |-> {D},
  start |-> <<>> :> "A" @@ A :> "B" @@ B :> "C", outcome |-> Labels(NestedStates), events |-> {"e"}, ttl |-> 60,
  raw |-> <<>>]
Nested ==
  {NestedDraft, [NestedDraft EXCEPT !.ttl = 0], [NestedDraft EXCEPT !.start = (B :> "Z") @@ @]}
  \cup {[NestedDraft EXCEPT !.outcome = Without(@, {n})] : n \in Leaves(NestedStates)}
  \cup {[NestedDraft EXCEPT !.start = Without(@, {n})] : n \in {<<>>, A, B}}

ForkedDraft == [states |-> ForkedStates, orthogonal |-> {O}, invoke |-> {I}, timed |-> {O, R \o <<"X">>}, activity |-> {},
  start |-> <<>> :> "O" @@ R :> "X" @@ S :> "X", outcome |-> Without(Labels(ForkedStates), {I}), events |-> {"e"},
  ttl |-> None, raw |-> <<>>]
Forked == {ForkedDraft, [ForkedDraft EXCEPT !.start = Without(@, {S})], [ForkedDraft EXCEPT !.outcome = Without(@, {R \o <<"X">>})]}

Triggers == {{}, {"e"}, {"Cancel"}, {"Timeout"}, {"Expired", "e"}}
NestedTrans ==
  LET plain == {To(s[1], s[2], on, name) :
                  s \in {<< <<>>, A>>, << <<>>, Z>>, <<A, <<"B">> >>, <<B, <<"C">> >>, <<B, <<"D">> >>},
                  on \in Triggers, name \in {Z, <<"D">>}}
         routed == {t \in plain : t.on \in {{}, {"e"}, {"Cancel"}}}
  IN plain \cup {To(s[1], s[2], on, A) : s \in {<<A, <<"B">> >>, <<B, <<"D">> >>}, on \in {{}, {"e"}}}
     \cup {Or(t, how, Z) : t \in routed, how \in {"select", "choose"}} \cup {When(t) : t \in routed}
     \cup {Or(t, "select", <<"Q">>) : t \in {u \in routed : u.scope = A}}
ForkedTrans ==
  {To(<<>>, O, on, name) : on \in Triggers, name \in {Z, I, O}}
  \cup {To(<<>>, I, on, Z) : on \in {{}, {"Returned"}, {"Cancel"}}}
  \cup {To(R, <<"X">>, on, <<"Y">>) : on \in Triggers} \cup {To(R, <<"Y">>, on, <<"X">>) : on \in Triggers}
  \cup {To(<<>>, O, {"f"}, Z)}
Trans(d) == IF O \in d.states THEN ForkedTrans ELSE NestedTrans

Families == Nested \cup Forked
=============================================================================
