------------------------------ MODULE MCEngine ------------------------------
(***************************************************************************)
(* A machine with two levels of nesting, history, a guard, timeouts, a     *)
(* deferred event, recoveries, and a cancellation.                         *)
(*   A   defers late and back; go: to C                                    *)
(*   C   remembers its state, timed; C1, or D with D1 (timed), D2 (a sink) *)
(*       back: to A; error: to A;  Timeout, or done and guard: to F;       *)
(*       Cancel: to F or G; in D1, to D2                                   *)
(*   F, G  terminals                                                       *)
(***************************************************************************)
EXTENDS Engine, TLC

CONSTANTS A, C, C1, D, D1, D2, F, G, T

Nodes == {T, A, C, C1, D, D1, D2, F, G}
ParentOf == A :> T @@ C :> T @@ F :> T @@ G :> T @@ C1 :> C @@ D :> C @@ D1 :> D @@ D2 :> D
LineOf == T :> {} @@ A :> {A} @@ C :> {C} @@ F :> {F} @@ G :> {G}
  @@ C1 :> {C, C1} @@ D :> {C, D} @@ D1 :> {C, D, D1} @@ D2 :> {C, D, D2}
InitialOf == T :> A @@ C :> C1 @@ D :> D1
Deferred == [n \in Nodes |-> IF n = A THEN {"late", "back"} ELSE {}]
Labels == [n \in Nodes |-> CASE n = F -> "success" [] n = G -> "cancelled" [] OTHER -> "none"]

Edge(source, on, to) == [source |-> source, on |-> {on}, to |-> to, guarded |-> FALSE, fallible |-> FALSE]
Guarded(t) == [t EXCEPT !.guarded = TRUE]
Fallible(t) == [t EXCEPT !.fallible = TRUE]

Machine == <<
  Edge(A, "go", {C}),
  Edge(C1, "go", {D}),
  Guarded(Edge(D1, "late", {D2})),
  Fallible(Edge(D1, "go", {C1, D2})),
  Edge(D1, "error", {C1}),
  Edge(D1, "Cancel", {D2}),
  Edge(C1, "error", {D}),
  Edge(C, "error", {A}),
  Edge(C, "back", {A}),
  Edge(C, "Timeout", {F}),
  Guarded(Edge(C, "auto", {F})),
  Edge(C, "Cancel", {F, G}) >>
=============================================================================
