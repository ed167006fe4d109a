------------------------------- MODULE MCHosts -------------------------------
(* A caller on an event loop and one in its own thread, over a machine of two regions. *)
EXTENDS Hosts, TLC

CONSTANTS p, q, r, a, b, done

Kinds == [c \in Caller |-> IF c = p THEN "loop" ELSE "sync"]
Calls == [c \in Caller |-> IF c = p THEN {"create", "process"} ELSE {"process", "sweep", "recover"}]
Alike == Permutations({a, b})
=============================================================================
