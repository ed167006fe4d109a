---------------------------- MODULE MCTransport ----------------------------
(***************************************************************************)
(* Two groups and two workers: g1 holds two messages of one sender, which  *)
(* another's may join, and g2 holds one.                                  *)
(***************************************************************************)
EXTENDS Transport

CONSTANTS g1, g2, m1, m2, n1, s1, s2, w1, w2

GroupTable == [m \in Msg |-> IF m = n1 THEN g2 ELSE g1]
Scripts == [s \in Sender |-> IF s = s1 THEN <<m1, m2>> ELSE <<n1>>]
Faces == [p \in Sender \cup Worker |-> IF p \in {s1, w1} THEN "sync" ELSE "aio"]
Some == [w \in Worker |-> IF w = w1 THEN Group ELSE {g1}]
=============================================================================
