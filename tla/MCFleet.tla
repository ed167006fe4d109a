------------------------------ MODULE MCFleet ------------------------------
(***************************************************************************)
(* A deployment under way: a machine A whose version 1 was edited without  *)
(* a bump in one image, and moved on to version 2 in another, a machine B  *)
(* that one worker alone has the code of, and an execution of B from       *)
(* before versions existed.                                                *)
(***************************************************************************)
EXTENDS Fleet, TLC

CONSTANTS w1, w2, eA, eB, old, edited, new, a1, a1x, a2, b1, codeA, codeA2, codeB, mA, mB

MCMachineOf == (a1 :> mA) @@ (a1x :> mA) @@ (a2 :> mA) @@ (b1 :> mB)
MCVersionOf == (a1 :> 1) @@ (a1x :> 1) @@ (a2 :> 2) @@ (b1 :> 1)
MCNeeds == (a1 :> {codeA}) @@ (a1x :> {codeA}) @@ (a2 :> {codeA2}) @@ (b1 :> {codeB})
MCOwn == (old :> {a1, b1}) @@ (edited :> {a1x}) @@ (new :> {a2})
MCCode == (old :> {codeA, codeB}) @@ (edited :> {codeA}) @@ (new :> {codeA, codeA2})
MCExtra == (old :> {codeA2}) @@ (edited :> {}) @@ (new :> {})
MCFilter == [w \in Workers |-> IF w = w2 THEN {mA} ELSE {NoKey, mA, mB}]
MCDeploys == [w \in Workers |-> IF w = w2 THEN {edited, new} ELSE {old}]
MCLegacy == [e \in Executions |-> IF e = eB THEN b1 ELSE NoSource]
=============================================================================
