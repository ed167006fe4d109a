------------------------------ MODULE ForkJoin ------------------------------
(***************************************************************************)
(* What an orthogonal state promises its modeller: its regions run side by *)
(* side, each to a verdict of its own, and the state is left by its join   *)
(* only when the verdicts of this very visit allow it.                     *)
(***************************************************************************)
CONSTANTS Region, CancelOnFailure

VARIABLES
  site,    \* where the machine is: in the orthogonal state ("fork") or around it
  verdict  \* region -> how it ended in this visit, or "none"

Sites == {"before", "fork", "joined", "expired"}
NoVerdicts == [r \in Region |-> "none"]

JoinOpen ==
  \/ \A r \in Region : verdict[r] # "none"
  \/ CancelOnFailure /\ \E r \in Region : verdict[r] = "failure"

Init == site = "before" /\ verdict = NoVerdicts

Open == site # "fork" /\ site' = "fork" /\ verdict' = NoVerdicts

End(r, v) ==
  /\ site = "fork" /\ verdict[r] = "none"
  /\ verdict' = [verdict EXCEPT ![r] = v]
  /\ UNCHANGED site

Join == site = "fork" /\ JoinOpen /\ site' = "joined" /\ verdict' = NoVerdicts

\* The state's own timeout, and a Reset of the machine, wait for no region.
Expire == site = "fork" /\ site' = "expired" /\ verdict' = NoVerdicts
Reset == site' = "before" /\ verdict' = NoVerdicts

Next ==
  \/ Open \/ Join \/ Expire \/ Reset
  \/ \E r \in Region, v \in {"success", "failure"} : End(r, v)

Spec == Init /\ [][Next]_<<site, verdict>>
=============================================================================
