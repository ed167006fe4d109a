------------------------------- MODULE Mailbox -------------------------------
(***************************************************************************)
(* What a transport promises of every message, whatever the backend: it    *)
(* waits in its group until a worker it was handed to settles it, and only *)
(* the first message of a group is handed out.  Who may hold a group at    *)
(* the same time, and in which order groups are served, is stated in       *)
(* Transport.                                                              *)
(***************************************************************************)
CONSTANTS Msg, NoMsg, Worker,
          GroupOf, \* message -> the group it is published to
          After    \* message -> the messages whose publish returned before its own began

VARIABLES waiting, \* the messages published and not settled
          before,  \* pairs of waiting messages of one group: the first is ahead of the second
          hand     \* worker -> the message it was handed, or NoMsg

Init == waiting = {} /\ before = {} /\ hand = [w \in Worker |-> NoMsg]

Rivals(m) == {n \in waiting : GroupOf[n] = GroupOf[m]}

\* A message goes behind those published before it; two publishes that overlap are in either order.
Publish(m) ==
  \E passed \in SUBSET (Rivals(m) \ After[m]) :
    /\ m \notin waiting
    /\ \A p \in before : p[1] \in passed => p[2] \in passed
    /\ waiting' = waiting \cup {m}
    /\ before' = before \cup ((Rivals(m) \ passed) \X {m}) \cup ({m} \X passed)
    /\ UNCHANGED hand

Hand(w, m) == /\ hand[w] = NoMsg
              /\ m \in waiting
              /\ \A p \in before : p[2] # m
              /\ hand' = [hand EXCEPT ![w] = m]
              /\ UNCHANGED <<waiting, before>>

\* ack; a worker whose lease another took over may settle it too, or neither of them does.
Settle(w) ==
  /\ hand[w] # NoMsg
  /\ waiting' = waiting \ {hand[w]}
  /\ before' = {p \in before : hand[w] \notin {p[1], p[2]}}
  /\ hand' = [hand EXCEPT ![w] = NoMsg]

\* nack, a park, an ack that was refused, a crash.
Release(w) == /\ hand' = [hand EXCEPT ![w] = NoMsg]
              /\ UNCHANGED <<waiting, before>>

Next == \/ \E m \in Msg : Publish(m)
        \/ \E w \in Worker : Settle(w) \/ Release(w) \/ \E m \in Msg : Hand(w, m)

Spec == Init /\ [][Next]_<<waiting, before, hand>>
=============================================================================
