-------------------------------- MODULE Ledger --------------------------------
(***************************************************************************)
(* What an execution store promises of one execution id, whatever the      *)
(* backend: a commit is one step that writes the execution and everything  *)
(* that goes with it, from the version it was read at; an event is handled *)
(* once; only a new execution may use an id that is free; a purge takes    *)
(* what is keyed by the id and nothing else, and what it leaves behind     *)
(* belongs to nobody.                                                      *)
(***************************************************************************)
EXTENDS Naturals, SequencesExt

CONSTANTS Event, Start,
          Works       \* event -> what a commit that handles it may do

VARIABLES row, lives, outbox, spawns, timer, handled,
          embedded,   \* the emits of an execution live in its row, and go when it is purged
          lagging     \* the dedupe records are read from a replica that may lag

Gone == [life |-> 0, ver |-> 0]

Init == /\ row = Gone /\ lives = 0 /\ timer = Gone
        /\ outbox = {} /\ spawns = {} /\ handled = {} /\ embedded \in BOOLEAN /\ lagging \in BOOLEAN

\* All of it in one step: the row, its emits, its child to create, its timer, its dedupe record.
Write(life, ver, e, w) ==
  /\ row' = [life |-> life, ver |-> ver]
  /\ outbox' = outbox \cup {[life |-> life, ver |-> ver, event |-> e, to |-> t] : t \in Range(w.emits)}
  /\ spawns' = IF w.spawn THEN spawns \cup {[life |-> life, ver |-> ver]} ELSE spawns
  /\ timer' = CASE w.timer = "schedule" -> [life |-> life, ver |-> ver]
                [] w.timer = "cancel" -> Gone
                [] OTHER -> timer
  /\ handled' = IF e = Start THEN handled ELSE handled \cup {[life |-> life, event |-> e]}

Create(w) == /\ row = Gone
             /\ Write(lives + 1, 1, Start, w)
             /\ lives' = lives + 1

\* The version alone tells copies apart: one of an earlier life at the same version counts as current.
Commit(e, w) == /\ row # Gone
                /\ \E life \in 1 .. row.life :
                     /\ lagging \/ [life |-> life, event |-> e] \notin handled
                     /\ Write(life, row.ver + 1, e, w)
                /\ UNCHANGED lives

Deliver == /\ \/ \E x \in outbox : outbox' = outbox \ {x} /\ UNCHANGED spawns
              \/ \E s \in spawns : spawns' = spawns \ {s} /\ UNCHANGED outbox
           /\ UNCHANGED <<row, lives, timer, handled>>

\* Another execution of the tree sends this one an event.
Receive == /\ outbox' = outbox \cup {[life |-> 0, ver |-> 0, event |-> Start, to |-> "self"]}
           /\ UNCHANGED <<row, lives, spawns, timer, handled>>

Fire == /\ timer' = Gone
        /\ UNCHANGED <<row, lives, outbox, spawns, handled>>

Erase == /\ outbox' \subseteq outbox
         /\ \A x \in outbox \ outbox' : x.to = "self" \/ (embedded /\ x.life > 0)
         /\ spawns' \subseteq spawns
         /\ handled' \subseteq handled
         /\ timer' \in {timer, Gone}
         /\ row' = Gone
         /\ UNCHANGED lives

Next == \/ \E w \in Works[Start] : Create(w)
        \/ \E e \in Event : \E w \in Works[e] : Commit(e, w)
        \/ Deliver \/ Receive \/ Fire \/ Erase

Spec == Init /\ [][Next /\ UNCHANGED <<embedded, lagging>>]_<<row, lives, outbox, spawns, timer, handled, embedded, lagging>>
=============================================================================
