------------------------------ MODULE Heartbeats ------------------------------
(***************************************************************************)
(* The workers' heartbeats: each running worker writes its record into the *)
(* store when its loop comes round and the next beat is due, and removes   *)
(* it when it stops; an operator's queue screen lists the records, calls   *)
(* those not seen for Beats intervals gone, and forgets a gone one after a *)
(* confirmation.  Times are kept as ages, counted in ticks, and an age     *)
(* stops growing when nothing depends on it any more.                      *)
(***************************************************************************)
EXTENDS Naturals

CONSTANTS
  Worker,
  Interval,   \* heartbeat: ticks between two beats
  Beats,      \* WorkerRecord.alive: 3
  Lag,        \* how late a loop that nothing holds comes round to a beat; how long a call takes
  MaxFaults,  \* bound: heartbeats and forgets that raise
  MaxForgets  \* bound: removals by the operator

HeartbeatsAssumption == Interval \in Nat \ {0} /\ {Beats, Lag, MaxFaults, MaxForgets} \subseteq Nat

VARIABLES
  table,    \* worker -> the age of seen_at in its record, or Absent
  worker,   \* worker -> [at, stamp, next, late, full]
  screen,   \* the queue screen: [rows, gone, asking]
  count,    \* history: what is bounded, [faults, forgets]
  missed,   \* history: worker -> heartbeats that raised since its last one
  since     \* history: worker -> ticks since it started, lost its record or got its loop back

vars == <<table, worker, screen, count, missed, since>>

\* Two beats, the first of which raises: each begins and ends late.
Grace == 2 * (Interval + 2 * Lag)
Gone == Beats * Interval + 1
Absent == Gone + 1

Down == [at |-> "down",    \* down, beating, loop, stopping
         stamp |-> 0,      \* the age of the time that the beat under way will write
         next |-> 0,       \* ticks left until _next_beat
         late |-> 0,       \* ticks the loop has been free and the beat due
         full |-> FALSE]   \* every permit is held by a long action: the loop waits for one
Blank == [rows |-> {}, gone |-> {}, asking |-> {}]

Init == /\ table = [w \in Worker |-> Absent]
        /\ worker = [w \in Worker |-> Down] /\ screen = Blank
        /\ count = [faults |-> 0, forgets |-> 0]
        /\ missed = [w \in Worker |-> 0] /\ since = [w \in Worker |-> 0]

Become(w, local) == worker' = [worker EXCEPT ![w] = local]
Restarts(w) == since' = [since EXCEPT ![w] = 0]
Alive(w) == table[w] < Gone
Due(r) == r.at = "loop" /\ ~r.full /\ r.next = 0
-----------------------------------------------------------------------------
(* A worker *)

Starts(w) == /\ worker[w].at = "down"
             /\ Become(w, [Down EXCEPT !.at = "beating"])
             /\ missed' = [missed EXCEPT ![w] = 0] /\ Restarts(w)
             /\ UNCHANGED <<table, screen, count>>

Begins(w) == /\ Due(worker[w])
             /\ Become(w, [Down EXCEPT !.at = "beating"])
             /\ UNCHANGED <<table, screen, count, missed, since>>

\* heartbeat_flow: the record carries the time the beat began, and the next one is counted from it.
Recorded(w) == /\ worker[w].at = "beating"
               /\ table' = [table EXCEPT ![w] = worker[w].stamp]
               /\ LET took == worker[w].stamp IN
                  Become(w, [Down EXCEPT !.at = "loop", !.next = IF took < Interval THEN Interval - took ELSE 0])
               /\ missed' = [missed EXCEPT ![w] = 0]
               /\ UNCHANGED <<screen, count, since>>

Fault == count.faults < MaxFaults /\ count' = [count EXCEPT !.faults = @ + 1]

RetryAfterTwo == 2 * Interval    \* A mistake.
RetryAfter == Interval           \* heartbeat_failed: a whole interval from now

Fails(w) == /\ worker[w].at = "beating" /\ Fault
            /\ Become(w, [Down EXCEPT !.at = "loop", !.next = RetryAfter])
            /\ missed' = [missed EXCEPT ![w] = @ + 1]
            /\ UNCHANGED <<table, screen, since>>

\* The loop waits for a permit, or (the sync worker) for the one message it handles.
Fills(w) == /\ worker[w].at = "loop" /\ ~worker[w].full /\ ~Due(worker[w])
            /\ Become(w, [worker[w] EXCEPT !.full = TRUE])
            /\ UNCHANGED <<table, screen, count, missed, since>>
Frees(w) == /\ worker[w].full /\ Become(w, [worker[w] EXCEPT !.full = FALSE]) /\ Restarts(w)
            /\ UNCHANGED <<table, screen, count, missed>>

Stops(w) == /\ worker[w].at = "loop" /\ Become(w, [Down EXCEPT !.at = "stopping"])
            /\ UNCHANGED <<table, screen, count, missed, since>>

Forgets(w) == /\ worker[w].at = "stopping" /\ Become(w, Down)
              /\ \/ table' = [table EXCEPT ![w] = Absent] /\ UNCHANGED count
                 \/ Fault /\ UNCHANGED table
              /\ UNCHANGED <<screen, missed, since>>

Crashes(w) == /\ worker[w].at # "down" /\ Become(w, Down)
              /\ UNCHANGED <<table, screen, count, missed, since>>

\* One tick of the clock: no beat that is due and no call on the store waits longer than Lag.
Older(r) == CASE Due(r) -> [r EXCEPT !.late = @ + 1]
              [] r.at = "beating" -> [r EXCEPT !.stamp = @ + 1]
              [] r.at = "loop" /\ r.next > 0 -> [r EXCEPT !.next = @ - 1]
              [] OTHER -> r

Tick == /\ \A w \in Worker : worker[w].late < Lag /\ worker[w].stamp < Lag
        /\ worker' = [w \in Worker |-> Older(worker[w])]
        /\ table' = [w \in Worker |-> IF table[w] < Gone THEN table[w] + 1 ELSE table[w]]
        /\ since' = [w \in Worker |-> IF since[w] <= Grace THEN since[w] + 1 ELSE since[w]]
        /\ UNCHANGED <<screen, count, missed>>
-----------------------------------------------------------------------------
(* The queue screen *)

\* The records, and which of them are gone; a dialog stays open over a refresh.
Lists == /\ LET rows == {w \in Worker : table[w] # Absent} IN
            screen' = [screen EXCEPT !.rows = rows, !.gone = {w \in rows : ~Alive(w)}]
         /\ UNCHANGED <<table, worker, count, missed, since>>

AsksToForget(w) == /\ w \in screen.rows /\ w \in screen.gone /\ screen.asking = {}
                   /\ screen' = [screen EXCEPT !.asking = {w}]
                   /\ UNCHANGED <<table, worker, count, missed, since>>

\* The confirmed one is removed, whatever happened to it since the dialog opened.
Confirms(w) == /\ w \in screen.asking /\ screen' = [screen EXCEPT !.asking = {}]
               /\ count.forgets < MaxForgets /\ count' = [count EXCEPT !.forgets = @ + 1]
               /\ table' = [table EXCEPT ![w] = Absent] /\ Restarts(w)
               /\ UNCHANGED <<worker, missed>>
Declines(w) == /\ w \in screen.asking /\ screen' = [screen EXCEPT !.asking = {}]
               /\ UNCHANGED <<table, worker, count, missed, since>>
-----------------------------------------------------------------------------
WorkerStep(w) == \/ Starts(w) \/ Begins(w) \/ Recorded(w) \/ Fails(w) \/ Fills(w) \/ Frees(w)
                 \/ Stops(w) \/ Forgets(w) \/ Crashes(w)
ScreenStep == Lists \/ \E w \in Worker : AsksToForget(w) \/ Confirms(w) \/ Declines(w)

Next == Tick \/ ScreenStep \/ \E w \in Worker : WorkerStep(w)
Spec == Init /\ [][Next]_vars
-----------------------------------------------------------------------------
\* A worker whose loop is not held up and that missed at most one beat is shown as live: a beat that
\* raised is made up for before Beats intervals are over, and a record that an operator removed from
\* under a worker that was back, or that an earlier life of it left, is there again after two beats.
WorkingIsLive == \A w \in Worker :
  (/\ worker[w].at \in {"loop", "beating"} /\ ~worker[w].full
   /\ missed[w] <= 1 /\ since[w] > Grace) => Alive(w)

\* A record not seen for a few beats is a worker gone: crashed, or stopped without forgetting itself.
\* Refuted: a worker all of whose permits are taken by long actions does not beat.
GoneIsGone == \A w \in Worker : worker[w].at = "loop" /\ missed[w] = 0 /\ table[w] # Absent => Alive(w)
=============================================================================
