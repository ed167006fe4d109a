----------------------------- MODULE StoresProofs -----------------------------
(***************************************************************************)
(* What the stores promise, for any instance of them.  First the           *)
(* heartbeats: a worker that works is shown as live, by counting the ticks *)
(* that may pass before its record is written again.  Then the table of    *)
(* definitions, the timeline, and the purge that pages through a listing.  *)
(* Then the commits and the purges of the seven backends, each shown to be *)
(* a step of the Ledger or none.                                           *)
(***************************************************************************)
EXTENDS MCStores, SequenceTheorems, FiniteSetTheorems, TLAPS

\* What a worker's loop keeps between two calls.
Local == [at : {"down", "beating", "loop", "stopping"}, stamp : 0 .. Lag, next : 0 .. Interval,
          late : 0 .. Lag, full : BOOLEAN]

\* The ticks that are left, at most, before a worker has written its record or failed a second time.
ThisBeat(r) == IF r.at = "beating" THEN Lag - r.stamp ELSE r.next + (Lag - r.late) + Lag
Left(r, m) == ThisBeat(r) + (IF m = 0 THEN Interval + 2 * Lag ELSE 0)

Beating(w) == worker[w].at \in {"loop", "beating"} /\ ~worker[w].full /\ missed[w] <= 1

\* A worker has its record written again before the record, or its excuse, is too old.
InTime(w) == Beating(w) => \/ beat[w] + Left(worker[w], missed[w]) <= Hearts!Grace
                           \/ since[w] + Left(worker[w], missed[w]) <= Hearts!Grace

HeartsTyped == /\ beat \in [Worker -> Nat] /\ worker \in [Worker -> Local]
               /\ missed \in [Worker -> Nat] /\ since \in [Worker -> Nat]

HeartsInv == HeartsTyped /\ \A w \in Worker : InTime(w) /\ (worker[w].full => worker[w].at = "loop")

\* The times of a deployment: a call on the store takes no longer than the pause between two beats,
\* and a worker counts as gone after at least two beats, late ones.
Unhurried == Lag <= Interval /\ Hearts!Grace <= Beats * Interval

LEMMA Times ==
  /\ Interval \in Nat /\ Interval > 0 /\ Lag \in Nat /\ Hearts!Grace \in Nat
  /\ Hearts!Grace = 2 * Interval + 4 * Lag /\ Beats * Interval \in Nat
  <1>1. Interval \in Nat \ {0} /\ Lag \in Nat /\ Beats \in Nat
    BY InstanceAssumption DEF Hearts!HeartbeatsAssumption
  <1>2. Beats * Interval \in Nat
    BY <1>1
  <1>3. QED
    BY <1>1, <1>2 DEF Hearts!Grace

LEMMA LeftBounds ==
  ASSUME NEW r \in Local, NEW m \in Nat
  PROVE  /\ Left(r, m) \in Nat
         /\ Left(r, m) <= Hearts!Grace
  <1>1. r.stamp \in 0 .. Lag /\ r.next \in 0 .. Interval /\ r.late \in 0 .. Lag
    BY DEF Local
  <1>2. QED
    BY <1>1, Times DEF Left, ThisBeat

\* A worker at the start or the end of its work, and one that waits for its next beat.
Anew(at) == [Hearts!Down EXCEPT !.at = at]
Waiting(ticks) == [Hearts!Down EXCEPT !.at = "loop", !.next = ticks]

LEMMA DownLocal ==
  /\ Hearts!Down \in Local /\ Hearts!Down.at = "down" /\ Hearts!Down.stamp = 0 /\ Hearts!Down.next = 0
  /\ Hearts!Down.late = 0 /\ ~Hearts!Down.full
  BY Times DEF Hearts!Down, Local

LEMMA AnewLocal ==
  ASSUME NEW at \in {"down", "beating", "loop", "stopping"}
  PROVE  /\ Anew(at) \in Local /\ Anew(at).at = at /\ Anew(at).next = 0
         /\ Anew(at).stamp = 0 /\ Anew(at).late = 0 /\ ~Anew(at).full
  BY DownLocal DEF Anew, Local

LEMMA WaitingLocal ==
  ASSUME NEW ticks \in 0 .. Interval
  PROVE  /\ Waiting(ticks) \in Local /\ Waiting(ticks).at = "loop" /\ Waiting(ticks).next = ticks
         /\ Waiting(ticks).late = 0 /\ ~Waiting(ticks).full
  BY DownLocal DEF Waiting, Local

\* A step of one worker, on its own record and clock.
LEMMA OneWorker ==
  ASSUME HeartsInv, NEW w \in Worker, NEW r \in Local, worker' = [worker EXCEPT ![w] = r],
         NEW age \in Nat, beat' = [beat EXCEPT ![w] = age],
         NEW m \in Nat, missed' = [missed EXCEPT ![w] = m],
         NEW t \in Nat, since' = [since EXCEPT ![w] = t],
         r.full => r.at = "loop",
         (r.at \in {"loop", "beating"} /\ ~r.full /\ m <= 1) =>
           age + Left(r, m) <= Hearts!Grace \/ t + Left(r, m) <= Hearts!Grace
  PROVE  HeartsInv'
  <1>1. HeartsTyped'
    BY DEF HeartsInv, HeartsTyped
  <1>2. ASSUME NEW v \in Worker
        PROVE  InTime(v)' /\ (worker'[v].full => worker'[v].at = "loop")
    <2>1. CASE v = w
      <3>1. worker'[v] = r /\ beat'[v] = age /\ missed'[v] = m /\ since'[v] = t
        BY <2>1 DEF HeartsInv, HeartsTyped
      <3>2. QED
        BY <3>1 DEF InTime, Beating
    <2>2. CASE v # w
      <3>1. worker'[v] = worker[v] /\ beat'[v] = beat[v] /\ missed'[v] = missed[v] /\ since'[v] = since[v]
        BY <2>2 DEF HeartsInv, HeartsTyped
      <3>2. InTime(v) /\ (worker[v].full => worker[v].at = "loop")
        BY DEF HeartsInv
      <3>3. QED
        BY <3>1, <3>2 DEF InTime, Beating
    <2>3. QED
      BY <2>1, <2>2
  <1>3. QED
    BY <1>1, <1>2 DEF HeartsInv

LEMMA AsItWas ==
  ASSUME NEW f, NEW S, f \in [Worker -> S], NEW w \in Worker
  PROVE  f = [f EXCEPT ![w] = f[w]]
  OBVIOUS

LEMMA WorkerKeeps ==
  ASSUME HeartsInv, Unhurried, NEW w \in Worker, Hearts!WorkerStep(w)
  PROVE  HeartsInv'
  <1> DEFINE old == worker[w]
  <1>1. /\ old \in Local /\ beat[w] \in Nat /\ missed[w] \in Nat /\ since[w] \in Nat
        /\ InTime(w) /\ (old.full => old.at = "loop")
    BY DEF HeartsInv, HeartsTyped
  <1>2. /\ beat = [beat EXCEPT ![w] = beat[w]] /\ missed = [missed EXCEPT ![w] = missed[w]]
        /\ since = [since EXCEPT ![w] = since[w]]
    BY AsItWas DEF HeartsInv, HeartsTyped
  <1>3. Lag \in Nat /\ Interval \in Nat /\ Hearts!Grace = 2 * Interval + 4 * Lag /\ Lag <= Interval
    BY Times DEF Unhurried
  <1>4. old.stamp \in 0 .. Lag /\ old.next \in 0 .. Interval /\ old.late \in 0 .. Lag
    BY <1>1 DEF Local
  <1>5. CASE Hearts!Starts(w)
    <2> DEFINE r == Anew("beating")
    <2>1. /\ worker' = [worker EXCEPT ![w] = r] /\ missed' = [missed EXCEPT ![w] = 0]
          /\ since' = [since EXCEPT ![w] = 0] /\ beat' = beat
      BY <1>5 DEF Anew, Hearts!Starts, Hearts!Become, Hearts!Restarts
    <2>2. r \in Local /\ r.at = "beating" /\ ~r.full /\ r.stamp = 0
      BY <1>3, AnewLocal
    <2> HIDE DEF r
    <2>3. 0 + Left(r, 0) <= Hearts!Grace /\ 0 \in Nat
      BY <2>2, LeftBounds
    <2>4. QED
      BY <1>1, <1>2, <2>1, <2>2, <2>3, OneWorker
  <1>6. CASE Hearts!Begins(w)
    <2> DEFINE r == Anew("beating")
    <2>1. worker' = [worker EXCEPT ![w] = r] /\ UNCHANGED <<beat, missed, since>> /\ Hearts!Due(old)
      BY <1>6 DEF Anew, Hearts!Begins, Hearts!Become
    <2>2. r \in Local /\ r.at = "beating" /\ ~r.full /\ r.stamp = 0
      BY <1>3, AnewLocal
    <2>3. old.at = "loop" /\ ~old.full
      BY <2>1 DEF Hearts!Due
    <2>4. Left(r, missed[w]) <= Left(old, missed[w]) /\ Left(r, missed[w]) \in Nat /\ Left(old, missed[w]) \in Nat
      BY <1>1, <1>3, <1>4, <2>2, <2>3, LeftBounds DEF Left, ThisBeat
    <2>5. missed[w] <= 1 => \/ beat[w] + Left(r, missed[w]) <= Hearts!Grace
                            \/ since[w] + Left(r, missed[w]) <= Hearts!Grace
      BY <1>1, <1>3, <2>3, <2>4 DEF InTime, Beating
    <2>6. QED
      BY <1>1, <1>2, <2>1, <2>2, <2>5, OneWorker
  <1>7. CASE Hearts!Recorded(w)
    <2> DEFINE ticks == IF old.stamp < Interval THEN Interval - old.stamp ELSE 0
               r == Waiting(ticks)
    <2>1. /\ worker' = [worker EXCEPT ![w] = r] /\ missed' = [missed EXCEPT ![w] = 0]
          /\ beat' = [beat EXCEPT ![w] = old.stamp] /\ since' = since
      BY <1>7 DEF Waiting, Hearts!Recorded, Hearts!Become
    <2>2. ticks \in 0 .. Interval /\ old.stamp + ticks = Interval
      BY <1>3, <1>4
    <2> HIDE DEF ticks
    <2>3. r \in Local /\ r.at = "loop" /\ r.next = ticks /\ r.late = 0 /\ ~r.full
      BY <2>2, WaitingLocal
    <2> HIDE DEF r
    <2>4. old.stamp + Left(r, 0) <= Hearts!Grace
      BY <1>3, <1>4, <2>2, <2>3 DEF Left, ThisBeat
    <2>5. old.stamp \in Nat /\ 0 \in Nat
      BY <1>3, <1>4
    <2>6. QED
      BY <1>1, <1>2, <2>1, <2>3, <2>4, <2>5, OneWorker
  <1>8. CASE Hearts!Fails(w)
    <2> DEFINE r == Waiting(Interval)
               m == missed[w] + 1
    <2>1. /\ worker' = [worker EXCEPT ![w] = r] /\ missed' = [missed EXCEPT ![w] = m]
          /\ UNCHANGED <<beat, since>> /\ old.at = "beating"
      BY <1>8 DEF Waiting, Hearts!Fails, Hearts!Become, Hearts!RetryAfter
    <2>2. r \in Local /\ r.at = "loop" /\ r.next = Interval /\ r.late = 0 /\ ~r.full
      BY <1>3, WaitingLocal
    <2> HIDE DEF r
    <2>3. ASSUME m <= 1
          PROVE  beat[w] + Left(r, m) <= Hearts!Grace \/ since[w] + Left(r, m) <= Hearts!Grace
      <3>1. missed[w] = 0 /\ m = 1
        BY <1>1, <2>3
      <3>2. ~old.full
        BY <1>1, <2>1
      <3>3. Left(r, m) <= Left(old, missed[w]) /\ Left(r, m) \in Nat /\ Left(old, missed[w]) \in Nat
        BY <1>1, <1>3, <1>4, <2>1, <2>2, <3>1, LeftBounds DEF Left, ThisBeat
      <3>4. QED
        BY <1>1, <1>3, <2>1, <3>1, <3>2, <3>3 DEF InTime, Beating
    <2>4. m \in Nat
      BY <1>1
    <2> HIDE DEF m
    <2>5. QED
      BY <1>1, <1>2, <2>1, <2>2, <2>3, <2>4, OneWorker
  <1>9. CASE Hearts!Fills(w)
    <2> DEFINE r == [old EXCEPT !.full = TRUE]
    <2>1. worker' = [worker EXCEPT ![w] = r] /\ UNCHANGED <<beat, missed, since>> /\ old.at = "loop"
      BY <1>9 DEF Hearts!Fills, Hearts!Become
    <2>2. r \in Local /\ r.full /\ r.at = "loop"
      BY <1>1, <2>1 DEF Local
    <2> HIDE DEF r
    <2>3. beat' = [beat EXCEPT ![w] = beat[w]] /\ missed' = [missed EXCEPT ![w] = missed[w]]
          /\ since' = [since EXCEPT ![w] = since[w]]
      BY <1>2, <2>1
    <2>4. worker' = [worker EXCEPT ![w] = r]
      BY <2>1
    <2>5. QED
      <3>1. /\ r.full => r.at = "loop"
            /\ (r.at \in {"loop", "beating"} /\ ~r.full /\ missed[w] <= 1) =>
                 \/ beat[w] + Left(r, missed[w]) <= Hearts!Grace
                 \/ since[w] + Left(r, missed[w]) <= Hearts!Grace
        BY <2>2
      <3>2. QED
        BY <1>1, <2>2, <2>3, <2>4, <3>1, OneWorker
  <1>10. CASE Hearts!Frees(w)
    <2> DEFINE r == [old EXCEPT !.full = FALSE]
    <2>1. /\ worker' = [worker EXCEPT ![w] = r] /\ UNCHANGED <<beat, missed>>
          /\ since' = [since EXCEPT ![w] = 0]
      BY <1>10 DEF Hearts!Frees, Hearts!Become, Hearts!Restarts
    <2>2. r \in Local /\ ~r.full
      BY <1>1 DEF Local
    <2> HIDE DEF r
    <2>3. 0 + Left(r, missed[w]) <= Hearts!Grace /\ 0 \in Nat
      BY <1>1, <2>2, LeftBounds
    <2>4. beat' = [beat EXCEPT ![w] = beat[w]] /\ missed' = [missed EXCEPT ![w] = missed[w]]
      BY <1>2, <2>1
    <2>5. QED
      BY <1>1, <2>1, <2>2, <2>3, <2>4, OneWorker
  <1>11. CASE Hearts!Stops(w) \/ Hearts!Crashes(w) \/ Hearts!Forgets(w)
    <2>1. \E r \in {Hearts!Down, Anew("stopping")} : worker' = [worker EXCEPT ![w] = r]
      BY <1>11 DEF Anew, Hearts!Stops, Hearts!Crashes, Hearts!Forgets, Hearts!Become
    <2>2. PICK r \in Local : /\ worker' = [worker EXCEPT ![w] = r]
                             /\ ~r.full /\ r.at \notin {"loop", "beating"}
      <3>1. Anew("stopping") \in Local /\ ~Anew("stopping").full /\ Anew("stopping").at = "stopping"
        BY AnewLocal
      <3>2. QED
        BY <2>1, <3>1, DownLocal
    <2>3. UNCHANGED <<missed, since>> /\ \E age \in Nat : beat' = [beat EXCEPT ![w] = age]
      <3>1. Hearts!Absent \in Nat
        BY Times DEF Hearts!Absent, Hearts!Gone
      <3>2. QED
        BY <1>1, <1>2, <1>11, <3>1 DEF Hearts!Stops, Hearts!Crashes, Hearts!Forgets
    <2>4. PICK age \in Nat : beat' = [beat EXCEPT ![w] = age]
      BY <2>3
    <2>5. missed' = [missed EXCEPT ![w] = missed[w]] /\ since' = [since EXCEPT ![w] = since[w]]
      BY <1>2, <2>3
    <2>6. /\ r.full => r.at = "loop"
          /\ (r.at \in {"loop", "beating"} /\ ~r.full /\ missed[w] <= 1) =>
               \/ age + Left(r, missed[w]) <= Hearts!Grace
               \/ since[w] + Left(r, missed[w]) <= Hearts!Grace
      BY <2>2
    <2>7. QED
      BY <1>1, <2>2, <2>4, <2>5, <2>6, OneWorker
  <1>12. QED
    BY <1>5, <1>6, <1>7, <1>8, <1>9, <1>10, <1>11 DEF Hearts!WorkerStep

\* The operator removes a record: its worker is excused until it has written it again.
LEMMA ScreenKeeps ==
  ASSUME HeartsInv, Hearts!ScreenStep
  PROVE  HeartsInv'
  <1>1. ASSUME NEW w \in Worker, Hearts!Confirms(w)
        PROVE  HeartsInv'
    <2>1. /\ worker[w] \in Local /\ missed[w] \in Nat
          /\ worker[w].full => worker[w].at = "loop"
          /\ worker = [worker EXCEPT ![w] = worker[w]] /\ missed = [missed EXCEPT ![w] = missed[w]]
      BY AsItWas DEF HeartsInv, HeartsTyped
    <2>2. /\ beat' = [beat EXCEPT ![w] = Hearts!Absent] /\ since' = [since EXCEPT ![w] = 0]
          /\ UNCHANGED <<worker, missed>>
      BY <1>1 DEF Hearts!Confirms, Hearts!Restarts
    <2>3. Hearts!Absent \in Nat
      BY Times DEF Hearts!Absent, Hearts!Gone
    <2>4. 0 + Left(worker[w], missed[w]) <= Hearts!Grace
      BY <2>1, LeftBounds
    <2>5. QED
      BY <2>1, <2>2, <2>3, <2>4, OneWorker
  <1>2. CASE UNCHANGED <<beat, worker, missed, since>>
    BY <1>2 DEF HeartsInv, HeartsTyped, InTime, Beating
  <1>3. QED
    BY <1>1, <1>2 DEF Hearts!ScreenStep, Hearts!Lists, Hearts!AsksToForget, Hearts!Declines

\* Every tick brings the next beat one tick nearer.
LEMMA TickKeeps ==
  ASSUME HeartsInv, Unhurried, Hearts!Tick
  PROVE  HeartsInv'
  <1>1. ASSUME NEW w \in Worker
        PROVE  /\ worker'[w] = Hearts!Older(worker[w])
               /\ beat'[w] = IF beat[w] < Hearts!Gone THEN beat[w] + 1 ELSE beat[w]
               /\ since'[w] = IF since[w] <= Hearts!Grace THEN since[w] + 1 ELSE since[w]
               /\ missed'[w] = missed[w]
               /\ worker[w].late < Lag /\ worker[w].stamp < Lag
    BY DEF Hearts!Tick
  <1>2. Lag \in Nat /\ Interval \in Nat /\ Hearts!Grace \in Nat /\ Hearts!Gone \in Nat /\ Hearts!Grace < Hearts!Gone
    BY Times DEF Unhurried, Hearts!Gone
  <1>3. ASSUME NEW w \in Worker
        PROVE  /\ worker'[w] \in Local /\ worker'[w].at = worker[w].at /\ worker'[w].full = worker[w].full
               /\ worker[w].at \in {"loop", "beating"} /\ ~worker[w].full =>
                    \A m \in Nat : Left(worker'[w], m) = Left(worker[w], m) - 1
    <2> DEFINE r == worker[w]
    <2>1. r \in Local /\ r.stamp \in 0 .. Lag /\ r.next \in 0 .. Interval /\ r.late \in 0 .. Lag
      BY DEF HeartsInv, HeartsTyped, Local
    <2>2. r.late < Lag /\ r.stamp < Lag /\ worker'[w] = Hearts!Older(r)
      BY <1>1
    <2>3. CASE Hearts!Due(r)
      <3>1. worker'[w] = [r EXCEPT !.late = @ + 1] /\ r.at = "loop" /\ r.late + 1 \in 0 .. Lag
        BY <1>2, <2>1, <2>2, <2>3 DEF Hearts!Older, Hearts!Due
      <3>2. worker'[w] \in Local /\ worker'[w].at = r.at /\ worker'[w].full = r.full
            /\ worker'[w].next = r.next /\ worker'[w].late = r.late + 1
        BY <2>1, <3>1 DEF Local
      <3>3. ThisBeat(worker'[w]) = ThisBeat(r) - 1 /\ ThisBeat(r) \in Nat
        BY <1>2, <2>1, <3>1, <3>2 DEF ThisBeat
      <3>4. \A m \in Nat : Left(worker'[w], m) = Left(r, m) - 1
        BY <1>2, <3>3 DEF Left
      <3>5. QED
        BY <3>2, <3>4
    <2>4. CASE r.at = "beating"
      <3>1. worker'[w] = [r EXCEPT !.stamp = @ + 1] /\ r.stamp + 1 \in 0 .. Lag
        BY <1>2, <2>1, <2>2, <2>4 DEF Hearts!Older, Hearts!Due
      <3>2. QED
        BY <1>2, <2>1, <2>4, <3>1 DEF Local, Left, ThisBeat
    <2>5. CASE r.at = "loop" /\ r.next > 0
      <3>1. worker'[w] = [r EXCEPT !.next = @ - 1] /\ r.next - 1 \in 0 .. Interval
        BY <1>2, <2>1, <2>2, <2>5 DEF Hearts!Older, Hearts!Due
      <3>2. worker'[w] \in Local /\ worker'[w].at = r.at /\ worker'[w].full = r.full
            /\ worker'[w].next = r.next - 1 /\ worker'[w].late = r.late
        BY <2>1, <3>1 DEF Local
      <3>3. ThisBeat(worker'[w]) = ThisBeat(r) - 1 /\ ThisBeat(r) \in Nat
        BY <1>2, <2>1, <2>5, <3>2 DEF ThisBeat
      <3>4. \A m \in Nat : Left(worker'[w], m) = Left(r, m) - 1
        BY <1>2, <3>3 DEF Left
      <3>5. QED
        BY <3>2, <3>4
    <2>6. CASE ~Hearts!Due(r) /\ r.at # "beating" /\ ~(r.at = "loop" /\ r.next > 0)
      <3>1. worker'[w] = r
        BY <2>2, <2>6 DEF Hearts!Older
      <3>2. ~(r.at \in {"loop", "beating"} /\ ~r.full)
        BY <2>1, <2>6 DEF Hearts!Due
      <3>3. QED
        BY <2>1, <3>1, <3>2
    <2>7. QED
      BY <2>3, <2>4, <2>5, <2>6
  <1>4. HeartsTyped'
    <2>1. \A w \in Worker : beat[w] \in Nat /\ since[w] \in Nat
      BY DEF HeartsInv, HeartsTyped
    <2>2. QED
      BY <1>1, <1>3, <2>1 DEF HeartsInv, HeartsTyped, Hearts!Tick
  <1>5. ASSUME NEW w \in Worker, Beating(w)'
        PROVE  InTime(w)'
    <2>1. Beating(w) /\ InTime(w) /\ beat[w] \in Nat /\ since[w] \in Nat /\ missed[w] \in Nat /\ worker[w] \in Local
      BY <1>1, <1>3, <1>5 DEF HeartsInv, HeartsTyped, Beating
    <2>2. Left(worker'[w], missed[w]) = Left(worker[w], missed[w]) - 1 /\ Left(worker[w], missed[w]) \in Nat
      BY <1>3, <2>1, LeftBounds DEF Beating
    <2>3. missed'[w] = missed[w] /\ beat'[w] <= beat[w] + 1 /\ since'[w] <= since[w] + 1
          /\ beat'[w] \in Nat /\ since'[w] \in Nat
      BY <1>1, <2>1
    <2>4. \/ beat[w] + Left(worker[w], missed[w]) <= Hearts!Grace
          \/ since[w] + Left(worker[w], missed[w]) <= Hearts!Grace
      BY <2>1 DEF InTime
    <2>5. \/ beat'[w] + Left(worker'[w], missed'[w]) <= Hearts!Grace
          \/ since'[w] + Left(worker'[w], missed'[w]) <= Hearts!Grace
      BY <1>2, <2>1, <2>2, <2>3, <2>4
    <2>6. QED
      BY <2>5 DEF InTime
  <1>6. \A w \in Worker : worker'[w].full => worker'[w].at = "loop"
    BY <1>3 DEF HeartsInv
  <1>7. QED
    BY <1>4, <1>5, <1>6 DEF HeartsInv, InTime

LEMMA HeartsInit == MCInit => HeartsInv
  <1> SUFFICES ASSUME MCInit PROVE HeartsInv
    OBVIOUS
  <1>1. /\ beat = [w \in Worker |-> Hearts!Absent] /\ worker = [w \in Worker |-> Hearts!Down]
        /\ missed = [w \in Worker |-> 0] /\ since = [w \in Worker |-> 0]
    BY DEF MCInit, Hearts!Init
  <1>2. Hearts!Absent \in Nat
    BY Times DEF Hearts!Absent, Hearts!Gone
  <1>3. Hearts!Down \in Local /\ Hearts!Down.at = "down" /\ ~Hearts!Down.full
    BY DownLocal
  <1>4. HeartsTyped
    BY <1>1, <1>2, <1>3 DEF HeartsTyped
  <1>5. QED
    BY <1>1, <1>3, <1>4 DEF HeartsInv, InTime, Beating

LEMMA HeartsKept ==
  ASSUME HeartsInv, Unhurried, [MCNext]_<<look, vars, list, line, hearts, releases>>
  PROVE  HeartsInv'
  <1>1. CASE Hearts!Next
    BY <1>1, TickKeeps, ScreenKeeps, WorkerKeeps DEF Hearts!Next
  <1>2. CASE UNCHANGED hearts
    BY <1>2 DEF hearts, HeartsInv, HeartsTyped, InTime, Beating
  <1>3. QED
    BY <1>1, <1>2 DEF MCNext

LEMMA InTimeIsLive ==
  ASSUME HeartsInv, Unhurried
  PROVE  WorkingIsLive
  <1> SUFFICES ASSUME NEW w \in Worker, worker[w].at \in {"loop", "beating"}, ~worker[w].full,
                      missed[w] <= 1, since[w] > Hearts!Grace
               PROVE  Hearts!Alive(w)
    BY DEF WorkingIsLive, Hearts!WorkingIsLive
  <1>1. /\ worker[w] \in Local /\ missed[w] \in Nat /\ beat[w] \in Nat /\ since[w] \in Nat
        /\ InTime(w) /\ Beating(w)
    BY DEF HeartsInv, HeartsTyped, Beating
  <1>2. Left(worker[w], missed[w]) \in Nat
    BY <1>1, LeftBounds
  <1>3. beat[w] <= Hearts!Grace
    BY <1>1, <1>2, Times DEF InTime
  <1>4. QED
    BY <1>1, <1>3, Times DEF Unhurried, Hearts!Alive, Hearts!Gone

\* WorkerRecord.alive (engine/workers.py): three beats without a word mean that a worker is gone, and
\* never that one beat raised, that the loop came round late, that an operator removed the record of a
\* worker that was back, or that a former life of it left one.
THEOREM WorkersAreShown ==
  ASSUME Unhurried
  PROVE  MCSpec => []WorkingIsLive
  <1>1. HeartsInv /\ [MCNext]_<<look, vars, list, line, hearts, releases>> => HeartsInv'
    BY HeartsKept
  <1>2. HeartsInv => WorkingIsLive
    BY InTimeIsLive
  <1>3. QED
    BY HeartsInit, <1>1, <1>2, PTL DEF MCSpec
-----------------------------------------------------------------------------
(***************************************************************************)
(* The table of definitions                                                *)
(***************************************************************************)

TableTyped == /\ own \in [Publisher -> Edition] /\ kept \in Edition \cup {NoEdition}
              /\ place \in [Publisher -> {"idle", "inserting", "reading"}]
              /\ publishes \in [Publisher -> BOOLEAN]
              /\ answer \in [Publisher -> Edition \cup {NoEdition}]

LEMMA TextInit == MCInit => TableTyped /\ OneText
  BY DEF MCInit, Table!Init, TableTyped, OneText, Table!OneText

\* Every store inserts only what is not there, so the text that stands is the one that stood.
LEMMA InsertKeeps ==
  ASSUME TableTyped, NEW p \in Publisher, Table!IfAbsent(p)
  PROVE  /\ kept' \in Edition /\ kept' # NoEdition
         /\ kept # NoEdition => kept' = kept
  <1>1. own[p] \in Edition /\ NoEdition \notin Edition
    BY InstanceAssumption DEF TableTyped, Table!ReleasesAssumption
  <1>2. QED
    BY <1>1 DEF Table!IfAbsent, TableTyped

\* Answers given before an insert, or left alone by a step, are still the text that stands.
LEMMA AnswersStay ==
  ASSUME TableTyped, OneText, kept # NoEdition => kept' = kept, NEW q \in Publisher
  PROVE  answer[q] # NoEdition => answer[q] = kept'
  BY DEF OneText, Table!OneText

LEMMA AsksKeeps ==
  ASSUME TableTyped, OneText, own' = own, NEW p \in Publisher, Table!Publish(p) \/ Table!LookUp(p)
  PROVE  TableTyped' /\ OneText'
  BY DEF TableTyped, OneText, Table!OneText, Table!Publish, Table!LookUp, Table!Asks

LEMMA InsertsKeeps ==
  ASSUME TableTyped, OneText, own' = own, NEW p \in Publisher, Table!Inserts(p)
  PROVE  TableTyped' /\ OneText'
  <1>1. /\ kept' \in Edition /\ kept' # NoEdition
        /\ kept # NoEdition => kept' = kept
    BY InsertKeeps DEF Table!Inserts
  <1>2. TableTyped'
    BY <1>1 DEF TableTyped, Table!Inserts
  <1>3. \A q \in Publisher : answer'[q] # NoEdition => answer'[q] = kept'
    BY <1>1, AnswersStay DEF Table!Inserts
  <1>4. QED
    BY <1>1, <1>2, <1>3 DEF OneText, Table!OneText

LEMMA ReadsKeeps ==
  ASSUME TableTyped, OneText, own' = own, NEW p \in Publisher, Table!Reads(p)
  PROVE  TableTyped' /\ OneText'
  BY DEF TableTyped, OneText, Table!OneText, Table!Reads

LEMMA SetDefaultKeeps ==
  ASSUME TableTyped, OneText, own' = own, NEW p \in Publisher, Table!SetDefault(p)
  PROVE  TableTyped' /\ OneText'
  <1>1. /\ kept' \in Edition /\ kept' # NoEdition
        /\ kept # NoEdition => kept' = kept
    BY InsertKeeps DEF Table!SetDefault
  <1>2. TableTyped'
    BY <1>1 DEF TableTyped, Table!SetDefault
  <1>3. \A q \in Publisher : answer'[q] # NoEdition => answer'[q] = kept'
    BY <1>1, AnswersStay DEF Table!SetDefault, TableTyped
  <1>4. QED
    BY <1>1, <1>2, <1>3 DEF OneText, Table!OneText

LEMMA StopsKeeps ==
  ASSUME TableTyped, OneText, own' = own, NEW p \in Publisher, Table!Stops(p)
  PROVE  TableTyped' /\ OneText'
  BY DEF TableTyped, OneText, Table!OneText, Table!Stops

\* The backends and their two classes differ only in whether the insert and the read are one step.
LEMMA PublishIs ==
  ASSUME NEW p \in Publisher, Table!PublishDefinition(p)
  PROVE  Table!Inserts(p) \/ Table!SetDefault(p)
  BY DEF Table!PublishDefinition, Table!SqlitePublish, Table!AioSqlitePublish,
         Table!LibsqlPublish, Table!AioLibsqlPublish, Table!RqlitePublish, Table!AioRqlitePublish,
         Table!PostgresPublish, Table!AioPostgresPublish, Table!RedisPublish, Table!AioRedisPublish,
         Table!MongoPublish, Table!AioMongoPublish, Table!DynamoPublish, Table!AioDynamoPublish,
         Table!DictPublish, Table!AioDictPublish

LEMMA LoadIs ==
  ASSUME NEW p \in Publisher, Table!LoadDefinition(p)
  PROVE  Table!Reads(p)
  BY DEF Table!LoadDefinition, Table!SqliteLoad, Table!AioSqliteLoad, Table!LibsqlLoad,
         Table!AioLibsqlLoad, Table!RqliteLoad, Table!AioRqliteLoad, Table!PostgresLoad,
         Table!AioPostgresLoad, Table!RedisLoad, Table!AioRedisLoad, Table!MongoLoad,
         Table!AioMongoLoad, Table!DynamoLoad, Table!AioDynamoLoad, Table!DictLoad, Table!AioDictLoad

LEMMA TextKept ==
  ASSUME TableTyped, OneText, [MCNext]_<<look, vars, list, line, hearts, releases>>
  PROVE  TableTyped' /\ OneText'
  <1>1. CASE Table!Next
    <2>1. own' = own
      BY <1>1 DEF Table!Next
    <2>2. PICK p \in Publisher : \/ Table!Publish(p) \/ Table!LookUp(p) \/ Table!PublishDefinition(p)
                                 \/ Table!LoadDefinition(p) \/ Table!Stops(p)
      BY <1>1 DEF Table!Next
    <2>3. QED
      BY <2>1, <2>2, PublishIs, LoadIs, AsksKeeps, InsertsKeeps, SetDefaultKeeps, ReadsKeeps, StopsKeeps
  <1>2. CASE UNCHANGED releases
    BY <1>2 DEF releases, TableTyped, OneText, Table!OneText
  <1>3. QED
    BY <1>1, <1>2 DEF MCNext

\* publish_definition of every store: insert what is not there yet, then read what is.  However many
\* processes publish their own text of one version at once, and wherever one of them is cut short,
\* whoever was answered has the one text that stands, and a publisher is never answered with nothing.
THEOREM OneTextForAVersion == MCSpec => []OneText
  <1>1. TableTyped /\ OneText /\ [MCNext]_<<look, vars, list, line, hearts, releases>>
        => (TableTyped /\ OneText)'
    BY TextKept
  <1>2. QED
    BY TextInit, <1>1, PTL DEF MCSpec
-----------------------------------------------------------------------------
(***************************************************************************)
(* The timeline                                                            *)
(***************************************************************************)

TableStores == {"sqlite", "libsql", "rqlite", "postgres"}
ListStores == {"dict", "redis", "mongo"}

Writer == [at : {"idle", "loaded", "indexed"}, copy : Nat, idx : Nat]

\* The steps committed are named by versions that rise.
StepsRise == /\ version \in Nat /\ steps \in Seq(Nat)
             /\ \A i \in 1 .. Len(steps) : steps[i] <= version
             /\ \A i, j \in 1 .. Len(steps) : i < j => steps[i] < steps[j]

WritersOK == /\ writer \in [Process -> Writer] /\ next \in Nat
             /\ \A p \in Process : writer[p].copy <= version

\* A table has a row for each of the last steps, under the number of steps before it.
Window(n) == {i \in Nat : i < n /\ (Ring > 0 => i + Ring >= n)}
TableHolds == /\ DOMAIN trace = Window(Len(steps))
              /\ \A i \in Window(Len(steps)) : trace[i] = [idx |-> i, step |-> steps[i + 1]]

\* A list has the last steps under indexes that rise, up to those that were taken.
Size(n) == IF Ring > 0 /\ n > Ring THEN Ring ELSE n
Traced == [idx : Nat, step : Nat]
ListHolds == /\ trace \in Seq(Traced) /\ Len(trace) = Size(Len(steps))
             /\ \A i \in 1 .. Len(trace) : /\ trace[i].step = steps[Len(steps) - Len(trace) + i]
                                           /\ trace[i].idx < next
             /\ \A i, j \in 1 .. Len(trace) : i < j => trace[i].idx < trace[j].idx

\* Whoever can still win took its index after the list was written last.
Ahead(p) == writer[p].at = "indexed" /\ writer[p].copy = version =>
  writer[p].idx < next /\ \A i \in 1 .. Len(trace) : trace[i].idx < writer[p].idx

DynamoHolds == \A i \in DOMAIN trace : trace[i].step \in Steps!Range(steps)

RowsHold == /\ keeper.name \in TableStores => TableHolds
            /\ keeper.name \in ListStores => ListHolds /\ \A p \in Process : Ahead(p)
            /\ keeper.name = "dynamodb" => DynamoHolds

ShownHolds == \A rows \in shown : rows = trace /\ keeper.name \in TableStores \cup ListStores \cup {"dynamodb"}

LineInv == StepsRise /\ WritersOK /\ RowsHold /\ ShownHolds

LEMMA RingNat == Ring \in Nat
  BY InstanceAssumption DEF Steps!TimelineAssumption

LEMMA IdleWriter == Steps!Idle \in Writer /\ Steps!Idle.at = "idle" /\ Steps!Idle.copy = 0
  BY DEF Steps!Idle, Writer

LEMMA LineInit == MCInit => LineInv
  <1> SUFFICES ASSUME MCInit PROVE LineInv
    OBVIOUS
  <1>1. /\ version = 0 /\ trace = <<>> /\ next = 0 /\ writer = [p \in Process |-> Steps!Idle]
        /\ shown = {} /\ steps = <<>>
    BY DEF MCInit, Steps!Init
  <1>2. Len(steps) = 0 /\ steps \in Seq(Nat) /\ Len(trace) = 0 /\ trace \in Seq(Traced) /\ DOMAIN trace = {}
    BY <1>1
  <1>3. Window(0) = {} /\ Size(0) = 0
    BY RingNat DEF Window, Size
  <1>4. StepsRise
    BY <1>1, <1>2 DEF StepsRise
  <1>5. WritersOK /\ \A p \in Process : Ahead(p)
    BY <1>1, IdleWriter DEF WritersOK, Ahead
  <1>6. TableHolds /\ ListHolds /\ DynamoHolds
    BY <1>2, <1>3 DEF TableHolds, ListHolds, DynamoHolds
  <1>7. QED
    BY <1>1, <1>4, <1>5, <1>6 DEF LineInv, RowsHold, ShownHolds

\* A step that leaves the rows alone: at most the version goes on, and an index is taken.
LEMMA RowsStay ==
  ASSUME LineInv, keeper' = keeper, shown' = {}, UNCHANGED <<trace, steps>>,
         version' \in Nat, version' >= version, next' \in Nat, next' >= next,
         writer' \in [Process -> Writer],
         \A p \in Process : writer'[p].copy <= version',
         keeper.name \in ListStores => \A p \in Process : Ahead(p)'
  PROVE  LineInv'
  <1>1. StepsRise'
    BY DEF LineInv, StepsRise
  <1>2. WritersOK'
    BY DEF LineInv, WritersOK
  <1>3. ASSUME ListHolds PROVE ListHolds'
    <2>1. next \in Nat /\ \A i \in 1 .. Len(trace) : trace[i] \in Traced
      BY <1>3, ElementOfSeq DEF LineInv, WritersOK, ListHolds
    <2>2. \A i \in 1 .. Len(trace) : trace[i].idx < next'
      BY <1>3, <2>1 DEF ListHolds, Traced
    <2>3. QED
      BY <1>3, <2>2 DEF ListHolds
  <1>4. TableHolds => TableHolds'
    BY DEF TableHolds
  <1>5. DynamoHolds => DynamoHolds'
    BY DEF DynamoHolds
  <1>6. RowsHold'
    BY <1>3, <1>4, <1>5 DEF LineInv, RowsHold
  <1>7. QED
    BY <1>1, <1>2, <1>6 DEF LineInv, ShownHolds

\* A process that drops what it had, with or without a commit that has no step.
LEMMA LetsGo ==
  ASSUME LineInv, keeper' = keeper, shown' = {}, UNCHANGED <<trace, steps, next>>, NEW p \in Process,
         Steps!Become(p, Steps!Idle), version' \in {version, version + 1}
  PROVE  LineInv'
  <1>1. /\ version \in Nat /\ next \in Nat /\ writer \in [Process -> Writer]
        /\ \A q \in Process : writer[q].copy <= version
    BY DEF LineInv, StepsRise, WritersOK
  <1>2. /\ writer' \in [Process -> Writer] /\ writer'[p].copy = 0 /\ writer'[p].at = "idle"
        /\ \A q \in Process : q # p => writer'[q] = writer[q]
    BY <1>1, IdleWriter DEF Steps!Become
  <1>3. \A q \in Process : writer[q].copy \in Nat
    BY <1>1 DEF Writer
  <1>4. \A q \in Process : writer'[q].copy <= version'
    BY <1>1, <1>2, <1>3
  <1>5. ASSUME NEW q \in Process, Ahead(q) PROVE Ahead(q)'
    <2>1. CASE q = p
      BY <1>2, <2>1 DEF Ahead
    <2>2. CASE q # p /\ version' = version
      BY <1>2, <1>5, <2>2 DEF Ahead
    <2>3. CASE q # p /\ version' = version + 1
      BY <1>1, <1>2, <1>3, <2>3 DEF Ahead
    <2>4. QED
      BY <2>1, <2>2, <2>3
  <1>6. QED
    BY <1>1, <1>2, <1>4, <1>5, RowsStay DEF LineInv, RowsHold

LEMMA LoadsKeeps ==
  ASSUME LineInv, keeper' = keeper, shown' = {}, UNCHANGED steps, NEW p \in Process, Steps!Loads(p)
  PROVE  LineInv'
  <1>1. /\ version \in Nat /\ next \in Nat /\ writer \in [Process -> Writer]
        /\ \A q \in Process : writer[q].copy <= version
    BY DEF LineInv, StepsRise, WritersOK
  <1> DEFINE loaded == [Steps!Idle EXCEPT !.at = "loaded", !.copy = version]
  <1>2. loaded \in Writer /\ loaded.at = "loaded" /\ loaded.copy = version
    BY <1>1 DEF Steps!Idle, Writer
  <1>3. UNCHANGED <<version, trace, next>> /\ writer' = [writer EXCEPT ![p] = loaded]
    BY DEF Steps!Loads, Steps!Become
  <1> HIDE DEF loaded
  <1>4. /\ writer' \in [Process -> Writer] /\ writer'[p] = loaded
        /\ \A q \in Process : q # p => writer'[q] = writer[q]
    BY <1>1, <1>2, <1>3
  <1>5. \A q \in Process : writer'[q].copy <= version'
    BY <1>1, <1>2, <1>3, <1>4
  <1>6. ASSUME NEW q \in Process, Ahead(q) PROVE Ahead(q)'
    BY <1>2, <1>3, <1>4, <1>6 DEF Ahead
  <1>7. QED
    BY <1>1, <1>3, <1>4, <1>5, <1>6, RowsStay DEF LineInv, RowsHold

LEMMA StepAdded ==
  ASSUME LineInv, steps' = Append(steps, version + 1), version' = version + 1
  PROVE  /\ StepsRise' /\ Len(steps') = Len(steps) + 1 /\ Len(steps) \in Nat
         /\ steps'[Len(steps) + 1] = version + 1
         /\ \A i \in 1 .. Len(steps) : steps'[i] = steps[i]
  <1>1. version \in Nat /\ steps \in Seq(Nat) /\ Len(steps) \in Nat
    BY DEF LineInv, StepsRise
  <1>2. /\ steps' \in Seq(Nat) /\ Len(steps') = Len(steps) + 1
        /\ steps'[Len(steps) + 1] = version + 1
        /\ \A i \in 1 .. Len(steps) : steps'[i] = steps[i]
    BY <1>1, AppendProperties
  <1>3. \A i \in 1 .. Len(steps) : steps[i] \in Nat /\ steps[i] <= version
    BY <1>1 DEF LineInv, StepsRise
  <1>4. \A i \in 1 .. Len(steps') : i \in 1 .. Len(steps) \/ i = Len(steps) + 1
    BY <1>1, <1>2
  <1>5. \A i \in 1 .. Len(steps') : steps'[i] <= version'
    BY <1>1, <1>2, <1>3, <1>4
  <1>6. ASSUME NEW i \in 1 .. Len(steps'), NEW j \in 1 .. Len(steps'), i < j
        PROVE  steps'[i] < steps'[j]
    <2>1. i \in 1 .. Len(steps)
      BY <1>1, <1>2, <1>6
    <2>2. CASE j \in 1 .. Len(steps)
      BY <1>2, <1>6, <2>1, <2>2 DEF LineInv, StepsRise
    <2>3. CASE j = Len(steps) + 1
      BY <1>1, <1>2, <1>3, <2>1, <2>3
    <2>4. QED
      BY <1>4, <2>2, <2>3
  <1>7. QED
    BY <1>1, <1>2, <1>5, <1>6 DEF StepsRise

\* A commit that won: nobody else who loaded can win now.
LEMMA Won ==
  ASSUME LineInv, keeper' = keeper, shown' = {}, NEW p \in Process, Steps!Become(p, Steps!Idle),
         steps' = Append(steps, version + 1), version' = version + 1, next' \in Nat,
         /\ keeper.name \in TableStores => TableHolds'
         /\ keeper.name \in ListStores => ListHolds'
         /\ keeper.name = "dynamodb" => DynamoHolds'
  PROVE  LineInv'
  <1>1. /\ version \in Nat /\ writer \in [Process -> Writer]
        /\ \A q \in Process : writer[q].copy \in Nat /\ writer[q].copy <= version
    BY DEF LineInv, StepsRise, WritersOK, Writer
  <1>2. /\ writer' \in [Process -> Writer] /\ writer'[p].copy = 0 /\ writer'[p].at = "idle"
        /\ \A q \in Process : q # p => writer'[q] = writer[q]
    BY <1>1, IdleWriter DEF Steps!Become
  <1>3. \A q \in Process : writer'[q].copy <= version'
    BY <1>1, <1>2
  <1>4. \A q \in Process : Ahead(q)'
    <2> SUFFICES ASSUME NEW q \in Process, writer'[q].at = "indexed", writer'[q].copy = version'
                 PROVE  FALSE
      BY DEF Ahead
    <2>1. QED
      BY <1>1, <1>2
  <1>5. StepsRise'
    BY StepAdded
  <1>6. QED
    BY <1>2, <1>3, <1>4, <1>5 DEF LineInv, WritersOK, RowsHold, ShownHolds

\* MAX(idx) of a table is the last of its window.
LEMMA NextInTable ==
  ASSUME LineInv, TableHolds
  PROVE  Steps!Next0(trace) = Len(steps)
  <1>1. Len(steps) \in Nat /\ Ring \in Nat
    BY RingNat DEF LineInv, StepsRise
  <1>2. CASE Len(steps) = 0
    BY <1>1, <1>2 DEF TableHolds, Window, Steps!Next0
  <1>3. CASE Len(steps) > 0
    <2> DEFINE last == Len(steps) - 1
    <2>1. last \in Window(Len(steps)) /\ \A i \in Window(Len(steps)) : last >= i
      BY <1>1, <1>3 DEF Window
    <2>2. \A x \in Window(Len(steps)) : (\A y \in Window(Len(steps)) : x >= y) => x = last
      BY <1>1, <1>3, <2>1 DEF Window
    <2>3. Steps!Max(DOMAIN trace) = last
      BY <2>1, <2>2 DEF TableHolds, Steps!Max
    <2>4. DOMAIN trace # {}
      BY <2>1 DEF TableHolds
    <2>5. QED
      BY <1>1, <2>3, <2>4 DEF Steps!Next0
  <1>4. QED
    BY <1>1, <1>2, <1>3

LEMMA InlineKeeps ==
  ASSUME LineInv, keeper' = keeper, shown' = {}, keeper.name \in TableStores,
         NEW p \in Process, Steps!Inline(p)
  PROVE  LineInv'
  <1> DEFINE n == Len(steps)
             added == [idx |-> n, step |-> version + 1]
             new == Steps!Prune(Steps!Put(trace, added), n)
  <1>1. TableHolds /\ n \in Nat /\ Ring \in Nat /\ version \in Nat /\ next' = next /\ next \in Nat
    BY RingNat DEF LineInv, RowsHold, StepsRise, WritersOK, Steps!Inline
  <1>2. Steps!Next0(trace) = n
    BY <1>1, NextInTable
  <1>3. Steps!Commit(p, new)
    BY <1>2 DEF Steps!Inline, Steps!Step
  <1>4. CASE version # writer[p].copy
    <2>1. Steps!Become(p, Steps!Idle) /\ UNCHANGED <<version, trace, steps, next>>
      BY <1>1, <1>3, <1>4 DEF Steps!Commit
    <2>2. QED
      BY <2>1, LetsGo
  <1>5. CASE version = writer[p].copy
    <2>1. /\ Steps!Become(p, Steps!Idle) /\ version' = version + 1
          /\ trace' = new /\ steps' = Append(steps, version + 1)
      BY <1>3, <1>5 DEF Steps!Commit
    <2>2. /\ Len(steps') = n + 1 /\ steps'[n + 1] = version + 1
          /\ \A i \in 1 .. n : steps'[i] = steps[i]
      BY <2>1, StepAdded
    <2>3. DOMAIN Steps!Put(trace, added) = Window(n) \cup {n}
      BY <1>1 DEF TableHolds, Steps!Put
    <2>4. DOMAIN new = Window(n + 1)
      BY <1>1, <2>3 DEF Steps!Prune, Steps!Restrict, Window
    <2>5. \A i \in Window(n + 1) : new[i] = Steps!Put(trace, added)[i]
      BY <2>4 DEF Steps!Prune, Steps!Restrict
    <2>6. Window(n + 1) \subseteq Window(n) \cup {n}
      BY <1>1 DEF Window
    <2>7. \A i \in Window(n) : i \in Nat /\ i # n /\ i + 1 \in 1 .. n
      BY <1>1 DEF Window
    <2>8. Steps!Put(trace, added)[n] = added /\ \A i \in Window(n) : Steps!Put(trace, added)[i] = trace[i]
      BY <1>1, <2>3, <2>7 DEF Steps!Put, TableHolds
    <2>9. ASSUME NEW i \in Window(n + 1) PROVE new[i] = [idx |-> i, step |-> steps'[i + 1]]
      <3>1. CASE i = n
        BY <2>2, <2>5, <2>8, <3>1
      <3>2. CASE i \in Window(n)
        <4>1. new[i] = [idx |-> i, step |-> steps[i + 1]]
          BY <1>1, <2>5, <2>8, <3>2 DEF TableHolds
        <4>2. steps'[i + 1] = steps[i + 1]
          BY <2>2, <2>7, <3>2
        <4>3. QED
          BY <4>1, <4>2
      <3>3. QED
        BY <2>6, <3>1, <3>2
    <2>10. TableHolds'
      BY <2>1, <2>2, <2>4, <2>9 DEF TableHolds
    <2>11. keeper.name \notin ListStores /\ keeper.name # "dynamodb"
      BY DEF TableStores, ListStores
    <2>12. QED
      BY <1>1, <2>1, <2>10, <2>11, Won
  <1>6. QED
    BY <1>4, <1>5

LEMMA SecondOn ==
  ASSUME NEW S, NEW s1 \in Seq(S), NEW k \in Nat, Len(s1) = k + 1
  PROVE  /\ SubSeq(s1, 2, k + 1) \in Seq(S) /\ Len(SubSeq(s1, 2, k + 1)) = k
         /\ \A i \in 1 .. k : SubSeq(s1, 2, k + 1)[i] = s1[i + 1]
  <1>1. \A i \in 2 .. k + 1 : s1[i] \in S
    BY ElementOfSeq
  <1>2. 2 \in Int /\ k + 1 \in Int
    OBVIOUS
  <1> DEFINE e == k + 1
  <1>3. e \in Int
    OBVIOUS
  <1> HIDE DEF e
  <1>4. \A i \in 2 .. e : s1[i] \in S
    BY <1>1 DEF e
  <1>5. /\ SubSeq(s1, 2, e) \in Seq(S)
        /\ Len(SubSeq(s1, 2, e)) = IF 2 <= e THEN e - 2 + 1 ELSE 0
        /\ \A i \in 1 .. e - 2 + 1 : SubSeq(s1, 2, e)[i] = s1[2 + i - 1]
    BY <1>2, <1>3, <1>4, SubSeqProperties
  <1>6. QED
    BY <1>5 DEF e

\* A row pushed on a list that is cut to the ring.
LEMMA PushKeepsList ==
  ASSUME LineInv, ListHolds, NEW idx \in Nat, idx < next', next' \in Nat, next' >= next,
         \A i \in 1 .. Len(trace) : trace[i].idx < idx,
         steps' = Append(steps, version + 1), version' = version + 1,
         trace' = Steps!Cut(Append(trace, [idx |-> idx, step |-> version + 1]))
  PROVE  ListHolds'
  <1> DEFINE n == Len(steps)
             m == Len(trace)
             added == [idx |-> idx, step |-> version + 1]
             long == Append(trace, added)
  <1>1. /\ n \in Nat /\ Ring \in Nat /\ version \in Nat /\ next \in Nat
        /\ trace \in Seq(Traced) /\ m \in Nat /\ m = Size(n)
    BY RingNat DEF LineInv, StepsRise, WritersOK, ListHolds
  <1>2. added \in Traced
    BY <1>1 DEF Traced
  <1>3. /\ Len(steps') = n + 1 /\ steps'[n + 1] = version + 1
        /\ \A i \in 1 .. n : steps'[i] = steps[i]
    BY StepAdded
  <1>4. /\ long \in Seq(Traced) /\ Len(long) = m + 1 /\ long[m + 1] = added
        /\ \A i \in 1 .. m : long[i] = trace[i]
    BY <1>1, <1>2, AppendProperties
  <1>5. trace' = Steps!Cut(long)
    OBVIOUS
  <1> HIDE DEF long, added, n, m
  <1>6. m <= n
    BY <1>1 DEF Size
  <1>7. \A i \in 1 .. m : /\ trace[i].step = steps[n - m + i] /\ trace[i].idx < next /\ trace[i].idx < idx
                          /\ trace[i] \in Traced
    BY <1>1, ElementOfSeq DEF ListHolds, n, m
  <1>8. \A i, j \in 1 .. m : i < j => trace[i].idx < trace[j].idx
    BY DEF ListHolds, m
  <1>9. \A i \in 1 .. m + 1 : i \in 1 .. m \/ i = m + 1
    BY <1>1
  <1>10. added.idx = idx /\ added.step = version + 1
    BY DEF added
  <1>11. \A i \in 1 .. m + 1 : /\ long[i].step = steps'[n - m + i] /\ long[i].idx < next'
                               /\ long[i] \in Traced
    <2> SUFFICES ASSUME NEW i \in 1 .. m + 1
                 PROVE  /\ long[i].step = steps'[n - m + i] /\ long[i].idx < next'
                        /\ long[i] \in Traced
      OBVIOUS
    <2>1. CASE i = m + 1
      <3>1. n - m + i = n + 1
        BY <1>1, <2>1
      <3>2. QED
        BY <1>2, <1>3, <1>4, <1>10, <2>1, <3>1
    <2>2. CASE i \in 1 .. m
      <3>1. n - m + i \in 1 .. n
        BY <1>1, <1>6, <2>2
      <3>2. long[i] = trace[i] /\ long[i].idx \in Nat
        BY <1>4, <1>7, <2>2 DEF Traced
      <3>3. trace[i].idx < next /\ trace[i].idx \in Nat
        BY <1>7, <2>2, <3>2
      <3>4. trace[i].idx < next'
        BY <1>1, <3>3
      <3>5. long[i].idx < next'
        BY <3>2, <3>4
      <3>6. QED
        BY <1>3, <1>7, <2>2, <3>1, <3>2, <3>5
    <2>3. QED
      BY <1>9, <2>1, <2>2
  <1>12. ASSUME NEW i \in 1 .. m + 1, NEW j \in 1 .. m + 1, i < j PROVE long[i].idx < long[j].idx
    <2>1. i \in 1 .. m
      BY <1>1, <1>12
    <2>2. CASE j = m + 1
      BY <1>4, <1>7, <1>10, <2>1, <2>2
    <2>3. CASE j \in 1 .. m
      BY <1>4, <1>8, <1>12, <2>1, <2>3
    <2>4. QED
      BY <1>9, <2>2, <2>3
  <1>13. CASE Ring > 0 /\ m + 1 > Ring
    <2> DEFINE skip == m + 1 - Ring
    <2>1. m = Ring /\ n >= Ring /\ skip = 1
      BY <1>1, <1>13 DEF Size
    <2>2. trace' = SubSeq(long, 2, m + 1)
      <3>1. Len(long) - Ring + 1 = 2 /\ Len(long) > Ring
        BY <1>1, <1>4, <1>13, <2>1
      <3>2. trace' = SubSeq(long, Len(long) - Ring + 1, Len(long))
        BY <1>5, <1>13, <3>1 DEF Steps!Cut
      <3>3. QED
        BY <1>4, <3>1, <3>2
    <2>3. /\ trace' \in Seq(Traced) /\ Len(trace') = m
          /\ \A i \in 1 .. m : trace'[i] = long[i + 1]
      <3>1. /\ SubSeq(long, 2, m + 1) \in Seq(Traced) /\ Len(SubSeq(long, 2, m + 1)) = m
            /\ \A i \in 1 .. m : SubSeq(long, 2, m + 1)[i] = long[i + 1]
        BY <1>1, <1>4, SecondOn
      <3>2. QED
        BY <2>2, <3>1
    <2>4. Len(trace') = Size(n + 1)
      BY <1>1, <1>13, <2>1, <2>3 DEF Size
    <2>5. \A i \in 1 .. m : i + 1 \in 1 .. m + 1 /\ n + 1 - m + i = n - m + (i + 1)
      BY <1>1
    <2>6. ASSUME NEW i \in 1 .. m PROVE trace'[i].step = steps'[n + 1 - m + i] /\ trace'[i].idx < next'
      <3>1. i + 1 \in 1 .. m + 1 /\ n + 1 - m + i = n - m + (i + 1) /\ trace'[i] = long[i + 1]
        BY <2>3, <2>5
      <3>2. PICK k \in 1 .. m + 1 : k = i + 1
        BY <3>1
      <3>3. long[k].step = steps'[n - m + k] /\ long[k].idx < next'
        BY <1>11
      <3>4. QED
        BY <3>1, <3>2, <3>3
    <2>7. ASSUME NEW i \in 1 .. m, NEW j \in 1 .. m, i < j PROVE trace'[i].idx < trace'[j].idx
      <3>1. i + 1 \in 1 .. m + 1 /\ j + 1 \in 1 .. m + 1 /\ i + 1 < j + 1
        BY <1>1, <2>7
      <3>2. QED
        BY <1>12, <2>3, <3>1
    <2>8. /\ \A i \in 1 .. Len(trace') : /\ trace'[i].step = steps'[Len(steps') - Len(trace') + i]
                                         /\ trace'[i].idx < next'
          /\ \A i, j \in 1 .. Len(trace') : i < j => trace'[i].idx < trace'[j].idx
      <3>1. Len(trace') = m
        BY <2>3
      <3>2. Len(steps') = n + 1
        BY <1>3
      <3>3. Len(steps') - Len(trace') = n + 1 - m
        BY <1>1, <3>1, <3>2
      <3>4. QED
        BY <2>6, <2>7, <3>1, <3>3
    <2>9. QED
      BY <1>3, <2>3, <2>4, <2>8 DEF ListHolds
  <1>14. CASE ~(Ring > 0 /\ m + 1 > Ring)
    <2>1. trace' = long
      BY <1>4, <1>5, <1>14 DEF Steps!Cut
    <2>2. m = n /\ Size(n + 1) = m + 1
      BY <1>1, <1>14 DEF Size
    <2>3. \A i \in 1 .. m + 1 : n + 1 - (m + 1) + i = n - m + i
      BY <1>1
    <2>4. \A i \in 1 .. m + 1 : trace'[i].step = steps'[n + 1 - (m + 1) + i] /\ trace'[i].idx < next'
      BY <1>11, <2>1, <2>3
    <2>5. Len(trace') = m + 1 /\ trace' \in Seq(Traced)
      BY <1>4, <2>1
    <2>6. /\ \A i \in 1 .. Len(trace') : /\ trace'[i].step = steps'[Len(steps') - Len(trace') + i]
                                         /\ trace'[i].idx < next'
          /\ \A i, j \in 1 .. Len(trace') : i < j => trace'[i].idx < trace'[j].idx
      <3>1. Len(trace') = m + 1
        BY <2>5
      <3>2. Len(steps') = n + 1
        BY <1>3
      <3>3. n \in Nat /\ m \in Nat
        BY <1>1
      <3>4. Len(steps') - Len(trace') = n + 1 - (m + 1)
        BY <3>1, <3>2, <3>3
      <3>5. QED
        BY <1>12, <2>1, <2>4, <2>5, <3>4
    <2>7. QED
      BY <1>3, <2>2, <2>5, <2>6 DEF ListHolds
  <1>15. QED
    BY <1>13, <1>14

LEMMA PushKeeps ==
  ASSUME LineInv, keeper' = keeper, shown' = {}, keeper.name \in ListStores,
         NEW p \in Process, Steps!Push(p)
  PROVE  LineInv'
  <1>1. /\ ListHolds /\ Ahead(p) /\ writer[p].idx \in Nat /\ next' = next /\ next \in Nat
        /\ keeper.name \notin TableStores /\ keeper.name # "dynamodb"
    BY DEF LineInv, RowsHold, WritersOK, Writer, Steps!Push, TableStores, ListStores
  <1>2. /\ writer[p].at = "indexed"
        /\ Steps!Commit(p, Steps!Cut(Append(trace, [idx |-> writer[p].idx, step |-> version + 1])))
    BY DEF Steps!Push, Steps!Step
  <1>3. CASE version # writer[p].copy
    <2>1. Steps!Become(p, Steps!Idle) /\ UNCHANGED <<version, trace, steps, next>>
      BY <1>1, <1>2, <1>3 DEF Steps!Commit
    <2>2. QED
      BY <2>1, LetsGo
  <1>4. CASE version = writer[p].copy
    <2>1. /\ Steps!Become(p, Steps!Idle) /\ version' = version + 1 /\ steps' = Append(steps, version + 1)
          /\ trace' = Steps!Cut(Append(trace, [idx |-> writer[p].idx, step |-> version + 1]))
      BY <1>2, <1>4 DEF Steps!Commit
    <2>2. writer[p].idx < next' /\ \A i \in 1 .. Len(trace) : trace[i].idx < writer[p].idx
      BY <1>1, <1>2, <1>4 DEF Ahead
    <2>3. next' >= next /\ next' \in Nat
      BY <1>1
    <2>4. ListHolds'
      BY <1>1, <2>1, <2>2, <2>3, PushKeepsList
    <2>5. QED
      BY <1>1, <2>1, <2>3, <2>4, Won
  <1>5. QED
    BY <1>3, <1>4

LEMMA CountedKeeps ==
  ASSUME LineInv, keeper' = keeper, shown' = {}, keeper.name \in ListStores,
         NEW p \in Process, Steps!Counted(p)
  PROVE  LineInv'
  <1>1. /\ ListHolds /\ next \in Nat /\ keeper.name \notin TableStores /\ keeper.name # "dynamodb"
    BY DEF LineInv, RowsHold, WritersOK, TableStores, ListStores
  <1>2. /\ Steps!Commit(p, Steps!Cut(Append(trace, [idx |-> next, step |-> version + 1])))
        /\ next' = IF version = writer[p].copy THEN next + 1 ELSE next
    BY DEF Steps!Counted, Steps!Step
  <1>3. CASE version # writer[p].copy
    <2>1. Steps!Become(p, Steps!Idle) /\ UNCHANGED <<version, trace, steps, next>>
      BY <1>2, <1>3 DEF Steps!Commit
    <2>2. QED
      BY <2>1, LetsGo
  <1>4. CASE version = writer[p].copy
    <2>1. /\ Steps!Become(p, Steps!Idle) /\ version' = version + 1 /\ steps' = Append(steps, version + 1)
          /\ trace' = Steps!Cut(Append(trace, [idx |-> next, step |-> version + 1]))
      BY <1>2, <1>4 DEF Steps!Commit
    <2>2. \A i \in 1 .. Len(trace) : trace[i].idx < next
      BY <1>1 DEF ListHolds
    <2>3. next' >= next /\ next' \in Nat /\ next < next'
      BY <1>1, <1>2, <1>4
    <2>4. ListHolds'
      BY <1>1, <2>1, <2>2, <2>3, PushKeepsList
    <2>5. QED
      BY <1>1, <2>1, <2>3, <2>4, Won
  <1>5. QED
    BY <1>3, <1>4

\* A process that is given an index, and goes on with the copy it has.
LEMMA IndexGiven ==
  ASSUME LineInv, keeper' = keeper, shown' = {}, UNCHANGED <<version, trace, steps>>,
         NEW p \in Process, NEW i \in Nat, Steps!Become(p, [writer[p] EXCEPT !.at = "indexed", !.idx = i]),
         next' \in Nat, next' >= next,
         keeper.name \in ListStores => i < next' /\ \A k \in 1 .. Len(trace) : trace[k].idx < i
  PROVE  LineInv'
  <1> DEFINE given == [writer[p] EXCEPT !.at = "indexed", !.idx = i]
  <1>1. /\ version \in Nat /\ next \in Nat /\ writer \in [Process -> Writer] /\ writer[p] \in Writer
        /\ \A q \in Process : writer[q].copy <= version
    BY DEF LineInv, StepsRise, WritersOK
  <1>2. given \in Writer /\ given.at = "indexed" /\ given.copy = writer[p].copy /\ given.idx = i
    BY <1>1 DEF Writer
  <1>3. writer' = [writer EXCEPT ![p] = given]
    BY DEF Steps!Become
  <1> HIDE DEF given
  <1>4. /\ writer' \in [Process -> Writer] /\ writer'[p] = given
        /\ \A q \in Process : q # p => writer'[q] = writer[q]
    BY <1>1, <1>2, <1>3
  <1>5. \A q \in Process : writer'[q].copy <= version'
    BY <1>1, <1>2, <1>4
  <1>6. ASSUME keeper.name \in ListStores, NEW q \in Process PROVE Ahead(q)'
    <2>1. CASE q = p
      BY <1>2, <1>4, <1>6, <2>1 DEF Ahead
    <2>2. CASE q # p
      <3>1. Ahead(q) /\ writer'[q] = writer[q] /\ writer[q].idx \in Nat
        BY <1>1, <1>4, <1>6, <2>2 DEF LineInv, RowsHold, Writer
      <3>2. QED
        BY <1>1, <3>1 DEF Ahead
    <2>3. QED
      BY <2>1, <2>2
  <1>7. QED
    BY <1>1, <1>4, <1>5, <1>6, RowsStay

LEMMA TakeIndexKeeps ==
  ASSUME LineInv, keeper' = keeper, shown' = {}, keeper.name \in ListStores,
         NEW p \in Process, Steps!TakeIndex(p)
  PROVE  LineInv'
  <1>1. ListHolds /\ next \in Nat
    BY DEF LineInv, RowsHold, WritersOK
  <1>2. /\ Steps!Become(p, [writer[p] EXCEPT !.at = "indexed", !.idx = next])
        /\ next' = next + 1 /\ UNCHANGED <<version, trace, steps>>
    BY DEF Steps!TakeIndex
  <1>3. next' \in Nat /\ next' >= next /\ next < next'
    BY <1>1, <1>2
  <1>4. \A k \in 1 .. Len(trace) : trace[k].idx < next
    BY <1>1 DEF ListHolds
  <1>5. QED
    BY <1>1, <1>2, <1>3, <1>4, IndexGiven

LEMMA QueryLastKeeps ==
  ASSUME LineInv, keeper' = keeper, shown' = {}, keeper.name = "dynamodb",
         NEW p \in Process, Steps!QueryLast(p)
  PROVE  LineInv'
  <1>1. PICK i \in 0 .. Steps!Next0(trace) : Steps!Become(p, [writer[p] EXCEPT !.at = "indexed", !.idx = i])
    BY DEF Steps!QueryLast
  <1>2. UNCHANGED <<version, trace, next, steps>> /\ next \in Nat /\ i \in Nat
    BY DEF Steps!QueryLast, LineInv, WritersOK
  <1>3. keeper.name \notin ListStores
    BY DEF ListStores
  <1>4. next' \in Nat /\ next' >= next
    BY <1>2
  <1>5. QED
    BY <1>1, <1>2, <1>3, <1>4, IndexGiven

LEMMA PutItemKeeps ==
  ASSUME LineInv, keeper' = keeper, shown' = {}, keeper.name = "dynamodb",
         NEW p \in Process, Steps!PutItem(p)
  PROVE  LineInv'
  <1> DEFINE idx == writer[p].idx
             stays == {i \in DOMAIN trace : ~(Ring > 0 /\ i + Ring = idx)}
             added == [idx |-> idx, step |-> version + 1]
             new == Steps!Put(Steps!Restrict(trace, stays), added)
  <1>1. Steps!Commit(p, new) /\ next' = next /\ next \in Nat
    BY DEF Steps!PutItem, Steps!Step, LineInv, WritersOK
  <1>2. CASE version # writer[p].copy
    <2>1. Steps!Become(p, Steps!Idle) /\ UNCHANGED <<version, trace, steps, next>>
      BY <1>1, <1>2 DEF Steps!Commit
    <2>2. QED
      BY <2>1, LetsGo
  <1>3. CASE version = writer[p].copy
    <2>1. /\ Steps!Become(p, Steps!Idle) /\ version' = version + 1
          /\ trace' = new /\ steps' = Append(steps, version + 1)
      BY <1>1, <1>3 DEF Steps!Commit
    <2>2. /\ Len(steps) \in Nat /\ Len(steps') = Len(steps) + 1 /\ steps'[Len(steps) + 1] = version + 1
          /\ \A i \in 1 .. Len(steps) : steps'[i] = steps[i]
      BY <2>1, StepAdded
    <2>3. steps \in Seq(Nat) /\ steps' \in Seq(Nat)
      BY <2>1, StepAdded DEF LineInv, StepsRise
    <2>4. DOMAIN steps = 1 .. Len(steps) /\ DOMAIN steps' = 1 .. Len(steps')
      BY <2>3
    <2>5. Steps!Range(steps) \subseteq Steps!Range(steps')
      BY <2>2, <2>4 DEF Steps!Range
    <2>6. version + 1 \in Steps!Range(steps')
      BY <2>2, <2>4 DEF Steps!Range
    <2>7. /\ DOMAIN new = stays \cup {idx} /\ new[idx] = added
          /\ \A i \in stays : i # idx => new[i] = trace[i]
      BY DEF Steps!Put, Steps!Restrict
    <2>8. \A i \in stays : trace[i].step \in Steps!Range(steps)
      BY DEF LineInv, RowsHold, DynamoHolds
    <2>9. ASSUME NEW i \in DOMAIN new PROVE new[i].step \in Steps!Range(steps')
      <3>1. CASE i = idx
        BY <2>6, <2>7, <3>1
      <3>2. CASE i # idx
        BY <2>5, <2>7, <2>8, <2>9, <3>2
      <3>3. QED
        BY <3>1, <3>2
    <2> HIDE DEF new
    <2>10. DynamoHolds'
      BY <2>1, <2>9 DEF DynamoHolds
    <2>11. keeper.name \notin ListStores /\ keeper.name \notin TableStores
      BY DEF TableStores, ListStores
    <2>12. QED
      BY <1>1, <2>1, <2>10, <2>11, Won
  <1>4. QED
    BY <1>2, <1>3

\* Which store writes in which way.
LEMMA WritesAs ==
  ASSUME NEW p \in Process, Steps!Writes(p)
  PROVE  \/ keeper.name \in TableStores /\ Steps!Inline(p)
         \/ keeper.name \in ListStores /\ (Steps!Counted(p) \/ Steps!TakeIndex(p) \/ Steps!Push(p))
         \/ keeper.name = "dynamodb" /\ (Steps!QueryLast(p) \/ Steps!PutItem(p))
  BY DEF TableStores, ListStores, Steps!Is, Steps!Writes, Steps!SqliteTrace, Steps!AioSqliteTrace,
         Steps!LibsqlTrace, Steps!AioLibsqlTrace, Steps!RqliteTrace, Steps!AioRqliteTrace,
         Steps!PostgresTrace, Steps!AioPostgresTrace, Steps!DictTrace, Steps!AioDictTrace,
         Steps!RedisTrace, Steps!AioRedisTrace, Steps!MongoTrace, Steps!AioMongoTrace,
         Steps!DynamoTrace, Steps!AioDynamoTrace

LEMMA ReadsAs ==
  ASSUME Steps!ReadTrace
  PROVE  Steps!Shows /\ keeper.name \in TableStores \cup ListStores \cup {"dynamodb"}
  BY DEF TableStores, ListStores, Steps!Is, Steps!ReadTrace, Steps!SqliteRead, Steps!AioSqliteRead,
         Steps!LibsqlRead, Steps!AioLibsqlRead, Steps!RqliteRead, Steps!AioRqliteRead,
         Steps!PostgresRead, Steps!AioPostgresRead, Steps!DynamoRead, Steps!AioDynamoRead,
         Steps!DictRead, Steps!AioDictRead, Steps!RedisRead, Steps!AioRedisRead, Steps!MongoRead,
         Steps!AioMongoRead

LEMMA ReadKeeps ==
  ASSUME LineInv, keeper' = keeper, Steps!ReadTrace
  PROVE  LineInv'
  <1>1. /\ shown' = {trace} /\ UNCHANGED <<version, trace, next, writer, steps>>
        /\ keeper.name \in TableStores \cup ListStores \cup {"dynamodb"}
    BY ReadsAs DEF Steps!Shows
  <1>2. StepsRise' /\ WritersOK'
    BY <1>1 DEF LineInv, StepsRise, WritersOK
  <1>3. RowsHold'
    BY <1>1 DEF LineInv, RowsHold, TableHolds, ListHolds, DynamoHolds, Ahead
  <1>4. ShownHolds'
    BY <1>1 DEF ShownHolds
  <1>5. QED
    BY <1>2, <1>3, <1>4 DEF LineInv

LEMMA LineKept ==
  ASSUME LineInv, [MCNext]_<<look, vars, list, line, hearts, releases>>
  PROVE  LineInv'
  <1>1. CASE Steps!Next
    <2>1. keeper' = keeper
      BY <1>1 DEF Steps!Next
    <2>2. CASE Steps!ReadTrace
      BY <2>1, <2>2, ReadKeeps
    <2>3. CASE ~Steps!ReadTrace
      <3>1. PICK p \in Process : \/ Steps!Writes(p) \/ Steps!Saves(p) \/ Steps!Stops(p)
                                 \/ Steps!Loads(p) /\ UNCHANGED steps
        BY <1>1, <2>3 DEF Steps!Next
      <3>2. shown' = {}
        BY <1>1, <2>3 DEF Steps!Next
      <3>3. CASE Steps!Writes(p)
        BY <2>1, <3>2, <3>3, WritesAs, InlineKeeps, CountedKeeps, TakeIndexKeeps, PushKeeps,
           QueryLastKeeps, PutItemKeeps
      <3>4. CASE Steps!Saves(p) \/ Steps!Stops(p)
        <4>1. /\ Steps!Become(p, Steps!Idle) /\ UNCHANGED <<trace, steps, next>>
              /\ version' \in {version, version + 1}
          BY <3>4 DEF Steps!Saves, Steps!Stops
        <4>2. QED
          BY <2>1, <3>2, <4>1, LetsGo
      <3>5. QED
        BY <2>1, <3>1, <3>2, <3>3, <3>4, LoadsKeeps
    <2>4. QED
      BY <2>2, <2>3
  <1>2. CASE UNCHANGED line
    <2>1. UNCHANGED <<keeper, version, trace, next, writer, shown, steps>>
      BY <1>2 DEF line
    <2>2. StepsRise' /\ WritersOK' /\ ShownHolds'
      BY <2>1 DEF LineInv, StepsRise, WritersOK, ShownHolds
    <2>3. RowsHold'
      BY <2>1 DEF LineInv, RowsHold, TableHolds, ListHolds, DynamoHolds, Ahead
    <2>4. QED
      BY <2>2, <2>3 DEF LineInv
  <1>3. QED
    BY <1>1, <1>2 DEF MCNext

LEMMA NewestSteps ==
  ASSUME NEW log1 \in Seq(Nat)
  PROVE  Steps!Range(Steps!Newest(log1, Ring))
         = {log1[i] : i \in {k \in 1 .. Len(log1) : Ring > 0 => k + Ring > Len(log1)}}
  <1> DEFINE n == Len(log1)
             last == {k \in 1 .. n : Ring > 0 => k + Ring > n}
  <1>1. n \in Nat /\ Ring \in Nat /\ DOMAIN log1 = 1 .. n
    BY RingNat
  <1>2. CASE Ring > 0 /\ n > Ring
    <2> DEFINE m == n - Ring + 1
               cut == SubSeq(log1, m, n)
    <2>1. m \in Int /\ n \in Int /\ m <= n /\ n - m + 1 = Ring
      BY <1>1, <1>2
    <2>2. \A i \in m .. n : log1[i] \in Nat
      BY <1>1, <1>2, ElementOfSeq
    <2> HIDE DEF m
    <2>3. /\ cut \in Seq(Nat) /\ Len(cut) = IF m <= n THEN n - m + 1 ELSE 0
          /\ \A i \in 1 .. n - m + 1 : cut[i] = log1[m + i - 1]
      BY <2>1, <2>2, SubSeqProperties
    <2>4. Steps!Newest(log1, Ring) = cut
      BY <1>2 DEF Steps!Newest, m
    <2>5. DOMAIN cut = 1 .. Ring /\ \A i \in 1 .. Ring : cut[i] = log1[m + i - 1]
      <3>1. Len(cut) = Ring
        BY <2>1, <2>3
      <3>2. QED
        BY <2>1, <2>3, <3>1
    <2> HIDE DEF cut
    <2>6. \A i \in 1 .. Ring : m + i - 1 \in last
      BY <1>1, <1>2 DEF m
    <2>7. \A k \in last : k - m + 1 \in 1 .. Ring /\ m + (k - m + 1) - 1 = k
      BY <1>1, <1>2 DEF m
    <2>8. {cut[i] : i \in 1 .. Ring} = {log1[k] : k \in last}
      BY <2>5, <2>6, <2>7
    <2>9. QED
      BY <2>4, <2>5, <2>8 DEF Steps!Range
  <1>3. CASE ~(Ring > 0 /\ n > Ring)
    <2>1. Steps!Newest(log1, Ring) = log1
      BY <1>3 DEF Steps!Newest
    <2>2. last = 1 .. n
      BY <1>1, <1>3
    <2>3. QED
      BY <1>1, <2>1, <2>2 DEF Steps!Range
  <1>4. QED
    BY <1>2, <1>3

LEMMA LineIsTrue ==
  ASSUME LineInv
  PROVE  TimelineTrue
  <1> DEFINE n == Len(steps)
             last == {k \in 1 .. n : Ring > 0 => k + Ring > n}
  <1>1. n \in Nat /\ Ring \in Nat /\ steps \in Seq(Nat) /\ Steps!Range(Steps!Newest(steps, Ring)) = {steps[k] : k \in last}
    BY RingNat, NewestSteps DEF LineInv, StepsRise
  <1>2. \A i, j \in 1 .. n : i < j => steps[i] < steps[j]
    BY DEF LineInv, StepsRise
  <1>3. CASE TableHolds
    <2>1. \A i \in Window(n) : i \in Nat /\ i + 1 \in last /\ i + 1 \in 1 .. n
      BY <1>1 DEF Window
    <2>2. \A k \in last : k - 1 \in Window(n) /\ (k - 1) + 1 = k
      BY <1>1 DEF Window
    <2>3. DOMAIN trace = Window(n) /\ \A i \in Window(n) : trace[i].step = steps[i + 1] /\ trace[i].idx = i
      BY <1>3 DEF TableHolds
    <2>4. Steps!StepsOf(trace) = {steps[k] : k \in last}
      <3>1. ASSUME NEW x \in Steps!StepsOf(trace) PROVE x \in {steps[k] : k \in last}
        <4>1. PICK i \in Window(n) : x = steps[i + 1]
          BY <2>3, <3>1 DEF Steps!StepsOf
        <4>2. QED
          BY <2>1, <4>1
      <3>2. ASSUME NEW k \in last PROVE steps[k] \in Steps!StepsOf(trace)
        <4>1. k - 1 \in DOMAIN trace /\ trace[k - 1].step = steps[k]
          BY <2>2, <2>3
        <4>2. QED
          BY <4>1 DEF Steps!StepsOf
      <3>3. QED
        BY <3>1, <3>2
    <2>5. ASSUME NEW i \in DOMAIN trace, NEW j \in DOMAIN trace, i < j
          PROVE  trace[i].step < trace[j].step /\ trace[i].idx < trace[j].idx
      <3>1. i + 1 < j + 1
        BY <2>1, <2>3, <2>5
      <3>2. QED
        BY <1>2, <2>1, <2>3, <2>5, <3>1
    <2>6. QED
      BY <1>1, <2>4, <2>5 DEF LineInv, ShownHolds, RowsHold, TimelineTrue, Steps!TimelineTrue, DynamoHolds, Steps!StepsOf
  <1>4. CASE ListHolds
    <2> DEFINE m == Len(trace)
    <2>1. m \in Nat /\ m = Size(n) /\ m <= n /\ DOMAIN trace = 1 .. m
      BY <1>1, <1>4 DEF ListHolds, Size
    <2>2. \A i \in 1 .. m : trace[i].step = steps[n - m + i]
      BY <1>4 DEF ListHolds
    <2>3. last = n - m + 1 .. n
      <3>1. CASE Ring > 0 /\ n > Ring
        BY <1>1, <2>1, <3>1 DEF Size
      <3>2. CASE ~(Ring > 0 /\ n > Ring)
        <4>1. m = n /\ n - m + 1 = 1
          BY <1>1, <2>1, <3>2 DEF Size
        <4>2. last = 1 .. n
          BY <1>1, <3>2
        <4>3. QED
          BY <4>1, <4>2
      <3>3. QED
        BY <3>1, <3>2
    <2>4. /\ \A i \in 1 .. m : n - m + i \in last /\ n - m + i \in 1 .. n
          /\ \A k \in last : k - (n - m) \in 1 .. m /\ n - m + (k - (n - m)) = k
      <3> HIDE DEF m, n, last
      <3>1. m \in Nat /\ n \in Nat /\ m <= n
        BY <1>1, <2>1
      <3>2. QED
        BY <2>3, <3>1
    <2>5. Steps!StepsOf(trace) = {steps[k] : k \in last}
      <3>1. ASSUME NEW x \in Steps!StepsOf(trace) PROVE x \in {steps[k] : k \in last}
        <4>1. PICK i \in 1 .. m : x = steps[n - m + i]
          BY <2>1, <2>2, <3>1 DEF Steps!StepsOf
        <4>2. QED
          BY <2>4, <4>1
      <3>2. ASSUME NEW k \in last PROVE steps[k] \in Steps!StepsOf(trace)
        <4>1. k - (n - m) \in DOMAIN trace /\ trace[k - (n - m)].step = steps[k]
          BY <2>1, <2>2, <2>4
        <4>2. QED
          BY <4>1 DEF Steps!StepsOf
      <3>3. QED
        BY <3>1, <3>2
    <2>6. ASSUME NEW i \in 1 .. m, NEW j \in 1 .. m, i < j
          PROVE  trace[i].step < trace[j].step /\ trace[i].idx < trace[j].idx
      <3>1. n - m + i < n - m + j
        BY <1>1, <2>1, <2>6
      <3>2. trace[i].step < trace[j].step
        BY <1>2, <2>2, <2>4, <3>1
      <3>3. trace[i].idx < trace[j].idx
        BY <1>4, <2>6 DEF ListHolds
      <3>4. QED
        BY <3>2, <3>3
    <2>7. QED
      BY <1>1, <2>1, <2>5, <2>6 DEF LineInv, ShownHolds, RowsHold, TimelineTrue, Steps!TimelineTrue, DynamoHolds, Steps!StepsOf
  <1>5. CASE keeper.name = "dynamodb"
    BY <1>5 DEF LineInv, ShownHolds, RowsHold, DynamoHolds, TimelineTrue, Steps!TimelineTrue, Steps!StepsOf
  <1>6. QED
    <2>1. CASE keeper.name \in TableStores \cup ListStores \cup {"dynamodb"}
      BY <1>3, <1>4, <1>5, <2>1 DEF LineInv, RowsHold
    <2>2. CASE keeper.name \notin TableStores \cup ListStores \cup {"dynamodb"}
      BY <2>2 DEF LineInv, ShownHolds, TimelineTrue, Steps!TimelineTrue
    <2>3. QED
      BY <2>1, <2>2

\* read_trace of every store (the monitor's timeline): the last Ring steps that were committed, in the
\* order of their commits, though an index may be taken by a commit that loses and the stores find it in
\* three different ways; on dynamodb, no step of a commit that lost.
THEOREM TimelineIsTrue == MCSpec => []TimelineTrue
  <1>1. LineInv /\ [MCNext]_<<look, vars, list, line, hearts, releases>> => LineInv'
    BY LineKept
  <1>2. LineInv => TimelineTrue
    BY LineIsTrue
  <1>3. QED
    BY LineInit, <1>1, <1>2, PTL DEF MCSpec
-----------------------------------------------------------------------------
(***************************************************************************)
(* The pages of a listing, and the purge that follows them                 *)
(***************************************************************************)

Job == [phase : {"off", "paging", "scanned", "deleting", "loaded", "done", "stopped"}, offset : Nat,
        unscanned : SUBSET Id, keys : SUBSET Id, candidates : Seq(Id), skipped : Nat, copy : Nat,
        purged : SUBSET Id, refused : SUBSET Id, cap : Nat, undated : BOOLEAN, dry : BOOLEAN]

ListTyped == /\ table \in [Id -> [kind : Many!Kind, ver : Nat]] /\ job \in Job
             /\ steady \subseteq Root

\* What an offset counts: documents on mongo, and what matches on the others.
Present == {x \in Id : table[x].kind # "absent"}
Counts == IF store.name = "mongo" THEN Present ELSE Many!Matching

\* A root that a page still to come will have.
Coming(x) == IF store.name = "redis"
             THEN job.phase \in {"paging", "scanned"} /\ x \in job.unscanned \cup job.keys
             ELSE job.phase = "paging" /\ Many!Place(x, Counts) >= job.offset

InCandidates(x) == \E i \in 1 .. Len(job.candidates) : job.candidates[i] = x

Accounted(x) == \/ x \in job.purged \/ InCandidates(x) \/ Coming(x)
                \/ shrunk /\ store.name # "redis"

Stands(x) == table[x].kind = "old" \/ (table[x].kind = "absent" /\ x \in job.purged)

\* The candidate that was loaded is still as it was, if it was old all the time.
Checked == job.phase = "loaded" =>
  /\ job.candidates # <<>>
  /\ Head(job.candidates) \in steady =>
       table[Head(job.candidates)].kind = "old" /\ table[Head(job.candidates)].ver = job.copy

ListInv == /\ ListTyped /\ Checked
           /\ \A x \in steady : Stands(x)
           /\ job.cap = 0 /\ ~job.dry => \A x \in steady : Accounted(x)
           /\ job.phase = "done" => job.candidates = <<>>
           /\ job.phase = "scanned" => store.name = "redis"
           /\ job.phase = "paging" => job.keys = {}

LEMMA CardinalityIs ==
  \A S : Many!Cardinality(S) = Cardinality(S) /\ (Many!IsFiniteSet(S) <=> IsFiniteSet(S))
  BY DEF Many!Cardinality, Cardinality, Many!IsFiniteSet, IsFiniteSet

LEMMA IdsAre ==
  /\ IsFiniteSet(Id) /\ Id \subseteq Nat /\ Root \subseteq Id /\ Limit \in Nat \ {0}
  /\ Cardinality(Id) \in Nat
  <1>1. IsFiniteSet(Id) /\ Id = 1 .. Cardinality(Id) /\ Root \subseteq Id /\ Limit \in Nat \ {0}
    BY InstanceAssumption, CardinalityIs DEF Many!ListingAssumption
  <1>2. Cardinality(Id) \in Nat
    BY <1>1, FS_CardinalityType
  <1>3. QED
    BY <1>1, <1>2

\* The order of the listing is total, and a place is below the number of those that are listed.
LEMMA PlaceIs ==
  ASSUME NEW S \in SUBSET Id, NEW x \in S
  PROVE  /\ IsFiniteSet(S) /\ Cardinality(S) \in Nat /\ Many!Place(x, S) \in Nat
         /\ Many!Place(x, S) < Cardinality(S)
  <1> DEFINE before == {y \in S : Many!Before(y, x)}
  <1>1. IsFiniteSet(S) /\ Cardinality(S) \in Nat
    BY IdsAre, FS_Subset, FS_CardinalityType
  <1>2. IsFiniteSet(S \ {x}) /\ Cardinality(S \ {x}) = Cardinality(S) - 1
    BY <1>1, FS_RemoveElement
  <1>3. x \notin before
    BY IdsAre DEF Many!Before
  <1>4. before \in SUBSET (S \ {x})
    BY <1>3
  <1>5. IsFiniteSet(before) /\ Cardinality(before) <= Cardinality(S \ {x})
    BY <1>2, <1>4, FS_Subset
  <1>6. Cardinality(before) \in Nat
    BY <1>5, FS_CardinalityType
  <1>7. Many!Place(x, S) = Cardinality(before)
    BY CardinalityIs DEF Many!Place
  <1> HIDE DEF before
  <1>8. QED
    BY <1>1, <1>2, <1>5, <1>6, <1>7

LEMMA PlaceRises ==
  ASSUME NEW S \in SUBSET Id, NEW x \in S, NEW y \in S, Many!Before(x, y)
  PROVE  Many!Place(x, S) < Many!Place(y, S)
  <1> DEFINE before(z) == {u \in S : Many!Before(u, z)}
  <1>1. IsFiniteSet(S) /\ IsFiniteSet(before(x)) /\ IsFiniteSet(before(y))
    BY IdsAre, FS_Subset
  <1>2. x \notin before(x)
    BY IdsAre DEF Many!Before
  <1>3. before(x) \cup {x} \in SUBSET before(y)
    <2>1. x \in Nat /\ y \in Nat /\ \A u \in S : u \in Nat
      BY IdsAre
    <2>2. \A u \in S : Many!Before(u, x) => Many!Before(u, y)
      BY <2>1 DEF Many!Before
    <2>3. QED
      BY <2>2
  <1>4. Many!Place(x, S) = Cardinality(before(x)) /\ Many!Place(y, S) = Cardinality(before(y))
    BY CardinalityIs DEF Many!Place
  <1> HIDE DEF before
  <1>5. Cardinality(before(x) \cup {x}) = Cardinality(before(x)) + 1
    BY <1>1, <1>2, FS_AddElement
  <1>6. Cardinality(before(x) \cup {x}) <= Cardinality(before(y))
    BY <1>1, <1>3, FS_Subset
  <1>7. Cardinality(before(x)) \in Nat /\ Cardinality(before(y)) \in Nat
    BY <1>1, FS_CardinalityType
  <1>8. QED
    BY <1>4, <1>5, <1>6, <1>7

\* What joins the list puts nobody nearer to its front.
LEMMA PlaceGrows ==
  ASSUME NEW S \in SUBSET Id, NEW T \in SUBSET Id, S \subseteq T, NEW x
  PROVE  /\ Many!Place(x, S) \in Nat /\ Many!Place(x, T) \in Nat
         /\ Many!Place(x, S) <= Many!Place(x, T)
  <1> DEFINE before(R) == {u \in R : Many!Before(u, x)}
  <1>1. IsFiniteSet(before(S)) /\ IsFiniteSet(before(T))
    BY IdsAre, FS_Subset
  <1>2. before(S) \in SUBSET before(T)
    OBVIOUS
  <1>3. Many!Place(x, S) = Cardinality(before(S)) /\ Many!Place(x, T) = Cardinality(before(T))
    BY CardinalityIs DEF Many!Place
  <1> HIDE DEF before
  <1>4. QED
    BY <1>1, <1>2, <1>3, FS_Subset, FS_CardinalityType

LEMMA SortedIs ==
  ASSUME NEW S \in SUBSET Id
  PROVE  /\ Many!Sorted(S) \in Seq(S) /\ Len(Many!Sorted(S)) = Cardinality(S) /\ Cardinality(S) \in Nat
         /\ \A x \in S : /\ Many!Place(x, S) + 1 \in 1 .. Cardinality(S)
                         /\ Many!Sorted(S)[Many!Place(x, S) + 1] = x
  <1> DEFINE n == Cardinality(S)
             f == [x \in S |-> Many!Place(x, S)]
             T == 0 .. n - 1
  <1>1. IsFiniteSet(S) /\ n \in Nat
    BY IdsAre, FS_Subset, FS_CardinalityType
  <1>2. \A x \in S : Many!Place(x, S) \in T
    BY <1>1, PlaceIs
  <1>3. ASSUME NEW x \in S, NEW y \in S, Many!Place(x, S) = Many!Place(y, S) PROVE x = y
    <2>1. ~Many!Before(x, y) /\ ~Many!Before(y, x)
      <3>1. Many!Place(x, S) \in Nat
        BY PlaceIs
      <3>2. QED
        BY <1>3, <3>1, PlaceRises
    <2>2. QED
      BY <2>1, IdsAre DEF Many!Before
  <1>4. f \in Injection(S, T)
    BY <1>2, <1>3 DEF Injection, IsInjective
  <1>5. IsFiniteSet(T) /\ Cardinality(T) = n
    <2>1. 0 \in Int /\ n - 1 \in Int
      BY <1>1
    <2>2. QED
      BY <1>1, <2>1, FS_Interval
  <1>6. f \in Surjection(S, T)
    BY <1>4, <1>5, FS_Injection
  <1>7. \A i \in 1 .. n : i - 1 \in T
    BY <1>1
  <1>8. \A t \in T : \E x \in S : Many!Place(x, S) = t
    BY <1>6 DEF Surjection
  <1>9. \A i \in 1 .. n : \E x \in S : Many!Place(x, S) = i - 1
    BY <1>7, <1>8
  <1>10. Many!Sorted(S) \in [1 .. n -> S]
    BY <1>9, CardinalityIs DEF Many!Sorted
  <1>11. Many!Sorted(S) \in Seq(S) /\ Len(Many!Sorted(S)) = n
    BY <1>1, <1>10
  <1>12. ASSUME NEW x \in S
         PROVE  Many!Place(x, S) + 1 \in 1 .. n /\ Many!Sorted(S)[Many!Place(x, S) + 1] = x
    <2> DEFINE k == Many!Place(x, S) + 1
    <2>1. Many!Place(x, S) \in Nat /\ k \in 1 .. n /\ k - 1 = Many!Place(x, S)
      BY <1>1, <1>2
    <2>2. Many!Sorted(S)[k] = CHOOSE y \in S : Many!Place(y, S) = k - 1
      BY <2>1, CardinalityIs DEF Many!Sorted
    <2>3. QED
      BY <1>3, <2>1, <2>2
  <1>13. QED
    BY <1>1, <1>11, <1>12

LEMMA CutIs ==
  ASSUME NEW T, NEW s1 \in Seq(T), NEW off \in Nat, NEW n \in Nat
  PROVE  /\ Many!Cut(s1, off, n) \in Seq(T) /\ Len(Many!Cut(s1, off, n)) \in Nat
         /\ off < Len(s1) => Len(Many!Cut(s1, off, n)) = IF off + n < Len(s1) THEN n ELSE Len(s1) - off
         /\ \A i \in 1 .. Len(s1) : off < i /\ i <= off + n =>
              i - off \in 1 .. Len(Many!Cut(s1, off, n)) /\ Many!Cut(s1, off, n)[i - off] = s1[i]
  <1> DEFINE e == IF off + n < Len(s1) THEN off + n ELSE Len(s1)
             b == off + 1
             cut == SubSeq(s1, b, e)
  <1>1. Len(s1) \in Nat /\ e \in Nat /\ b \in Nat /\ e <= Len(s1) /\ e \in Int /\ b \in Int /\ b = off + 1
    OBVIOUS
  <1>2. Many!Cut(s1, off, n) = cut
    BY DEF Many!Cut
  <1>3. /\ off < Len(s1) => e - b + 1 = (IF off + n < Len(s1) THEN n ELSE Len(s1) - off) /\ b <= e + 1
        /\ \A i \in 1 .. Len(s1) : off < i /\ i <= off + n => b <= i /\ i <= e
    BY <1>1
  <1> HIDE DEF e, b
  <1>4. \A i \in b .. e : s1[i] \in T
    <2>1. \A i \in b .. e : i \in 1 .. Len(s1)
      BY <1>1
    <2>2. QED
      BY <2>1, ElementOfSeq
  <1>5. /\ cut \in Seq(T) /\ Len(cut) = IF b <= e THEN e - b + 1 ELSE 0
        /\ \A i \in 1 .. e - b + 1 : cut[i] = s1[b + i - 1]
    BY <1>1, <1>4, SubSeqProperties
  <1> HIDE DEF cut
  <1>6. Len(cut) \in Nat /\ (b <= e => Len(cut) = e - b + 1) /\ (b = e + 1 => Len(cut) = e - b + 1)
    BY <1>1, <1>5
  <1>7. ASSUME NEW i \in 1 .. Len(s1), off < i, i <= off + n
        PROVE  i - off \in 1 .. Len(cut) /\ cut[i - off] = s1[i]
    <2>1. b <= i /\ i <= e
      BY <1>3, <1>7
    <2>2. b <= e /\ i - off \in 1 .. e - b + 1 /\ b + (i - off) - 1 = i
      BY <1>1, <1>7, <2>1
    <2>3. QED
      BY <1>5, <1>6, <2>2
  <1>8. off < Len(s1) => Len(cut) = IF off + n < Len(s1) THEN n ELSE Len(s1) - off
    <2> SUFFICES ASSUME off < Len(s1) PROVE Len(cut) = IF off + n < Len(s1) THEN n ELSE Len(s1) - off
      OBVIOUS
    <2>1. b <= e \/ b = e + 1
      BY <1>1, <1>3
    <2>2. QED
      BY <1>3, <1>6, <2>1
  <1>9. QED
    BY <1>2, <1>5, <1>6, <1>7, <1>8

\* A page leaves nothing out between its offset and that of the next.
Covers(page) ==
  /\ page.items \subseteq Id /\ page.offset \in Nat
  /\ \A x \in Many!Matching : Many!Place(x, Counts) >= job.offset =>
       \/ x \in page.items
       \/ page.more /\ Many!Place(x, Counts) >= page.offset

\* What SQL's extra row is for: a page says that there are more exactly when there are.
LEMMA QueryCovers ==
  ASSUME ListTyped, store.name # "mongo"
  PROVE  Covers(Many!ListingPage(Many!Query(job.offset), job.offset))
  <1> DEFINE M == Many!Matching
             off == job.offset
             all == Many!Sorted(M)
             rows == Many!Query(off)
             first == Many!Cut(rows, 0, Limit)
             page == Many!ListingPage(rows, off)
             some == Limit + 1
  <1>1. off \in Nat /\ Limit \in Nat /\ Limit > 0 /\ some \in Nat /\ some = Limit + 1 /\ 0 \in Nat
    BY IdsAre DEF ListTyped, Job
  <1>2. M \in SUBSET Id /\ Counts = M
    BY DEF Many!Matching, Counts
  <1>3. /\ all \in Seq(M) /\ Len(all) \in Nat
        /\ \A x \in M : Many!Place(x, M) + 1 \in 1 .. Len(all) /\ all[Many!Place(x, M) + 1] = x
    BY <1>2, SortedIs
  <1>4. rows = Many!Cut(all, off, some)
    BY DEF Many!Query
  <1> HIDE DEF all, M, off, some
  <1>5. /\ rows \in Seq(M) /\ Len(rows) \in Nat
        /\ off < Len(all) => Len(rows) = IF off + some < Len(all) THEN some ELSE Len(all) - off
        /\ \A i \in 1 .. Len(all) : off < i /\ i <= off + some =>
             i - off \in 1 .. Len(rows) /\ rows[i - off] = all[i]
    <2>1. /\ Many!Cut(all, off, some) \in Seq(M) /\ Len(Many!Cut(all, off, some)) \in Nat
          /\ off < Len(all) => Len(Many!Cut(all, off, some)) = IF off + some < Len(all) THEN some ELSE Len(all) - off
          /\ \A i \in 1 .. Len(all) : off < i /\ i <= off + some =>
               i - off \in 1 .. Len(Many!Cut(all, off, some)) /\ Many!Cut(all, off, some)[i - off] = all[i]
      <3>1. all \in Seq(M) /\ off \in Nat /\ some \in Nat
        BY <1>1, <1>3
      <3>2. QED
        BY <3>1, CutIs, Zenon
    <2>2. QED
      BY <1>4, <2>1
  <1> HIDE DEF rows
  <1>6. /\ first \in Seq(M) /\ Len(first) \in Nat
        /\ \A i \in 1 .. Len(rows) : 0 < i /\ i <= 0 + Limit =>
             i - 0 \in 1 .. Len(first) /\ first[i - 0] = rows[i]
    <2>1. Limit \in Nat /\ 0 \in Nat /\ rows \in Seq(M)
      BY <1>1, <1>5
    <2>2. QED
      BY <2>1, CutIs, Zenon
  <1>7. /\ Len(rows) > Limit => page = [items |-> Many!Range(first), more |-> TRUE, offset |-> off + Limit]
        /\ ~(Len(rows) > Limit) => page = [items |-> Many!Range(rows), more |-> FALSE, offset |-> 0]
    BY DEF Many!ListingPage, Many!Page, Many!LastPage
  <1> HIDE DEF first, page
  <1>8. Many!Range(first) \subseteq M /\ Many!Range(rows) \subseteq M
    BY <1>5, <1>6 DEF Many!Range
  <1>9. /\ \A i \in 1 .. Len(first) : first[i] \in Many!Range(first)
        /\ \A i \in 1 .. Len(rows) : rows[i] \in Many!Range(rows)
    BY <1>5, <1>6 DEF Many!Range
  <1>10. page.items \subseteq Id /\ page.offset \in Nat
    <2>1. Many!Range(first) \subseteq Id /\ Many!Range(rows) \subseteq Id
      BY <1>2, <1>8
    <2>2. off + Limit \in Nat
      BY <1>1
    <2>3. CASE Len(rows) > Limit
      BY <1>7, <2>1, <2>2, <2>3
    <2>4. CASE ~(Len(rows) > Limit)
      BY <1>7, <2>1, <2>4
    <2>5. QED
      BY <2>3, <2>4
  <1>11. ASSUME NEW x \in M, Many!Place(x, M) >= off
         PROVE  x \in page.items \/ (page.more /\ Many!Place(x, M) >= page.offset)
    <2> DEFINE i == Many!Place(x, M) + 1
    <2>1. Many!Place(x, M) \in Nat
      BY <1>2, PlaceIs
    <2>2. i \in 1 .. Len(all) /\ all[i] = x /\ off < i /\ i \in Nat /\ Many!Place(x, M) = i - 1
      BY <1>1, <1>3, <1>11, <2>1
    <2> HIDE DEF i
    <2>3. CASE i <= off + Limit /\ Len(rows) > Limit
      <3>1. i <= off + some
        BY <1>1, <2>2, <2>3
      <3>2. i - off \in 1 .. Len(rows) /\ rows[i - off] = x
        BY <1>5, <2>2, <3>1
      <3>3. 0 < i - off /\ i - off <= 0 + Limit /\ i - off - 0 = i - off
        BY <1>1, <2>2, <2>3
      <3>4. i - off \in 1 .. Len(first) /\ first[i - off] = x
        BY <1>6, <3>2, <3>3
      <3>5. QED
        BY <1>7, <1>9, <2>3, <3>4
    <2>4. CASE ~(i <= off + Limit) /\ Len(rows) > Limit
      BY <1>1, <1>7, <2>2, <2>4
    <2>5. CASE ~(Len(rows) > Limit)
      <3>1. i <= off + some
        <4> SUFFICES ASSUME ~(i <= off + some) PROVE FALSE
          OBVIOUS
        <4>1. off + some < Len(all) /\ off < Len(all)
          BY <1>1, <1>3, <2>2
        <4>2. Len(rows) = some
          BY <1>5, <4>1
        <4>3. QED
          BY <1>1, <2>5, <4>2
      <3>2. i - off \in 1 .. Len(rows) /\ rows[i - off] = x
        BY <1>5, <2>2, <3>1
      <3>3. QED
        BY <1>7, <1>9, <2>5, <3>2
    <2>6. QED
      BY <2>3, <2>4, <2>5
  <1>12. QED
    BY <1>2, <1>10, <1>11 DEF Covers, page, rows, off, M

LEMMA MatchesCover ==
  ASSUME ListTyped, store.name # "mongo"
  PROVE  Covers(Many!OfMatches(Many!Sorted(Many!Matching), job.offset))
  <1> DEFINE M == Many!Matching
             off == job.offset
             all == Many!Sorted(M)
             rows == Many!Cut(all, off, Limit)
             page == Many!OfMatches(all, off)
  <1>1. off \in Nat /\ Limit \in Nat /\ off + Limit \in Nat
    BY IdsAre DEF ListTyped, Job
  <1>2. M \in SUBSET Id /\ Counts = M
    BY DEF Many!Matching, Counts
  <1>3. /\ all \in Seq(M) /\ Len(all) \in Nat
        /\ \A x \in M : Many!Place(x, M) + 1 \in 1 .. Len(all) /\ all[Many!Place(x, M) + 1] = x
    BY <1>2, SortedIs
  <1>4. /\ off + Limit < Len(all) => page = [items |-> Many!Range(rows), more |-> TRUE, offset |-> off + Limit]
        /\ ~(off + Limit < Len(all)) => page = [items |-> Many!Range(rows), more |-> FALSE, offset |-> 0]
    BY DEF Many!OfMatches, Many!Page, Many!LastPage
  <1> HIDE DEF all, M, off, page
  <1>5. /\ rows \in Seq(M) /\ Len(rows) \in Nat
        /\ \A i \in 1 .. Len(all) : off < i /\ i <= off + Limit =>
             i - off \in 1 .. Len(rows) /\ rows[i - off] = all[i]
    <2>1. all \in Seq(M) /\ off \in Nat /\ Limit \in Nat
      BY <1>1, <1>3
    <2>2. QED
      BY <2>1, CutIs, Zenon
  <1> HIDE DEF rows
  <1>6. Many!Range(rows) \subseteq Id /\ \A i \in 1 .. Len(rows) : rows[i] \in Many!Range(rows)
    BY <1>2, <1>5 DEF Many!Range
  <1>7. page.items = Many!Range(rows) /\ page.offset \in Nat
    BY <1>1, <1>4
  <1>8. ASSUME NEW x \in M, Many!Place(x, M) >= off
        PROVE  x \in page.items \/ (page.more /\ Many!Place(x, M) >= page.offset)
    <2> DEFINE i == Many!Place(x, M) + 1
    <2>1. Many!Place(x, M) \in Nat
      BY <1>2, PlaceIs
    <2>2. i \in 1 .. Len(all) /\ all[i] = x /\ off < i /\ i \in Nat /\ Many!Place(x, M) = i - 1
      BY <1>1, <1>3, <1>8, <2>1
    <2> HIDE DEF i
    <2>3. CASE i <= off + Limit
      BY <1>5, <1>6, <1>7, <2>2, <2>3
    <2>4. CASE ~(i <= off + Limit)
      <3>1. off + Limit < Len(all) /\ i - 1 >= off + Limit
        BY <1>1, <1>3, <2>2, <2>4
      <3>2. QED
        BY <1>4, <2>2, <3>1
    <2>5. QED
      BY <2>3, <2>4
  <1>9. QED
    BY <1>2, <1>6, <1>7, <1>8 DEF Covers, page, all, off, M

\* On mongo the offset counts every document that was looked at.
LEMMA SkippingCovers ==
  ASSUME ListTyped, store.name = "mongo"
  PROVE  Covers(Many!Skipping(job.offset))
  <1> DEFINE off == job.offset
             docs == Many!Documents
             rest == Many!Cut(docs, off, Len(docs))
             upTo(n) == {rest[i] : i \in {k \in 1 .. n : Many!Matches(rest[k])}}
             full == {n \in DOMAIN rest : Cardinality(upTo(n)) = Limit}
             least == CHOOSE n \in full : \A k \in full : n <= k
             page == Many!Skipping(off)
  <1>1. off \in Nat
    BY DEF ListTyped, Job
  <1>2. Present \in SUBSET Id /\ Counts = Present /\ docs = Many!Sorted(Present)
    BY DEF Present, Counts, Many!Documents
  <1>3. /\ docs \in Seq(Present) /\ Len(docs) \in Nat
        /\ \A x \in Present : Many!Place(x, Present) + 1 \in 1 .. Len(docs) /\ docs[Many!Place(x, Present) + 1] = x
    BY <1>2, SortedIs
  <1>4. page = IF full = {} THEN [items |-> upTo(Len(rest)), more |-> FALSE, offset |-> 0]
               ELSE [items |-> upTo(least), more |-> TRUE, offset |-> off + least]
    BY CardinalityIs DEF Many!Skipping, Many!Page, Many!LastPage
  <1> HIDE DEF page, docs, off
  <1>5. /\ rest \in Seq(Present) /\ Len(rest) \in Nat
        /\ \A i \in 1 .. Len(docs) : off < i /\ i <= off + Len(docs) =>
             i - off \in 1 .. Len(rest) /\ rest[i - off] = docs[i]
    <2>1. docs \in Seq(Present) /\ off \in Nat /\ Len(docs) \in Nat
      BY <1>1, <1>3
    <2>2. /\ Many!Cut(docs, off, Len(docs)) \in Seq(Present)
          /\ Len(Many!Cut(docs, off, Len(docs))) \in Nat
          /\ \A i \in 1 .. Len(docs) : off < i /\ i <= off + Len(docs) =>
               /\ i - off \in 1 .. Len(Many!Cut(docs, off, Len(docs)))
               /\ Many!Cut(docs, off, Len(docs))[i - off] = docs[i]
      <3> HIDE DEF rest, upTo, full, least
      <3>1. QED
        BY <2>1, CutIs, Zenon
    <2>3. rest = Many!Cut(docs, off, Len(docs))
      OBVIOUS
    <2>4. QED
      BY <2>2, <2>3, Zenon
  <1> HIDE DEF rest
  <1>6. DOMAIN rest = 1 .. Len(rest) /\ \A i \in 1 .. Len(rest) : rest[i] \in Id
    BY <1>2, <1>5, ElementOfSeq
  <1>7. full \subseteq 1 .. Len(rest)
    BY <1>6
  <1>8. full # {} => least \in full
    <2> HIDE DEF full
    <2>1. SUFFICES ASSUME full # {} PROVE \E n \in full : \A k \in full : n <= k
      OBVIOUS
    <2>2. full \subseteq Nat
      BY <1>5, <1>7
    <2>3. PICK n \in full : \A k \in full : <<k, n>> \notin OpToRel(<, Nat)
      BY <2>1, <2>2, NatLessThanWellFounded, WFMin
    <2>4. \A k \in full : ~ (k < n)
      BY <2>2, <2>3 DEF OpToRel
    <2>5. QED
      BY <2>2, <2>4
  <1>9. full # {} => least \in 1 .. Len(rest)
    BY <1>7, <1>8
  <1> HIDE DEF full, least
  <1>10. ASSUME NEW n \in 0 .. Len(rest) PROVE upTo(n) \subseteq Id
    BY <1>5, <1>6
  <1>11. page.items \subseteq Id /\ page.offset \in Nat
    <2>1. CASE full = {}
      <3>1. Len(rest) \in 0 .. Len(rest)
        BY <1>5
      <3>2. upTo(Len(rest)) \subseteq Id
        BY <1>10, <3>1
      <3>3. QED
        BY <1>4, <2>1, <3>2
    <2>2. CASE full # {}
      <3>1. least \in 0 .. Len(rest) /\ off + least \in Nat
        BY <1>1, <1>5, <1>9, <2>2
      <3>2. upTo(least) \subseteq Id
        BY <1>10, <3>1
      <3>3. QED
        BY <1>4, <2>2, <3>1, <3>2
    <2>3. QED
      BY <2>1, <2>2
  <1>12. ASSUME NEW x \in Many!Matching, Many!Place(x, Present) >= off
         PROVE  x \in page.items \/ (page.more /\ Many!Place(x, Present) >= page.offset)
    <2> DEFINE i == Many!Place(x, Present) + 1
               j == i - off
    <2>1. x \in Present /\ Many!Matches(x)
      BY DEF Present, Many!Matching, Many!Matches
    <2>2. Many!Place(x, Present) \in Nat
      BY <1>2, <2>1, PlaceIs
    <2>3. /\ i \in 1 .. Len(docs) /\ docs[i] = x /\ off < i /\ i <= off + Len(docs)
          /\ i \in Nat /\ Many!Place(x, Present) = i - 1
      <3>1. i \in 1 .. Len(docs) /\ docs[i] = x
        BY <1>3, <2>1
      <3>2. i \in Nat /\ Many!Place(x, Present) = i - 1 /\ i <= Len(docs) /\ i >= off + 1
        BY <1>1, <1>3, <1>12, <2>2, <3>1
      <3> HIDE DEF i
      <3>3. off < i /\ i <= off + Len(docs)
        BY <1>1, <1>3, <3>2
      <3>4. QED
        BY <3>1, <3>2, <3>3
    <2> HIDE DEF i
    <2>4. j \in 1 .. Len(rest) /\ rest[j] = x
      BY <1>5, <2>3
    <2>5. ASSUME NEW n \in Nat, j <= n PROVE x \in upTo(n)
      <3>1. j \in 1 .. n
        BY <1>5, <2>4, <2>5
      <3>2. j \in {k \in 1 .. n : Many!Matches(rest[k])}
        BY <2>1, <2>4, <3>1
      <3>3. QED
        BY <2>4, <3>2
    <2>6. CASE full = {}
      <3>1. j <= Len(rest)
        BY <1>5, <2>4
      <3>2. x \in upTo(Len(rest))
        BY <1>5, <2>5, <3>1
      <3>3. QED
        BY <1>4, <2>6, <3>2
    <2>7. CASE full # {}
      <3>1. least \in Nat /\ page.items = upTo(least) /\ page.offset = off + least /\ page.more
        BY <1>4, <1>5, <1>9, <2>7
      <3>2. CASE j <= least
        BY <2>5, <3>1, <3>2
      <3>3. CASE ~(j <= least)
        <4>1. i - 1 >= off + least
          BY <1>1, <1>5, <2>3, <2>4, <3>1, <3>3
        <4>2. QED
          BY <2>3, <3>1, <4>1
      <3>4. QED
        BY <3>2, <3>3
    <2>8. QED
      BY <2>6, <2>7
  <1>13. QED
    BY <1>2, <1>11, <1>12 DEF Covers, page, off

LEMMA ListStart == MCInit => ListInv
  <1> SUFFICES ASSUME MCInit PROVE ListInv
    OBVIOUS
  <1>1. /\ table \in [Id -> [kind : Many!Kind, ver : {1}]]
        /\ job = Many!Off /\ steady = {} /\ shrunk = FALSE
    BY DEF MCInit, Many!Init
  <1>2. table \in [Id -> [kind : Many!Kind, ver : Nat]]
    BY <1>1
  <1>3. Many!Off \in Job /\ Many!Off.phase = "off" /\ Many!Off.keys = {}
    BY DEF Job, Many!Off
  <1>4. QED
    BY <1>1, <1>2, <1>3 DEF ListInv, ListTyped, Checked

\* What a page adds to the candidates; without a limit none of them is dropped.
LEMMA CandidatesTaken ==
  ASSUME ListTyped, NEW items \in SUBSET Id, NEW more, NEW to \in Job, to.cap = job.cap,
         Many!TakeCandidates(items, more, to)
  PROVE  /\ job' \in Job /\ UNCHANGED <<store, table, steady, shrunk>>
         /\ job'.phase \in {"paging", "deleting"}
         /\ \A f \in {"offset", "unscanned", "keys", "purged", "cap", "dry"} : job'[f] = to[f]
         /\ job.cap = 0 =>
              /\ more => job'.phase = "paging"
              /\ \A x : InCandidates(x) => InCandidates(x)'
              /\ \A x \in items : table[x].kind = "old" => InCandidates(x)'
  <1> DEFINE found == {x \in items : Many!IsCandidate(x)}
             new == Many!Sorted(found)
             all == job.candidates \o new
             enough == job.cap > 0 /\ Len(all) >= job.cap
             kept1 == IF job.cap = 0 THEN all ELSE Many!Cut(all, 0, job.cap)
             more1 == IF more /\ ~enough THEN "paging" ELSE "deleting"
             number == Cardinality({x \in items : Many!IsSkipped(x)})
  <1>1. found \in SUBSET Id /\ job.candidates \in Seq(Id) /\ job.cap \in Nat /\ to.skipped \in Nat
    BY DEF ListTyped, Job
  <1>2. /\ new \in Seq(found)
        /\ \A x \in found : Many!Place(x, found) + 1 \in 1 .. Len(new) /\ new[Many!Place(x, found) + 1] = x
    BY <1>1, SortedIs
  <1>3. new \in Seq(Id) /\ Len(new) \in Nat /\ Len(job.candidates) \in Nat
    BY <1>1, <1>2
  <1>4. number \in Nat
    <2>1. IsFiniteSet({x \in items : Many!IsSkipped(x)})
      BY IdsAre, FS_Subset
    <2>2. QED
      BY <2>1, FS_CardinalityType
  <1>5. /\ job' = [to EXCEPT !.candidates = kept1, !.skipped = to.skipped + number, !.phase = more1]
        /\ UNCHANGED <<store, table, steady, shrunk>>
    BY CardinalityIs DEF Many!TakeCandidates
  <1>6. \A x \in items : table[x].kind = "old" => x \in found
    BY DEF Many!IsCandidate
  <1> HIDE DEF found, new, number
  <1>7. /\ all \in Seq(Id) /\ Len(all) = Len(job.candidates) + Len(new)
        /\ \A i \in 1 .. Len(job.candidates) + Len(new) : all[i] =
             IF i <= Len(job.candidates) THEN job.candidates[i] ELSE new[i - Len(job.candidates)]
    BY <1>1, <1>3, ConcatProperties
  <1> HIDE DEF all
  <1>8. kept1 \in Seq(Id)
    <2>1. 0 \in Nat /\ all \in Seq(Id) /\ job.cap \in Nat
      BY <1>1, <1>7
    <2>2. Many!Cut(all, 0, job.cap) \in Seq(Id)
      BY <2>1, CutIs, Zenon
    <2>3. QED
      BY <1>7, <2>2
  <1>9. /\ job.cap = 0 => kept1 = all /\ (more => more1 = "paging")
        /\ more1 \in {"paging", "deleting"} /\ to.skipped + number \in Nat
    BY <1>1, <1>4
  <1> HIDE DEF kept1, more1
  <1>10. /\ job' \in Job /\ job'.phase = more1 /\ job'.candidates = kept1
         /\ \A f \in {"offset", "unscanned", "keys", "purged", "cap", "dry"} : job'[f] = to[f]
    BY <1>5, <1>8, <1>9 DEF Job
  <1>11. ASSUME job.cap = 0, NEW x, NEW i \in 1 .. Len(all), all[i] = x PROVE InCandidates(x)'
    BY <1>9, <1>10, <1>11 DEF InCandidates
  <1>12. ASSUME job.cap = 0, NEW x, InCandidates(x) PROVE InCandidates(x)'
    <2>1. PICK i \in 1 .. Len(job.candidates) : job.candidates[i] = x
      BY <1>12 DEF InCandidates
    <2>2. i \in 1 .. Len(all) /\ all[i] = x
      BY <1>3, <1>7, <2>1
    <2>3. QED
      BY <1>11, <1>12, <2>2
  <1>13. ASSUME job.cap = 0, NEW x \in items, table[x].kind = "old" PROVE InCandidates(x)'
    <2>1. PICK i \in 1 .. Len(new) : new[i] = x
      BY <1>2, <1>6, <1>13
    <2> DEFINE k == Len(job.candidates) + i
    <2>2. k \in 1 .. Len(job.candidates) + Len(new) /\ ~(k <= Len(job.candidates)) /\ k - Len(job.candidates) = i
      BY <1>3, <2>1
    <2> HIDE DEF k
    <2>3. k \in 1 .. Len(all) /\ all[k] = x
      BY <1>7, <2>1, <2>2
    <2>4. QED
      BY <1>11, <1>13, <2>3
  <1>14. QED
    BY <1>5, <1>9, <1>10, <1>12, <1>13

LEMMA SamePlaces ==
  ASSUME UNCHANGED <<store, table>>
  PROVE  \A x : Many!Place(x, Counts)' = Many!Place(x, Counts)
  BY DEF Counts, Present, Many!Matching, Many!Matches, Many!Place, Many!Before

LEMMA TurnKept ==
  ASSUME ListInv, job.phase = "paging", store.name # "redis", NEW page, Covers(page), Many!Turn(page)
  PROVE  ListInv'
  <1> DEFINE to == [job EXCEPT !.offset = page.offset]
  <1>1. ListTyped /\ to \in Job /\ to.cap = job.cap /\ page.items \in SUBSET Id
    BY DEF ListInv, ListTyped, Job, Covers
  <1>2. Many!TakeCandidates(page.items, page.more, to)
    BY DEF Many!Turn
  <1>3. /\ job' \in Job /\ UNCHANGED <<store, table, steady, shrunk>>
        /\ job'.phase \in {"paging", "deleting"}
        /\ \A f \in {"offset", "unscanned", "keys", "purged", "cap", "dry"} : job'[f] = to[f]
        /\ job.cap = 0 =>
             /\ page.more => job'.phase = "paging"
             /\ \A x : InCandidates(x) => InCandidates(x)'
             /\ \A x \in page.items : table[x].kind = "old" => InCandidates(x)'
    BY <1>1, <1>2, CandidatesTaken
  <1>4. /\ job'.offset = page.offset /\ job'.keys = job.keys /\ job'.purged = job.purged
        /\ job'.cap = job.cap /\ job'.dry = job.dry
    BY <1>1, <1>3 DEF ListTyped, Job
  <1> HIDE DEF to
  <1>5. ListTyped' /\ Checked' /\ (job'.phase = "paging" => job'.keys = {})
    BY <1>3, <1>4 DEF ListInv, ListTyped, Checked
  <1>6. \A x \in steady' : Stands(x)'
    BY <1>3, <1>4 DEF ListInv, Stands
  <1>7. ASSUME job.cap = 0, ~job.dry, NEW x \in steady PROVE Accounted(x)'
    <2>1. Accounted(x) /\ Stands(x) /\ x \in Root
      BY <1>7 DEF ListInv, ListTyped
    <2>2. CASE x \in job.purged \/ (shrunk /\ store.name # "redis")
      BY <1>3, <1>4, <2>2 DEF Accounted
    <2>3. CASE InCandidates(x)
      BY <1>3, <1>7, <2>3 DEF Accounted
    <2>4. CASE Coming(x) /\ table[x].kind = "old"
      <3>1. x \in Many!Matching /\ Many!Place(x, Counts) >= job.offset
        BY <2>1, <2>4, IdsAre DEF Coming, Many!Matching, Many!Matches
      <3>2. CASE x \in page.items
        BY <1>3, <1>7, <2>4, <3>2 DEF Accounted
      <3>3. CASE page.more /\ Many!Place(x, Counts) >= page.offset
        <4>1. Many!Place(x, Counts)' = Many!Place(x, Counts) /\ job'.phase = "paging"
          BY <1>3, <1>7, <3>3, SamePlaces
        <4>2. Coming(x)'
          BY <1>3, <1>4, <3>3, <4>1 DEF Coming
        <4>3. QED
          BY <4>2 DEF Accounted
      <3>4. QED
        BY <3>1, <3>2, <3>3 DEF Covers
    <2>5. QED
      BY <2>1, <2>2, <2>3, <2>4 DEF Accounted, Stands
  <1>8. QED
    BY <1>3, <1>4, <1>5, <1>6, <1>7 DEF ListInv

LEMMA QueriesKept ==
  ASSUME ListInv,
         \/ Many!SqliteList \/ Many!AioSqliteList \/ Many!LibsqlList \/ Many!AioLibsqlList
         \/ Many!RqliteList \/ Many!AioRqliteList \/ Many!PostgresList \/ Many!AioPostgresList
  PROVE  ListInv'
  <1> DEFINE page == Many!ListingPage(Many!Query(job.offset), job.offset)
  <1>1. /\ job.phase = "paging" /\ Many!Turn(page)
        /\ store.name # "redis" /\ store.name # "mongo" /\ ListTyped
    BY DEF ListInv, Many!Asks, Many!SqliteList, Many!AioSqliteList, Many!LibsqlList, Many!AioLibsqlList,
           Many!RqliteList, Many!AioRqliteList, Many!PostgresList, Many!AioPostgresList
  <1>2. Covers(page)
    BY <1>1, QueryCovers
  <1> HIDE DEF page
  <1>3. QED
    BY <1>1, <1>2, TurnKept

LEMMA MatchesKept ==
  ASSUME ListInv,
         Many!DictList \/ Many!AioDictList \/ Many!DynamoList \/ Many!AioDynamoList
  PROVE  ListInv'
  <1> DEFINE page == Many!OfMatches(Many!Sorted(Many!Matching), job.offset)
  <1>1. /\ job.phase = "paging" /\ Many!Turn(page)
        /\ store.name # "redis" /\ store.name # "mongo" /\ ListTyped
    BY DEF ListInv, Many!Asks, Many!DictList, Many!AioDictList, Many!DynamoList, Many!AioDynamoList
  <1>2. Covers(page)
    BY <1>1, MatchesCover
  <1> HIDE DEF page
  <1>3. QED
    BY <1>1, <1>2, TurnKept

LEMMA DocumentsKept ==
  ASSUME ListInv, Many!MongoList \/ Many!AioMongoList
  PROVE  ListInv'
  <1> DEFINE page == Many!Skipping(job.offset)
  <1>1. /\ job.phase = "paging" /\ Many!Turn(page)
        /\ store.name # "redis" /\ store.name = "mongo" /\ ListTyped
    BY DEF ListInv, Many!Asks, Many!MongoList, Many!AioMongoList
  <1>2. Covers(page)
    BY <1>1, SkippingCovers
  <1> HIDE DEF page
  <1>3. QED
    BY <1>1, <1>2, TurnKept

\* What SCAN returns is among its keys, or still to be visited, or not there any more.
LEMMA ScanKept ==
  ASSUME ListInv, store.name = "redis", job.phase = "paging", Many!ScanKeys
  PROVE  ListInv'
  <1>1. PICK now \in SUBSET job.unscanned, again \in SUBSET (Id \ job.unscanned) :
          /\ job' = [job EXCEPT !.phase = "scanned", !.unscanned = @ \ now,
                                !.keys = {x \in now \cup again : table[x].kind # "absent"}]
          /\ UNCHANGED <<store, table, steady, shrunk, changes>>
    BY DEF Many!ScanKeys
  <1>2. job \in Job /\ job.unscanned \subseteq Id
    BY DEF ListInv, ListTyped, Job
  <1> DEFINE found == {x \in now \cup again : table[x].kind # "absent"}
  <1>3. found \subseteq Id
    BY <1>2
  <1>4. \A x \in now : table[x].kind # "absent" => x \in found
    OBVIOUS
  <1>5. /\ job' = [job EXCEPT !.phase = "scanned", !.unscanned = job.unscanned \ now, !.keys = found]
        /\ UNCHANGED <<store, table, steady, shrunk>>
    BY <1>1
  <1> HIDE DEF found
  <1>6. /\ job' \in Job /\ job'.phase = "scanned" /\ job'.keys = found
        /\ job'.unscanned = job.unscanned \ now /\ job'.candidates = job.candidates
        /\ job'.purged = job.purged /\ job'.cap = job.cap /\ job'.dry = job.dry
    BY <1>2, <1>3, <1>5 DEF Job
  <1>7. ASSUME NEW x \in steady, Accounted(x), Stands(x) PROVE Accounted(x)'
    <2>1. CASE x \in job.purged
      BY <1>6, <2>1 DEF Accounted
    <2>2. CASE InCandidates(x)
      BY <1>6, <2>2 DEF Accounted, InCandidates
    <2>3. CASE Coming(x) /\ table[x].kind = "old"
      <3>1. x \in job.unscanned
        BY <2>3 DEF Coming, ListInv
      <3>2. x \in job'.unscanned \cup job'.keys
        BY <1>4, <1>6, <2>3, <3>1
      <3>3. QED
        BY <1>5, <1>6, <3>2 DEF Accounted, Coming
    <2>4. QED
      BY <1>7, <2>1, <2>2, <2>3 DEF Accounted, Stands
  <1>8. QED
    BY <1>5, <1>6, <1>7 DEF ListInv, ListTyped, Checked, Stands

LEMMA ValuesKept ==
  ASSUME ListInv, store.name = "redis", Many!GetValues
  PROVE  ListInv'
  <1> DEFINE items == {x \in job.keys : Many!Matches(x)}
             rest == job.unscanned # {}
             to == [job EXCEPT !.keys = {}]
  <1>1. ListTyped /\ to \in Job /\ to.cap = job.cap /\ items \in SUBSET Id /\ job.phase = "scanned"
    BY DEF ListInv, ListTyped, Job, Many!GetValues
  <1>2. Many!TakeCandidates(items, rest, to)
    BY DEF Many!GetValues
  <1>3. \A x \in job.keys : x \in Root /\ table[x].kind = "old" => x \in items
    BY DEF Many!Matches
  <1> HIDE DEF items
  <1>4. /\ job' \in Job /\ UNCHANGED <<store, table, steady, shrunk>>
        /\ job'.phase \in {"paging", "deleting"}
        /\ \A f \in {"offset", "unscanned", "keys", "purged", "cap", "dry"} : job'[f] = to[f]
        /\ job.cap = 0 =>
             /\ rest => job'.phase = "paging"
             /\ \A x : InCandidates(x) => InCandidates(x)'
             /\ \A x \in items : table[x].kind = "old" => InCandidates(x)'
    BY <1>1, <1>2, CandidatesTaken
  <1>5. /\ job'.unscanned = job.unscanned /\ job'.keys = {} /\ job'.purged = job.purged
        /\ job'.cap = job.cap /\ job'.dry = job.dry
    BY <1>1, <1>4 DEF ListTyped, Job
  <1> HIDE DEF to
  <1>6. ListTyped' /\ Checked' /\ (job'.phase = "paging" => job'.keys = {})
    BY <1>4, <1>5 DEF ListInv, ListTyped, Checked
  <1>7. \A x \in steady' : Stands(x)'
    BY <1>4, <1>5 DEF ListInv, Stands
  <1>8. ASSUME job.cap = 0, ~job.dry, NEW x \in steady PROVE Accounted(x)'
    <2>1. Accounted(x) /\ Stands(x) /\ x \in Root
      BY <1>8 DEF ListInv, ListTyped
    <2>2. CASE x \in job.purged
      BY <1>5, <2>2 DEF Accounted
    <2>3. CASE InCandidates(x)
      BY <1>4, <1>8, <2>3 DEF Accounted
    <2>4. CASE Coming(x) /\ table[x].kind = "old"
      <3>1. CASE x \in job.keys
        BY <1>3, <1>4, <1>8, <2>1, <2>4, <3>1 DEF Accounted
      <3>2. CASE x \in job.unscanned
        <4>1. job'.phase = "paging" /\ x \in job'.unscanned /\ store'.name = "redis"
          BY <1>4, <1>5, <1>8, <3>2
        <4>2. Coming(x)'
          BY <4>1 DEF Coming
        <4>3. QED
          BY <4>2 DEF Accounted
      <3>3. QED
        BY <2>4, <3>1, <3>2 DEF Coming
    <2>5. QED
      BY <2>1, <2>2, <2>3, <2>4 DEF Accounted, Stands
  <1>9. QED
    BY <1>4, <1>5, <1>6, <1>7, <1>8 DEF ListInv

LEMMA BeginKept ==
  ASSUME ListInv, NEW cap \in {0, 1}, NEW undated \in BOOLEAN, NEW dry \in BOOLEAN,
         Many!Begin(cap, undated, dry)
  PROVE  ListInv'
  <1>1. /\ job' = [Many!Off EXCEPT !.phase = "paging", !.cap = cap, !.undated = undated, !.dry = dry]
        /\ steady' = {x \in Root : table[x].kind = "old"}
        /\ UNCHANGED <<store, table, shrunk>>
    BY DEF Many!Begin
  <1>2. /\ job' \in Job /\ job'.phase = "paging" /\ job'.keys = {} /\ job'.unscanned = Id /\ job'.offset = 0
    <2>1. /\ Many!Off \in Job /\ Many!Off.keys = {} /\ Many!Off.unscanned = Id /\ Many!Off.offset = 0
      BY DEF Job, Many!Off
    <2>2. cap \in Nat
      OBVIOUS
    <2>3. QED
      BY <1>1, <2>1, <2>2 DEF Job
  <1>3. ASSUME NEW x \in steady' PROVE Stands(x)' /\ Accounted(x)'
    <2>1. x \in Id /\ table'[x].kind = "old"
      BY <1>1, <1>3, IdsAre
    <2>2. CASE store.name = "redis"
      <3>1. x \in job'.unscanned \cup job'.keys /\ store'.name = "redis"
        BY <1>1, <1>2, <2>1, <2>2
      <3>2. Coming(x)'
        BY <1>2, <3>1 DEF Coming
      <3>3. QED
        BY <2>1, <3>2 DEF Stands, Accounted
    <2>3. CASE store.name # "redis"
      <3>1. Counts \in SUBSET Id
        BY DEF Counts, Present, Many!Matching
      <3>2. Many!Place(x, Counts) \in Nat
        BY <3>1, PlaceGrows
      <3>3. Many!Place(x, Counts)' \in Nat
        BY <1>1, <3>2, SamePlaces
      <3>4. Many!Place(x, Counts)' >= job'.offset
        BY <1>2, <3>3
      <3>5. store'.name # "redis"
        BY <1>1, <2>3
      <3>6. Coming(x)'
        BY <1>2, <3>4, <3>5 DEF Coming
      <3>7. QED
        BY <2>1, <3>6 DEF Stands, Accounted
    <2>4. QED
      BY <2>2, <2>3
  <1>4. QED
    BY <1>1, <1>2, <1>3 DEF ListInv, ListTyped, Checked

\* The candidate at the head has been dealt with: it was deleted or reported, or it was not steady.
LEMMA CandidateDone ==
  ASSUME ListInv, job.phase \in {"deleting", "loaded"}, job.candidates # <<>>,
         NEW before \in Job, before.candidates = job.candidates, before.cap = job.cap, before.dry = job.dry,
         job' = Many!NextCandidate(before), job.purged \subseteq before.purged,
         UNCHANGED <<store, steady, shrunk>>, table' \in [Id -> [kind : Many!Kind, ver : Nat]],
         ~job.dry /\ Head(job.candidates) \in steady => Head(job.candidates) \in before.purged,
         \A x \in steady : Stands(x)'
  PROVE  ListInv'
  <1> DEFINE left == Tail(job.candidates)
  <1>1. /\ job.candidates \in Seq(Id)
    BY DEF ListInv, ListTyped, Job
  <1>2. /\ left \in Seq(Id) /\ Len(left) = Len(job.candidates) - 1
        /\ \A i \in 1 .. Len(left) : left[i] = job.candidates[i + 1]
    BY <1>1, HeadTailProperties
  <1>3. job' = [before EXCEPT !.phase = "deleting", !.candidates = left]
    BY DEF Many!NextCandidate
  <1> HIDE DEF left
  <1>4. /\ job' \in Job /\ job'.phase = "deleting" /\ job'.candidates = left /\ job'.purged = before.purged
        /\ job'.cap = job.cap /\ job'.dry = job.dry
    BY <1>2, <1>3 DEF Job
  <1>5. ASSUME job.cap = 0, ~job.dry, NEW x \in steady PROVE Accounted(x)'
    <2>1. Accounted(x) /\ ~Coming(x)
      BY <1>5 DEF ListInv, Coming
    <2>2. CASE x \in job.purged \/ (shrunk /\ store.name # "redis")
      BY <1>4, <2>2 DEF Accounted
    <2>3. CASE InCandidates(x)
      <3>1. PICK i \in 1 .. Len(job.candidates) : job.candidates[i] = x
        BY <2>3 DEF InCandidates
      <3>2. CASE i = 1
        <4>1. Head(job.candidates) = x
          BY <1>1, <3>1, <3>2
        <4>2. QED
          BY <1>4, <1>5, <4>1 DEF Accounted
      <3>3. CASE i # 1
        <4>1. i - 1 \in 1 .. Len(left) /\ (i - 1) + 1 = i
          BY <1>1, <1>2, <3>1, <3>3
        <4>2. left[i - 1] = x
          BY <1>2, <3>1, <4>1
        <4>3. InCandidates(x)'
          BY <1>4, <4>1, <4>2 DEF InCandidates
        <4>4. QED
          BY <4>3 DEF Accounted
      <3>4. QED
        BY <3>2, <3>3
    <2>4. QED
      BY <2>1, <2>2, <2>3 DEF Accounted
  <1>6. QED
    BY <1>4, <1>5 DEF ListInv, ListTyped, Checked

LEMMA LoadKept ==
  ASSUME ListInv, Many!LoadsCandidate
  PROVE  ListInv'
  <1> DEFINE x == Head(job.candidates)
  <1>1. /\ job.phase = "deleting" /\ job.candidates # <<>> /\ UNCHANGED <<store, table, steady, shrunk>>
        /\ job \in Job /\ table \in [Id -> [kind : Many!Kind, ver : Nat]]
    BY DEF ListInv, ListTyped, Many!LoadsCandidate
  <1>2. x \in Id
    BY <1>1, HeadTailProperties DEF Job
  <1>3. job' = CASE table[x].kind = "absent" -> Many!NextCandidate(job)
                 [] table[x].kind = "live" -> Many!NextCandidate([job EXCEPT !.refused = job.refused \cup {x}])
                 [] table[x].kind \notin {"absent", "live"} /\ job.dry ->
                      Many!NextCandidate([job EXCEPT !.purged = job.purged \cup {x}])
                 [] table[x].kind \notin {"absent", "live"} /\ ~job.dry ->
                      [job EXCEPT !.phase = "loaded", !.copy = table[x].ver]
    BY DEF Many!LoadsCandidate
  <1>4. \A y \in steady : Stands(y)
    BY DEF ListInv
  <1> HIDE DEF x
  <1> DEFINE gone == [job EXCEPT !.refused = job.refused \cup {x}]
             told == [job EXCEPT !.purged = job.purged \cup {x}]
  <1>5. /\ gone \in Job /\ told \in Job
        /\ gone.candidates = job.candidates /\ told.candidates = job.candidates
        /\ gone.cap = job.cap /\ told.cap = job.cap /\ gone.dry = job.dry /\ told.dry = job.dry
        /\ gone.purged = job.purged /\ told.purged = job.purged \cup {x}
    BY <1>1, <1>2 DEF Job
  <1> HIDE DEF gone, told
  <1>6. CASE table[x].kind = "absent"
    <2>1. job' = Many!NextCandidate(job)
      BY <1>3, <1>6
    <2>2. \A y \in steady : Stands(y)'
      <3>1. job'.purged = job.purged
        BY <1>1, <2>1 DEF Many!NextCandidate, Job
      <3>2. QED
        BY <1>1, <1>4, <3>1 DEF Stands
    <2>3. x \in steady => x \in job.purged
      BY <1>4, <1>6 DEF Stands
    <2>4. QED
      BY <1>1, <2>1, <2>2, <2>3, CandidateDone DEF x
  <1>7. CASE table[x].kind = "live"
    <2>1. job' = Many!NextCandidate(gone)
      BY <1>3, <1>7 DEF gone
    <2>2. \A y \in steady : Stands(y)'
      <3>1. job'.purged = job.purged
        BY <1>5, <2>1 DEF Many!NextCandidate, Job
      <3>2. QED
        BY <1>1, <1>4, <3>1 DEF Stands
    <2>3. x \notin steady
      BY <1>4, <1>7 DEF Stands
    <2>4. QED
      BY <1>1, <1>5, <2>1, <2>2, <2>3, CandidateDone DEF x
  <1>8. CASE table[x].kind \notin {"absent", "live"} /\ job.dry
    <2>1. job' = Many!NextCandidate(told)
      BY <1>3, <1>8 DEF told
    <2>2. \A y \in steady : Stands(y)'
      <3>1. job'.purged = job.purged \cup {x}
        BY <1>5, <2>1 DEF Many!NextCandidate, Job
      <3>2. QED
        BY <1>1, <1>4, <3>1 DEF Stands
    <2>3. QED
      BY <1>1, <1>5, <1>8, <2>1, <2>2, CandidateDone DEF x
  <1>9. CASE table[x].kind \notin {"absent", "live"} /\ ~job.dry
    <2>1. job' = [job EXCEPT !.phase = "loaded", !.copy = table[x].ver]
      BY <1>3, <1>9
    <2>2. /\ job' \in Job /\ job'.phase = "loaded" /\ job'.copy = table[x].ver
          /\ job'.candidates = job.candidates /\ job'.purged = job.purged
          /\ job'.cap = job.cap /\ job'.dry = job.dry
      BY <1>1, <1>2, <2>1 DEF Job
    <2>3. x \in steady => table[x].kind = "old"
      BY <1>4, <1>9 DEF Stands
    <2>4. Checked'
      BY <1>1, <2>2, <2>3 DEF Checked, x
    <2>5. ASSUME NEW y \in steady, Accounted(y) PROVE Accounted(y)'
      BY <1>1, <2>2, <2>5 DEF Accounted, InCandidates, Coming
    <2>6. QED
      BY <1>1, <1>4, <2>2, <2>4, <2>5 DEF ListInv, ListTyped, Stands
  <1>10. QED
    BY <1>6, <1>7, <1>8, <1>9

\* What was loaded is deleted if it is still what it was, and a root that is steady is.
LEMMA DeleteKept ==
  ASSUME ListInv, Many!Deletes
  PROVE  ListInv'
  <1> DEFINE x == Head(job.candidates)
             gone == [job EXCEPT !.refused = job.refused \cup {x}]
             told == [job EXCEPT !.purged = job.purged \cup {x}]
  <1>1. /\ job.phase = "loaded" /\ job.candidates # <<>> /\ UNCHANGED <<store, steady, shrunk>>
        /\ job \in Job /\ table \in [Id -> [kind : Many!Kind, ver : Nat]]
    BY DEF ListInv, ListTyped, Checked, Many!Deletes
  <1>2. x \in Id
    BY <1>1, HeadTailProperties DEF Job
  <1>3. IF table[x].kind # "absent" /\ table[x].ver = job.copy
        THEN /\ table' = [table EXCEPT ![x].kind = "absent"]
             /\ job' = Many!NextCandidate(told)
        ELSE job' = Many!NextCandidate(gone) /\ UNCHANGED table
    BY DEF Many!Deletes
  <1>4. \A y \in steady : Stands(y)
    BY DEF ListInv
  <1>5. x \in steady => table[x].kind = "old" /\ table[x].ver = job.copy
    BY <1>1 DEF ListInv, Checked
  <1>6. /\ gone \in Job /\ told \in Job
        /\ gone.candidates = job.candidates /\ told.candidates = job.candidates
        /\ gone.cap = job.cap /\ told.cap = job.cap /\ gone.dry = job.dry /\ told.dry = job.dry
        /\ gone.purged = job.purged /\ told.purged = job.purged \cup {x}
    BY <1>1, <1>2 DEF Job
  <1> HIDE DEF x, gone, told
  <1>7. CASE table[x].kind # "absent" /\ table[x].ver = job.copy
    <2>1. job' = Many!NextCandidate(told) /\ table' = [table EXCEPT ![x].kind = "absent"]
      BY <1>3, <1>7
    <2>2. job'.purged = job.purged \cup {x}
      BY <1>6, <2>1 DEF Many!NextCandidate, Job
    <2>3. /\ table' \in [Id -> [kind : Many!Kind, ver : Nat]]
          /\ table'[x].kind = "absent" /\ \A y \in Id \ {x} : table'[y] = table[y]
      BY <1>1, <1>2, <2>1 DEF Many!Kind
    <2>4. \A y \in steady : Stands(y)'
      <3>1. steady \subseteq Id
        BY IdsAre DEF ListInv, ListTyped
      <3>2. QED
        BY <1>4, <2>2, <2>3, <3>1 DEF Stands
    <2>5. QED
      BY <1>1, <1>6, <2>1, <2>3, <2>4, CandidateDone DEF x
  <1>8. CASE ~(table[x].kind # "absent" /\ table[x].ver = job.copy)
    <2>1. job' = Many!NextCandidate(gone) /\ table' = table
      BY <1>3, <1>8
    <2>2. \A y \in steady : Stands(y)'
      <3>1. job'.purged = job.purged
        BY <1>6, <2>1 DEF Many!NextCandidate, Job
      <3>2. QED
        BY <1>1, <1>4, <2>1, <3>1 DEF Stands
    <2>3. x \notin steady
      BY <1>5, <1>8
    <2>4. QED
      BY <1>1, <1>6, <2>1, <2>2, <2>3, CandidateDone DEF x
  <1>9. QED
    BY <1>7, <1>8

\* What others do to one execution; the list may shrink where an offset is in use only if that is noted.
LEMMA OthersKept ==
  ASSUME ListInv, NEW x \in Id, NEW kind \in Many!Kind, Many!Becomes(x, kind), shrunk => shrunk',
         job.phase = "paging" /\ store.name # "redis" /\ ~shrunk' => Counts \subseteq Counts'
  PROVE  ListInv'
  <1>1. /\ table' = [table EXCEPT ![x] = [kind |-> kind, ver |-> IF kind = "absent" THEN table[x].ver ELSE table[x].ver + 1]]
        /\ steady' = steady \ {x} /\ UNCHANGED <<store, job>>
    BY DEF Many!Becomes
  <1>2. /\ table \in [Id -> [kind : Many!Kind, ver : Nat]] /\ job \in Job
        /\ steady \subseteq Id /\ steady \subseteq Root
    BY IdsAre DEF ListInv, ListTyped
  <1>3. \A y \in steady' : y \in steady /\ y \in Id /\ table'[y] = table[y]
    BY <1>1, <1>2
  <1>4. table' \in [Id -> [kind : Many!Kind, ver : Nat]]
    <2> DEFINE ver == IF kind = "absent" THEN table[x].ver ELSE table[x].ver + 1
    <2>1. ver \in Nat
      BY <1>2
    <2> HIDE DEF ver
    <2>2. table' = [table EXCEPT ![x] = [kind |-> kind, ver |-> ver]]
      BY <1>1 DEF ver
    <2>3. QED
      BY <1>2, <2>1, <2>2
  <1>5. Checked'
    BY <1>1, <1>3 DEF ListInv, Checked
  <1>6. \A y \in steady' : Stands(y)'
    BY <1>1, <1>3 DEF ListInv, Stands
  <1>7. ASSUME NEW y, Coming(y), store.name = "redis" \/ ~shrunk' PROVE Coming(y)'
    <2>1. CASE store.name = "redis"
      BY <1>1, <1>7, <2>1 DEF Coming
    <2>2. CASE store.name # "redis"
      <3>1. job.phase = "paging" /\ Many!Place(y, Counts) >= job.offset /\ job.offset \in Nat
        BY <1>2, <1>7, <2>2 DEF Coming, Job
      <3>2. Counts \subseteq Counts' /\ Counts \in SUBSET Id /\ Counts' \in SUBSET Id
        BY <1>7, <2>2, <3>1 DEF Counts, Present, Many!Matching
      <3>3. PICK T : T = Counts'
        OBVIOUS
      <3>4. /\ Many!Place(y, Counts) \in Nat /\ Many!Place(y, T) \in Nat
            /\ Many!Place(y, Counts) <= Many!Place(y, T)
        BY <3>2, <3>3, PlaceGrows
      <3>5. Many!Place(y, Counts)' = Many!Place(y, T)
        BY <1>1, <3>3 DEF Many!Place, Many!Before
      <3>6. Many!Place(y, Counts)' >= job'.offset
        BY <1>1, <3>1, <3>4, <3>5
      <3>7. QED
        BY <1>1, <2>2, <3>1, <3>6 DEF Coming
    <2>3. QED
      BY <2>1, <2>2
  <1>8. ASSUME job.cap = 0, ~job.dry, NEW y \in steady' PROVE Accounted(y)'
    <2>1. Accounted(y)
      BY <1>3, <1>8 DEF ListInv
    <2>2. CASE y \in job.purged \/ InCandidates(y)
      BY <1>1, <2>2 DEF Accounted, InCandidates
    <2>3. CASE shrunk' /\ store.name # "redis"
      BY <1>1, <2>3 DEF Accounted
    <2>4. CASE Coming(y) /\ (store.name = "redis" \/ ~shrunk')
      BY <1>7, <2>4 DEF Accounted
    <2>5. QED
      BY <2>1, <2>2, <2>3, <2>4 DEF Accounted
  <1>9. QED
    BY <1>1, <1>2, <1>4, <1>5, <1>6, <1>8 DEF ListInv, ListTyped

\* A page is not undone by what joins the list; what leaves it is noted, unless SCAN reads it, or, on
\* mongo, its document stays.
LEMMA ChangesKept ==
  ASSUME ListInv, NEW x \in Id,
         Many!Finishes(x) \/ Many!Creates(x) \/ Many!Revives(x) \/ Many!PurgedByOther(x)
  PROVE  ListInv'
  <1> DEFINE to(kind) == [kind |-> kind, ver |-> IF kind = "absent" THEN table[x].ver ELSE table[x].ver + 1]
  <1>1. table \in [Id -> [kind : Many!Kind, ver : Nat]]
    BY DEF ListInv, ListTyped
  <1>2. ASSUME NEW kind, Many!Becomes(x, kind)
        PROVE  /\ store' = store /\ job' = job /\ table' \in [Id -> {table'[y] : y \in Id}]
               /\ table'[x].kind = kind /\ \A y \in Id \ {x} : table'[y] = table[y]
    <2>1. table' = [table EXCEPT ![x] = to(kind)] /\ to(kind).kind = kind /\ store' = store /\ job' = job
      BY <1>2 DEF Many!Becomes
    <2> HIDE DEF to
    <2>2. QED
      BY <1>1, <2>1
  <1> HIDE DEF to
  <1>3. CASE Many!Finishes(x)
    <2>1. table[x].kind = "live" /\ Many!Becomes(x, "late") /\ shrunk' = shrunk
      BY <1>3 DEF Many!Finishes
    <2>2. store' = store /\ table'[x].kind = "late" /\ \A y \in Id \ {x} : table'[y] = table[y]
      BY <1>2, <2>1
    <2>3. Counts \subseteq Counts'
      BY <2>1, <2>2 DEF Counts, Present, Many!Matching, Many!Matches
    <2>4. QED
      BY <2>1, <2>3, OthersKept DEF Many!Kind
  <1>4. CASE Many!Creates(x)
    <2>1. table[x].kind = "absent" /\ Many!Becomes(x, "live") /\ shrunk' = shrunk
      BY <1>4 DEF Many!Creates
    <2>2. store' = store /\ table'[x].kind = "live" /\ \A y \in Id \ {x} : table'[y] = table[y]
      BY <1>2, <2>1
    <2>3. Counts \subseteq Counts'
      BY <2>1, <2>2 DEF Counts, Present, Many!Matching, Many!Matches
    <2>4. QED
      BY <2>1, <2>3, OthersKept DEF Many!Kind
  <1>5. CASE Many!Revives(x)
    <2>1. /\ table[x].kind \in {"old", "late", "undated"} /\ Many!Becomes(x, "live")
          /\ shrunk => shrunk'
          /\ job.phase = "paging" /\ ~shrunk' => store.name = "mongo"
      BY <1>5 DEF Many!Revives, Many!Paging
    <2>2. store' = store /\ table'[x].kind = "live" /\ \A y \in Id \ {x} : table'[y] = table[y]
      BY <1>2, <2>1
    <2>3. ASSUME store.name = "mongo" PROVE Counts \subseteq Counts'
      BY <2>1, <2>2, <2>3 DEF Counts, Present
    <2>4. QED
      BY <2>1, <2>3, OthersKept DEF Many!Kind
  <1>6. CASE Many!PurgedByOther(x)
    <2>1. /\ Many!Becomes(x, "absent")
          /\ shrunk => shrunk'
          /\ job.phase = "paging" => shrunk'
      BY <1>6 DEF Many!PurgedByOther, Many!Paging
    <2>2. QED
      BY <2>1, OthersKept DEF Many!Kind
  <1>7. QED
    BY <1>3, <1>4, <1>5, <1>6

LEMMA StopKept ==
  ASSUME ListInv, Many!Ends \/ Many!ArchiverStops
  PROVE  ListInv'
  <1>1. PICK phase \in {"done", "stopped"} :
          /\ job' = [job EXCEPT !.phase = phase] /\ UNCHANGED <<store, table, steady, shrunk>>
          /\ phase = "done" => job.candidates = <<>>
          /\ job.phase \in {"deleting", "loaded"}
    BY DEF Many!Ends, Many!ArchiverStops
  <1>2. /\ job' \in Job /\ job'.phase = phase /\ job'.candidates = job.candidates
        /\ job'.purged = job.purged /\ job'.cap = job.cap /\ job'.dry = job.dry
    BY <1>1 DEF ListInv, ListTyped, Job
  <1>3. \A y : Accounted(y) => Accounted(y)'
    BY <1>1, <1>2 DEF Accounted, InCandidates, Coming
  <1>4. QED
    BY <1>1, <1>2, <1>3 DEF ListInv, ListTyped, Checked, Stands

LEMMA ListKept == ListInv /\ [MCNext]_<<look, vars, list, line, hearts, releases>> => ListInv'
  <1> SUFFICES ASSUME ListInv, [MCNext]_<<look, vars, list, line, hearts, releases>> PROVE ListInv'
    OBVIOUS
  <1>1. CASE UNCHANGED list
    BY <1>1 DEF list, ListInv, ListTyped, Checked, Stands, Accounted, InCandidates, Coming, Counts, Present,
                Many!Matching, Many!Matches, Many!Place, Many!Before
  <1>2. CASE Many!Next
    <2>1. ASSUME NEW cap \in {0, 1}, NEW undated \in BOOLEAN, NEW dry \in BOOLEAN, Many!Begin(cap, undated, dry)
          PROVE  ListInv'
      BY <2>1, BeginKept
    <2>2. CASE Many!RedisList \/ Many!AioRedisList
      <3>1. store.name = "redis" /\ (Many!GetValues \/ (job.phase = "paging" /\ Many!ScanKeys))
        BY <2>2 DEF Many!RedisList, Many!AioRedisList
      <3>2. QED
        BY <3>1, ScanKept, ValuesKept
    <2>3. CASE Many!LoadsCandidate \/ Many!Deletes \/ Many!Ends \/ Many!ArchiverStops
      BY <2>3, LoadKept, DeleteKept, StopKept
    <2>4. ASSUME NEW x \in Id, Many!Finishes(x) \/ Many!Creates(x) \/ Many!Revives(x) \/ Many!PurgedByOther(x)
          PROVE  ListInv'
      BY <2>4, ChangesKept
    <2>5. QED
      BY <1>2, <2>1, <2>2, <2>3, <2>4, QueriesKept, MatchesKept, DocumentsKept DEF Many!Next
  <1>3. QED
    BY <1>1, <1>2 DEF MCNext, list

\* purge_finished over every store's list_executions: however a store pages, whatever finishes, is created
\* or comes back in between, and whoever else purges, a run that came to its end took every root that was
\* old from its start to its end, unless others took something out of the list while it was paged; on
\* redis even then.
THEOREM NobodyMissed == MCSpec => []NoneMissed
  <1>1. ListInv /\ [MCNext]_<<look, vars, list, line, hearts, releases>> => ListInv'
    BY ListKept
  <1>2. ListInv => NoneMissed
    <2> SUFFICES ASSUME ListInv, job.phase = "done", job.cap = 0, ~job.dry, NEW x \in steady
                 PROVE  x \in job.purged \/ (shrunk /\ store.name # "redis")
      BY DEF NoneMissed, Many!NoneMissed
    <2>1. Accounted(x) /\ job.candidates = <<>>
      BY DEF ListInv
    <2>2. ~InCandidates(x) /\ ~Coming(x)
      BY <2>1 DEF InCandidates, Coming
    <2>3. QED
      BY <2>1, <2>2 DEF Accounted
  <1>3. QED
    BY ListStart, <1>1, <1>2, PTL DEF MCSpec
-----------------------------------------------------------------------------
(***************************************************************************)
(* The commits and the purges, call by call                                *)
(***************************************************************************)

Ready == {"ready", "absent", "watched"}
Pcs == {"idle", "loaded", "condemned", "listed", "due", "scored"} \cup Ready \cup Half

Mark == [life : Nat, ver : Nat]
Entry == [seq : Nat, life : Nat, ver : Nat, event : Event \cup {Start}, to : {"self", "other"}]
Call == [pc : Pcs, copy : Mark, event : Event \cup {Start}, work : Work, seqs : Seq(Nat), seen : Mark,
         listed : SUBSET Entry]

StoredTyped == /\ row \in Mark /\ timer \in Mark /\ spawns \subseteq Mark
               /\ handled \subseteq [life : Nat, event : Event] /\ outbox \subseteq Entry
               /\ lives \in Nat /\ counter \in Nat
CallsTyped == proc \in [Process -> Call] /\ torn \in BOOLEAN

RowOK == /\ row.ver = 0 => row = Gone
         /\ row # Gone => row.life = lives /\ lives > 0

\* What a process read is not newer than the row, unless the row went and its id lives again.
NotNewer(m) == /\ m.ver = 0 => m = Gone
               /\ m.life <= lives
               /\ row # Gone /\ m.life = row.life => m.ver <= row.ver

Addressed(S) == {x \in S : x.to = "self" /\ x.life > 0}

\* Whoever may still win a commit has an event that is not handled (but on dynamodb).
Fresh(r) == (/\ r.pc \in Ready /\ r.event # Start /\ backend # "dynamodb"
             /\ row # Gone /\ r.copy = row)
              => [life |-> row.life, event |-> r.event] \notin handled

Working(r) == r.pc \in {"loaded"} \cup Ready =>
  /\ r.work \in Works[r.event]
  /\ r.copy = Gone <=> r.event = Start
  /\ r.pc = "loaded" => r.copy # Gone

\* What goes into the row has its seqs by then.
Watching(r) ==
  /\ r.pc = "watched" => backend = "redis" /\ r.seen.ver = r.copy.ver
  /\ r.pc = "watched" \/ (r.pc = "absent" /\ backend = "mongo") => Len(r.seqs) = Len(r.work.emits)

Listed(r) == r.pc = "listed" =>
  /\ backend = "redis"
  /\ \A x \in r.listed : x.to = "self"
  /\ row = r.seen /\ row # Gone => Addressed(outbox) \subseteq r.listed

Looking(r) == r.pc \in {"watched", "listed"} => NotNewer(r.seen)

Flow(r) == NotNewer(r.copy) /\ Looking(r) /\ Working(r) /\ Fresh(r) /\ Watching(r) /\ Listed(r)

\* A purge that takes several calls: the row is gone, and the tables are emptied one by one.
Emptied(pc) == /\ pc \in {"pull", "timers", "outbox", "spawns"} => handled = {}
               /\ pc \in {"pull", "outbox", "spawns"} => timer = Gone
               /\ pc \in {"pull", "spawns"} => Addressed(outbox) = {}
               /\ pc = "pull" => spawns = {}

HalfDone(r) == r.pc \in Half => backend \in PurgesInSteps /\ row = Gone /\ Emptied(r.pc)

Purging(r) == r.pc \in Half \cup {"condemned"}
Begun(r) == r.pc \in {"ready", "absent"} /\ r.copy = Gone
Apart == backend \in PurgesInSteps => \A p, q \in Process : Purging(proc[p]) => ~Begun(proc[q])

\* Seqs are given out once.
SeqsUsed == \A x, y \in outbox : x.seq <= counter /\ (x.seq = y.seq => x = y)
Given(r) == \A i \in DOMAIN r.seqs :
  /\ r.seqs[i] <= counter /\ \A x \in outbox : x.seq # r.seqs[i]
  /\ \A j \in DOMAIN r.seqs : r.seqs[i] = r.seqs[j] => i = j
NotShared(r, o) == \A i \in DOMAIN r.seqs, j \in DOMAIN o.seqs : r.seqs[i] # o.seqs[j]

SeqsOK == /\ SeqsUsed /\ \A p \in Process : Given(proc[p])
          /\ \A p, q \in Process : p # q => NotShared(proc[p], proc[q])

LedgerInv == /\ StoredTyped /\ CallsTyped /\ RowOK /\ SeqsOK /\ Apart
             /\ \A p \in Process : Flow(proc[p]) /\ HalfDone(proc[p])
             /\ torn => backend \in PurgesInSteps
             /\ NothingLeftBehind

\* The version tells the copy of a record from one of an earlier life of its id.
VersionsTell == \A p \in Process : proc[p].pc \in Ready /\ row # Gone /\ Current(p) => proc[p].copy.life = row.life
-----------------------------------------------------------------------------
(* A step of one process that leaves the store alone *)

LEMMA GoneMark == Gone \in Mark /\ Gone.life = 0 /\ Gone.ver = 0
  BY DEF Gone, Mark

LEMMA IdleCall ==
  /\ Idle \in Call /\ Idle.pc = "idle" /\ Idle.copy = Gone /\ Idle.seen = Gone /\ Idle.seqs = <<>>
  /\ Idle.work.emits = <<>> /\ Idle.event = Start
  <1>1. [emits |-> <<>>, spawn |-> FALSE, timer |-> "none"] \in Work
    BY DEF Work
  <1>2. QED
    BY <1>1, GoneMark DEF Idle, Call, Pcs

LEMMA IdleFlow ==
  ASSUME RowOK, lives \in Nat, row \in Mark
  PROVE  Flow(Idle) /\ HalfDone(Idle) /\ ~Purging(Idle) /\ ~Begun(Idle) /\ Given(Idle)
  <1>1. NotNewer(Gone)
    BY GoneMark DEF NotNewer, RowOK
  <1>2. QED
    BY <1>1, IdleCall DEF Flow, Looking, Working, Fresh, Watching, Listed, HalfDone, Purging, Begun, Given, Ready, Half

\* What the steps need of r, the new state of p's flow, besides Flow(r) and HalfDone(r).
KeepsApart(p, r) ==
  backend \in PurgesInSteps =>
    /\ Purging(r) => Purging(proc[p]) \/ \A q \in Process : ~Begun(proc[q])
    /\ Begun(r) => Begun(proc[p]) \/ \A q \in Process : ~Purging(proc[q])

LEMMA ApartKept ==
  ASSUME Apart, CallsTyped, NEW p \in Process, NEW r \in Call, proc' = [proc EXCEPT ![p] = r], KeepsApart(p, r),
         backend' = backend
  PROVE  Apart'
  <1> SUFFICES ASSUME backend \in PurgesInSteps, NEW u \in Process, NEW v \in Process,
                      Purging(proc'[u]), Begun(proc'[v])
               PROVE  FALSE
    BY DEF Apart, Purging, Begun
  <1>1. ~(Purging(r) /\ Begun(r))
    BY DEF Purging, Begun, Half
  <1>2. \A q \in Process : proc'[q] = IF q = p THEN r ELSE proc[q]
    BY DEF CallsTyped
  <1>3. CASE u = p
    <2>1. v # p /\ Begun(proc[v]) /\ Purging(r)
      BY <1>1, <1>2, <1>3
    <2>2. QED
      BY <2>1 DEF KeepsApart, Apart
  <1>4. CASE u # p
    <2>1. Purging(proc[u])
      BY <1>2, <1>4
    <2>2. QED
      BY <1>2, <2>1 DEF KeepsApart, Apart
  <1>5. QED
    BY <1>3, <1>4

\* What a flow knows stands while the store shrinks.
LEMMA FlowShrinks ==
  ASSUME backend' = backend, lives' = lives, row' = row \/ row' = Gone, outbox' \subseteq outbox,
         spawns' \subseteq spawns, timer' = timer \/ timer' = Gone, handled' \subseteq handled, NEW r
  PROVE  (Flow(r) => Flow(r)') /\ (HalfDone(r) => HalfDone(r)')
  <1>1. NotNewer(r.copy) => NotNewer(r.copy)'
    BY DEF NotNewer
  <1>2. Looking(r) => Looking(r)'
    BY DEF Looking, NotNewer
  <1>3. Fresh(r) => Fresh(r)'
    BY DEF Fresh
  <1>4. Addressed(outbox)' \subseteq Addressed(outbox)
    BY DEF Addressed
  <1>5. Listed(r) => Listed(r)'
    BY <1>4 DEF Listed
  <1>6. HalfDone(r) => HalfDone(r)'
    BY <1>4 DEF HalfDone, Emptied
  <1>7. QED
    BY <1>1, <1>2, <1>3, <1>5, <1>6 DEF Flow, Working, Watching

\* The seqs a flow holds on to.
LEMMA GivenShrinks ==
  ASSUME counter' = counter, outbox' \subseteq outbox, NEW r, Given(r)
  PROVE  Given(r)'
  BY DEF Given

LEMMA SeqsKept ==
  ASSUME SeqsOK, StoredTyped, CallsTyped, NEW p \in Process, NEW r \in Call, proc' = [proc EXCEPT ![p] = r],
         r.seqs = <<>> \/ r.seqs = proc[p].seqs, outbox' \subseteq outbox, counter' = counter
  PROVE  SeqsOK'
  <1>1. \A q \in Process : proc'[q] = IF q = p THEN r ELSE proc[q]
    BY DEF CallsTyped
  <1>2. SeqsUsed'
    BY DEF SeqsOK, SeqsUsed
  <1>3. Given(r) /\ \A q \in Process : q # p => NotShared(r, proc[q]) /\ NotShared(proc[q], r)
    BY DEF SeqsOK, Given, NotShared
  <1>4. ASSUME NEW q \in Process
        PROVE  Given(proc[q])'
    <2>1. PICK o : o = proc'[q]
      OBVIOUS
    <2>2. Given(o)
      BY <1>1, <1>3, <2>1 DEF SeqsOK
    <2>3. Given(o)'
      BY <2>2, GivenShrinks
    <2>4. QED
      BY <2>1, <2>3
  <1>5. ASSUME NEW q \in Process, NEW v \in Process, q # v
        PROVE  NotShared(proc[q], proc[v])'
    <2>1. PICK o : o = proc'[q]
      OBVIOUS
    <2>2. PICK u : u = proc'[v]
      OBVIOUS
    <2>3. NotShared(o, u)
      BY <1>1, <1>3, <1>5, <2>1, <2>2 DEF SeqsOK
    <2>4. QED
      BY <2>1, <2>2, <2>3 DEF NotShared
  <1>6. QED
    BY <1>2, <1>4, <1>5 DEF SeqsOK

LEMMA ShrinkKeeps ==
  ASSUME LedgerInv, NEW p \in Process, NEW r \in Call, proc' = [proc EXCEPT ![p] = r],
         backend' = backend, lives' = lives, counter' = counter, row' = row \/ row' = Gone,
         outbox' \subseteq outbox, spawns' \subseteq spawns, timer' = timer \/ timer' = Gone, handled' \subseteq handled,
         Flow(r)', HalfDone(r)', KeepsApart(p, r), r.seqs = <<>> \/ r.seqs = proc[p].seqs,
         torn' \in BOOLEAN, torn' => backend \in PurgesInSteps, NothingLeftBehind'
  PROVE  LedgerInv'
  <1>1. StoredTyped' /\ CallsTyped' /\ RowOK'
    BY GoneMark DEF LedgerInv, StoredTyped, CallsTyped, RowOK
  <1>2. SeqsOK' /\ Apart'
    BY SeqsKept, ApartKept DEF LedgerInv
  <1>3. \A q \in Process : proc'[q] = IF q = p THEN r ELSE proc[q]
    BY DEF LedgerInv, CallsTyped
  <1>4. ASSUME NEW q \in Process
        PROVE  (Flow(proc[q]) /\ HalfDone(proc[q]))'
    <2>1. PICK o : o = proc'[q]
      OBVIOUS
    <2>2. CASE q = p
      BY <1>3, <2>1, <2>2
    <2>3. CASE q # p
      <3>1. Flow(o) /\ HalfDone(o)
        BY <1>3, <2>1, <2>3 DEF LedgerInv
      <3>2. Flow(o)' /\ HalfDone(o)'
        BY <3>1, FlowShrinks
      <3>3. QED
        BY <2>1, <3>2
    <2>4. QED
      BY <2>2, <2>3
  <1>5. QED
    BY <1>1, <1>2, <1>4 DEF LedgerInv

LEMMA MoveKeeps ==
  ASSUME LedgerInv, NEW p \in Process, NEW r \in Call, proc' = [proc EXCEPT ![p] = r],
         UNCHANGED <<backend, row, outbox, spawns, handled, lives, counter>>, timer' = timer \/ timer' = Gone,
         Flow(r), HalfDone(r), KeepsApart(p, r), r.seqs = <<>> \/ r.seqs = proc[p].seqs,
         torn' \in BOOLEAN, torn => torn', torn' /\ ~torn => backend \in PurgesInSteps,
         proc[p].pc \in Half /\ r.pc \notin Half => torn'
  PROVE  LedgerInv'
  <1>1. \A q \in Process : proc'[q] = IF q = p THEN r ELSE proc[q]
    BY DEF LedgerInv, CallsTyped
  <1>2. NothingLeftBehind'
    <2> SUFFICES ASSUME row' = Gone, ~torn', \A q \in Process : proc'[q].pc \notin Half
                 PROVE  /\ timer' = Gone /\ spawns' = {} /\ handled' = {}
                        /\ \A x \in ToSelf' : x.life = 0
      BY DEF NothingLeftBehind
    <2>1. \A q \in Process : proc[q].pc \notin Half
      BY <1>1
    <2>2. QED
      BY <2>1 DEF LedgerInv, NothingLeftBehind, ToSelf
  <1>3. Flow(r)' /\ HalfDone(r)'
    BY FlowShrinks
  <1>4. torn' => backend \in PurgesInSteps
    BY DEF LedgerInv
  <1>5. QED
    BY <1>2, <1>3, <1>4, ShrinkKeeps
-----------------------------------------------------------------------------
(* A commit that wins *)

\* The entries p adds to the outbox.
Added(p, seqs) == LET new == Written(p)  w == proc[p].work IN
  {[seq |-> seqs[i], life |-> new.life, ver |-> new.ver, event |-> proc[p].event, to |-> w.emits[i]] :
     i \in DOMAIN w.emits}

\* The seqs of the commit of p are its own.
OwnSeqs(p, seqs) == \A i \in DOMAIN proc[p].work.emits :
  /\ seqs[i] \in Nat /\ seqs[i] <= counter'
  /\ \A x \in outbox : x.seq # seqs[i]
  /\ \A j \in DOMAIN proc[p].work.emits : seqs[i] = seqs[j] => i = j
  /\ \A q \in Process : q # p => \A j \in DOMAIN proc[q].seqs : proc[q].seqs[j] # seqs[i]

Commits(p, seqs) ==
  /\ proc[p].pc \in Ready /\ Current(p)
  /\ WriteRow(p) /\ WriteRest(p, seqs) /\ Finish(p) /\ OwnSeqs(p, seqs)
  /\ counter' \in Nat /\ counter <= counter'
  /\ backend' = backend /\ torn' = torn

LEMMA EmitsFacts ==
  ASSUME NEW w \in Work
  PROVE  /\ \A i \in DOMAIN w.emits : w.emits[i] \in {"self", "other"}
         /\ Len(w.emits) \in Nat /\ DOMAIN w.emits = 1 .. Len(w.emits)
         /\ w.spawn \in BOOLEAN /\ w.timer \in {"none", "schedule", "cancel"}
  <1>1. w.emits \in {<<>>, <<"self">>, <<"other">>, <<"self", "other">>}
    BY DEF Work
  <1>2. DOMAIN w.emits = 1 .. Len(w.emits) /\ Len(w.emits) \in Nat
    BY <1>1
  <1>3. \A i \in DOMAIN w.emits : w.emits[i] \in {"self", "other"}
    BY <1>1
  <1>4. QED
    BY <1>2, <1>3 DEF Work

\* What a winner found, and what it writes.
LEMMA WinnerFacts ==
  ASSUME LedgerInv, VersionsTell, NEW p \in Process, proc[p].pc \in Ready, Current(p)
  PROVE  /\ Written(p) \in Mark /\ Written(p).ver > 0 /\ Written(p).ver = row.ver + 1
         /\ proc[p].work \in Works[proc[p].event] /\ proc[p].event \in Event \cup {Start}
         /\ proc[p].work \in Work
         /\ row = Gone => proc[p].copy = Gone /\ proc[p].event = Start /\ Written(p).life = lives + 1
         /\ row # Gone => /\ proc[p].copy = row /\ proc[p].event \in Event /\ Written(p).life = row.life
                          /\ row.life = lives /\ row.life > 0 /\ row.ver > 0
  <1>1. /\ proc[p] \in Call /\ proc[p].copy \in Mark /\ row \in Mark /\ lives \in Nat /\ row.ver = proc[p].copy.ver
        /\ proc[p].event \in Event \cup {Start}
    BY DEF LedgerInv, StoredTyped, CallsTyped, Call, Current
  <1>2. Flow(proc[p]) /\ RowOK
    BY DEF LedgerInv
  <1>3. proc[p].work \in Works[proc[p].event] /\ proc[p].work \in Work
    BY <1>1, <1>2 DEF Flow, Working, Call
  <1>4. CASE row = Gone
    <2>1. proc[p].copy.ver = 0
      BY <1>1, <1>4, GoneMark
    <2>2. proc[p].copy = Gone /\ proc[p].event = Start
      BY <1>2, <2>1 DEF Flow, NotNewer, Working
    <2>3. QED
      BY <1>1, <1>3, <1>4, <2>1, <2>2, GoneMark DEF Written, Mark
  <1>5. CASE row # Gone
    <2>1. row.ver # 0
      BY <1>2, <1>5 DEF RowOK
    <2>2. proc[p].copy.life = row.life
      BY <1>5 DEF VersionsTell
    <2>3. proc[p].copy = row
      BY <1>1, <2>2 DEF Mark
    <2>4. proc[p].copy # Gone /\ proc[p].event \in Event
      BY <1>1, <1>2, <1>5, <2>3 DEF Flow, Working
    <2>5. QED
      BY <1>1, <1>2, <1>3, <1>5, <2>1, <2>3, <2>4 DEF RowOK, Written, Mark
  <1>6. QED
    BY <1>4, <1>5

\* The row moves on to what no process has read.
RowMoves ==
  /\ backend' = backend /\ row' \in Mark /\ row'.ver = row.ver + 1
  /\ row # Gone => row'.life = row.life /\ lives' = lives
  /\ row = Gone => row'.life = lives + 1 /\ lives' = lives + 1

LEMMA NoneHasIt ==
  ASSUME StoredTyped, RowOK, RowMoves, NEW m \in Mark, NotNewer(m)
  PROVE  NotNewer(m)' /\ m # row'
  <1>1. row \in Mark /\ lives \in Nat
    BY DEF StoredTyped
  <1>2. CASE row = Gone
    BY <1>1, <1>2, GoneMark DEF RowMoves, NotNewer, Mark
  <1>3. CASE row # Gone
    BY <1>1, <1>3, GoneMark DEF RowMoves, NotNewer, RowOK, Mark
  <1>4. QED
    BY <1>2, <1>3

LEMMA FlowCommits ==
  ASSUME StoredTyped, RowOK, RowMoves, NEW o \in Call, Flow(o), HalfDone(o),
         row = Gone /\ backend \in PurgesInSteps => ~Purging(o)
  PROVE  (Flow(o) /\ HalfDone(o))'
  <1>1. o.copy \in Mark /\ o.seen \in Mark
    BY DEF Call
  <1>2. NotNewer(o.copy)' /\ o.copy # row'
    BY <1>1, NoneHasIt DEF Flow
  <1>3. Looking(o)' /\ (o.pc = "listed" => o.seen # row')
    BY <1>1, NoneHasIt DEF Flow, Looking
  <1>4. Working(o)' /\ Watching(o)'
    BY DEF Flow, Working, Watching, RowMoves
  <1>5. Fresh(o)'
    BY <1>2 DEF Fresh
  <1>6. Listed(o)'
    BY <1>3 DEF Flow, Listed, RowMoves
  <1>7. HalfDone(o)'
    BY DEF HalfDone, Purging
  <1>8. QED
    BY <1>2, <1>3, <1>4, <1>5, <1>6, <1>7 DEF Flow

LEMMA CommitSeqs ==
  ASSUME LedgerInv, NEW p \in Process, NEW seqs, OwnSeqs(p, seqs), outbox' = outbox \cup Added(p, seqs),
         counter' \in Nat, counter <= counter', Finish(p)
  PROVE  SeqsOK'
  <1>1. /\ \A q \in Process : proc'[q] = IF q = p THEN Idle ELSE proc[q]
        /\ \A q \in Process : proc[q] \in Call /\ proc[q].seqs \in Seq(Nat)
        /\ counter \in Nat /\ outbox \subseteq Entry
    BY DEF LedgerInv, StoredTyped, CallsTyped, Finish, Call
  <1>2. \A x \in outbox' \ outbox : \E i \in DOMAIN proc[p].work.emits : x.seq = seqs[i] /\ x \in Added(p, seqs)
    BY DEF Added
  <1>3. SeqsOK /\ SeqsUsed
    BY DEF LedgerInv, SeqsOK
  <1>4. SeqsUsed'
    <2> SUFFICES ASSUME NEW x \in outbox', NEW y \in outbox'
                 PROVE  x.seq <= counter' /\ (x.seq = y.seq => x = y)
      BY DEF SeqsUsed
    <2>1. \A z \in outbox : z.seq \in Nat /\ z.seq <= counter'
      BY <1>1, <1>3 DEF SeqsUsed, Entry
    <2>2. CASE x \in outbox /\ y \in outbox
      BY <1>3, <2>1, <2>2 DEF SeqsUsed
    <2>3. CASE x \in outbox /\ y \notin outbox
      BY <1>2, <2>1, <2>3 DEF OwnSeqs
    <2>4. CASE x \notin outbox /\ y \in outbox
      BY <1>2, <2>1, <2>4 DEF OwnSeqs
    <2>5. CASE x \notin outbox /\ y \notin outbox
      <3>1. x \in Added(p, seqs) /\ y \in Added(p, seqs)
        BY <2>5
      <3>2. PICK i \in DOMAIN proc[p].work.emits :
              x = [seq |-> seqs[i], life |-> Written(p).life, ver |-> Written(p).ver, event |-> proc[p].event,
                   to |-> proc[p].work.emits[i]]
        BY <3>1 DEF Added
      <3>3. PICK j \in DOMAIN proc[p].work.emits :
              y = [seq |-> seqs[j], life |-> Written(p).life, ver |-> Written(p).ver, event |-> proc[p].event,
                   to |-> proc[p].work.emits[j]]
        BY <3>1 DEF Added
      <3>4. QED
        BY <3>2, <3>3 DEF OwnSeqs
    <2>6. QED
      BY <2>2, <2>3, <2>4, <2>5
  <1>5. ASSUME NEW q \in Process
        PROVE  Given(proc[q])'
    <2>1. CASE q = p
      BY <1>1, <2>1, IdleCall DEF Given
    <2>2. CASE q # p
      <3>1. Given(proc[q]) /\ proc'[q] = proc[q]
        BY <1>1, <1>3, <2>2 DEF SeqsOK
      <3>2. \A i \in DOMAIN proc[q].seqs : proc[q].seqs[i] \in Nat /\ proc[q].seqs[i] <= counter'
        BY <1>1, <3>1 DEF Given
      <3>3. \A i \in DOMAIN proc[q].seqs : \A x \in outbox' : x.seq # proc[q].seqs[i]
        BY <1>2, <2>2, <3>1 DEF Given, OwnSeqs
      <3>4. QED
        BY <3>1, <3>2, <3>3 DEF Given
    <2>3. QED
      BY <2>1, <2>2
  <1>6. ASSUME NEW q \in Process, NEW v \in Process, q # v
        PROVE  NotShared(proc[q], proc[v])'
    <2>1. CASE q # p /\ v # p
      <3>1. NotShared(proc[q], proc[v]) /\ proc'[q] = proc[q] /\ proc'[v] = proc[v]
        BY <1>1, <1>3, <1>6, <2>1 DEF SeqsOK
      <3>2. QED
        BY <3>1 DEF NotShared
    <2>2. CASE q = p \/ v = p
      <3>1. proc'[q].seqs = <<>> \/ proc'[v].seqs = <<>>
        BY <1>1, <2>2, IdleCall
      <3>2. QED
        BY <3>1 DEF NotShared
    <2>3. QED
      BY <2>1, <2>2
  <1>7. QED
    BY <1>4, <1>5, <1>6 DEF SeqsOK

LEMMA CommitKeeps ==
  ASSUME LedgerInv, VersionsTell, NEW p \in Process, NEW seqs, Commits(p, seqs)
  PROVE  LedgerInv'
  <1>1. /\ proc' = [proc EXCEPT ![p] = Idle] /\ \A q \in Process : proc'[q] = IF q = p THEN Idle ELSE proc[q]
        /\ \A q \in Process : proc[q] \in Call
        /\ StoredTyped /\ CallsTyped /\ RowOK /\ row \in Mark /\ lives \in Nat
    BY DEF LedgerInv, StoredTyped, CallsTyped, Commits, Finish
  <1>2. proc[p].pc \in Ready /\ Current(p) /\ WriteRow(p) /\ WriteRest(p, seqs)
    BY DEF Commits
  <1>3. /\ Written(p) \in Mark /\ Written(p).ver > 0 /\ Written(p).ver = row.ver + 1
        /\ proc[p].work \in Work /\ proc[p].event \in Event \cup {Start}
        /\ row = Gone => proc[p].copy = Gone /\ proc[p].event = Start /\ Written(p).life = lives + 1
        /\ row # Gone => /\ proc[p].copy = row /\ proc[p].event \in Event /\ Written(p).life = row.life
                         /\ row.life = lives /\ row.life > 0 /\ row.ver > 0
    BY <1>2, WinnerFacts
  <1>4. RowMoves /\ row' # Gone /\ row'.life = lives' /\ lives' > 0 /\ lives' \in Nat
    BY <1>1, <1>2, <1>3, GoneMark DEF RowMoves, WriteRow, Commits
  <1>5. outbox' = outbox \cup Added(p, seqs)
    BY <1>2 DEF WriteRest, Added
  <1>6. SeqsOK'
    BY <1>5, CommitSeqs DEF Commits, Finish
  <1>7. Apart'
    BY <1>1, IdleCall, IdleFlow, ApartKept DEF LedgerInv, KeepsApart, Commits
  <1>8. StoredTyped' /\ CallsTyped'
    <2>1. Added(p, seqs) \subseteq Entry
      BY <1>3, EmitsFacts DEF Added, Entry, OwnSeqs, Commits, Mark
    <2>2. spawns' \subseteq Mark /\ timer' \in Mark /\ row' \in Mark
      BY <1>1, <1>2, <1>3, GoneMark DEF StoredTyped, WriteRest, WriteRow
    <2>3. handled' \subseteq [life : Nat, event : Event]
      BY <1>1, <1>2, <1>3 DEF StoredTyped, WriteRest, Mark
    <2>4. CallsTyped'
      BY <1>1, IdleCall DEF CallsTyped, Commits
    <2>5. QED
      BY <1>1, <1>4, <1>5, <2>1, <2>2, <2>3, <2>4 DEF StoredTyped, Commits
  <1>9. RowOK'
    BY <1>1, <1>2, <1>3, <1>4, GoneMark DEF RowOK, WriteRow
  <1>10. ASSUME NEW q \in Process
         PROVE  (Flow(proc[q]) /\ HalfDone(proc[q]))'
    <2>1. PICK o : o = proc'[q]
      OBVIOUS
    <2>2. o \in Call /\ Flow(o) /\ HalfDone(o)
      BY <1>1, <2>1, IdleCall, IdleFlow DEF LedgerInv
    <2>3. row = Gone /\ backend \in PurgesInSteps => ~Purging(o)
      <3> SUFFICES ASSUME row = Gone, backend \in PurgesInSteps
                   PROVE  ~Purging(o)
        OBVIOUS
      <3>1. proc[p].pc # "watched"
        BY DEF LedgerInv, Flow, Watching, PurgesInSteps
      <3>2. Begun(proc[p])
        BY <1>2, <1>3, <3>1 DEF Begun, Ready
      <3>3. \A u \in Process : ~Purging(proc[u])
        BY <3>2 DEF LedgerInv, Apart
      <3>4. ~Purging(Idle)
        BY IdleCall DEF Purging, Half
      <3>5. QED
        BY <1>1, <2>1, <3>3, <3>4
    <2>4. Flow(o)' /\ HalfDone(o)'
      BY <1>1, <1>4, <2>2, <2>3, FlowCommits
    <2>5. QED
      BY <2>1, <2>4
  <1>11. (torn => backend \in PurgesInSteps)'
    BY DEF LedgerInv, Commits
  <1>12. NothingLeftBehind'
    BY <1>4 DEF NothingLeftBehind
  <1>13. QED
    BY <1>6, <1>7, <1>8, <1>9, <1>10, <1>11, <1>12 DEF LedgerInv
-----------------------------------------------------------------------------
(* What an observer of the tables sees of a step *)

Box(S) == {[life |-> x.life, ver |-> x.ver, event |-> x.event, to |-> x.to] : x \in S}

Tables == <<row, lives, Box(outbox), spawns, timer, handled, backend = "mongo", backend = "dynamodb">>

LedgerStep == [L!Next /\ UNCHANGED <<backend = "mongo", backend = "dynamodb">>]_Tables

LEMMA CommitIsLedger ==
  ASSUME LedgerInv, VersionsTell, NEW p \in Process, NEW seqs, Commits(p, seqs)
  PROVE  L!Next /\ UNCHANGED <<backend = "mongo", backend = "dynamodb">>
  <1> DEFINE w == proc[p].work
             e == proc[p].event
             new == Written(p)
  <1>1. proc[p].pc \in Ready /\ Current(p) /\ WriteRow(p) /\ WriteRest(p, seqs) /\ backend' = backend
    BY DEF Commits
  <1>2. /\ new \in Mark /\ new.ver > 0 /\ new.ver = row.ver + 1
        /\ w \in Works[e] /\ w \in Work /\ e \in Event \cup {Start}
        /\ row = Gone => proc[p].copy = Gone /\ e = Start /\ new.life = lives + 1
        /\ row # Gone => /\ proc[p].copy = row /\ e \in Event /\ new.life = row.life
                         /\ row.life = lives /\ row.life > 0 /\ row.ver > 0
    BY <1>1, WinnerFacts
  <1>3. row \in Mark /\ lives \in Nat /\ proc[p] \in Call
    BY DEF LedgerInv, StoredTyped, CallsTyped
  <1>4. Box(outbox)' = Box(outbox) \cup {[life |-> new.life, ver |-> new.ver, event |-> e, to |-> t] : t \in L!Range(w.emits)}
    <2>1. outbox' = outbox \cup Added(p, seqs)
      BY <1>1 DEF WriteRest, Added
    <2>2. Box(outbox)' = Box(outbox) \cup Box(Added(p, seqs))
      BY <2>1 DEF Box
    <2>3. Box(Added(p, seqs)) = {[life |-> new.life, ver |-> new.ver, event |-> e, to |-> w.emits[i]] : i \in DOMAIN w.emits}
      <3> DEFINE F(i) == [seq |-> seqs[i], life |-> new.life, ver |-> new.ver, event |-> e, to |-> w.emits[i]]
                 G(x) == [life |-> x.life, ver |-> x.ver, event |-> x.event, to |-> x.to]
                 D == DOMAIN w.emits
      <3>1. Added(p, seqs) = {F(i) : i \in D}
        BY DEF Added
      <3>2. \A i \in D : G(F(i)) = [life |-> new.life, ver |-> new.ver, event |-> e, to |-> w.emits[i]]
        OBVIOUS
      <3> HIDE DEF F, D, w, e, new
      <3>3. {G(x) : x \in {F(i) : i \in D}} = {G(F(i)) : i \in D}
        OBVIOUS
      <3>4. Box(Added(p, seqs)) = {G(x) : x \in Added(p, seqs)}
        BY DEF Box
      <3>5. QED
        <4>1. Box(Added(p, seqs)) = {G(F(i)) : i \in D}
          BY <3>1, <3>3, <3>4
        <4>2. {G(F(i)) : i \in D} = {[life |-> new.life, ver |-> new.ver, event |-> e, to |-> w.emits[i]] : i \in D}
          <5> HIDE DEF G
          <5>1. QED
            BY <3>2
        <4>3. QED
          BY <4>1, <4>2 DEF D
    <2>4. QED
      BY <2>2, <2>3 DEF L!Range
  <1>5. new = [life |-> new.life, ver |-> new.ver]
    BY <1>2 DEF Mark
  <1>6. L!Write(new.life, new.ver, e, w)
    <2> HIDE DEF w, e, new
    <2>1. row' = [life |-> new.life, ver |-> new.ver]
      BY <1>1, <1>5 DEF WriteRow, new
    <2>2. spawns' = IF w.spawn THEN spawns \cup {[life |-> new.life, ver |-> new.ver]} ELSE spawns
      BY <1>1, <1>5 DEF WriteRest, new, w
    <2>3. timer' = CASE w.timer = "schedule" -> [life |-> new.life, ver |-> new.ver] [] w.timer = "cancel" -> L!Gone [] OTHER -> timer
      BY <1>1, <1>5 DEF WriteRest, new, w, Gone, L!Gone
    <2>4. handled' = IF e = Start THEN handled ELSE handled \cup {[life |-> new.life, event |-> e]}
      BY <1>1 DEF WriteRest, new, e
    <2>5. QED
      BY <2>1, <2>2, <2>3, <2>4, <1>4 DEF L!Write, Box
  <1>7. CASE row = Gone
    <2>1. e = Start /\ new.life = lives + 1 /\ new.ver = 1 /\ w \in Works[Start] /\ row = L!Gone
      BY <1>2, <1>7, GoneMark DEF L!Gone, Gone
    <2>2. lives' = lives + 1
      BY <1>1, <1>2, <1>7, GoneMark DEF WriteRow
    <2>3. L!Create(w)
      BY <1>6, <2>1, <2>2 DEF L!Create
    <2>4. QED
      BY <1>1, <2>1, <2>3 DEF L!Next
  <1>8. CASE row # Gone
    <2>1. e \in Event /\ row # L!Gone /\ row.life \in 1 .. row.life /\ w \in Works[e]
      BY <1>2, <1>3, <1>8 DEF L!Gone, Gone, Mark
    <2>2. lives' = lives
      BY <1>1, <1>2, <1>8 DEF WriteRow
    <2>3. (backend = "dynamodb") \/ [life |-> row.life, event |-> e] \notin handled
      <3>1. Fresh(proc[p])
        BY DEF LedgerInv, Flow
      <3>2. e # Start
        BY <2>1, StoresAssumption
      <3>3. QED
        BY <1>1, <1>2, <1>8, <3>1, <3>2 DEF Fresh
    <2>4. L!Write(row.life, row.ver + 1, e, w)
      BY <1>2, <1>6, <1>8
    <2>5. L!Commit(e, w)
      BY <2>1, <2>2, <2>3, <2>4 DEF L!Commit
    <2> HIDE DEF w, e
    <2>6. \E d \in Event : \E u \in Works[d] : L!Commit(d, u)
      BY <2>1, <2>5 DEF L!Commit, L!Write
    <2>7. QED
      BY <1>1, <2>6 DEF L!Next
  <1>9. QED
    BY <1>7, <1>8

LEMMA EraseIsLedger ==
  ASSUME backend' = backend, lives' = lives, row' = Gone, outbox' \subseteq outbox, spawns' \subseteq spawns,
         timer' = timer \/ timer' = Gone, handled' \subseteq handled,
         \A x \in outbox \ outbox' : x.to = "self" \/ (backend = "mongo" /\ x.life > 0)
  PROVE  LedgerStep
  <1>1. Box(outbox)' \subseteq Box(outbox)
    BY DEF Box
  <1>2. \A b \in Box(outbox) \ Box(outbox)' : b.to = "self" \/ (backend = "mongo" /\ b.life > 0)
    <2> SUFFICES ASSUME NEW b \in Box(outbox), b \notin Box(outbox)'
                 PROVE  b.to = "self" \/ (backend = "mongo" /\ b.life > 0)
      OBVIOUS
    <2>1. PICK x \in outbox : b = [life |-> x.life, ver |-> x.ver, event |-> x.event, to |-> x.to]
      BY DEF Box
    <2>2. x \notin outbox'
      BY <2>1 DEF Box
    <2>3. QED
      BY <2>1, <2>2
  <1>3. L!Erase
    BY <1>1, <1>2 DEF L!Erase, Box, L!Gone, Gone
  <1>4. QED
    BY <1>3 DEF LedgerStep, L!Next

LEMMA StillIsLedger ==
  ASSUME UNCHANGED <<backend, row, lives, outbox, spawns, timer, handled>>
  PROVE  LedgerStep
  BY DEF LedgerStep, Tables, Box

LEMMA FireIsLedger ==
  ASSUME UNCHANGED <<backend, row, lives, outbox, spawns, handled>>, timer' = timer \/ timer' = Gone
  PROVE  LedgerStep
  <1>1. CASE timer' = timer
    BY <1>1, StillIsLedger
  <1>2. CASE timer' = Gone
    <2>1. L!Fire
      BY <1>2 DEF L!Fire, L!Gone, Gone
    <2>2. QED
      BY <2>1 DEF LedgerStep, L!Next
  <1>3. QED
    BY <1>1, <1>2
-----------------------------------------------------------------------------
(* The steps *)

Kept == LedgerInv' /\ LedgerStep

LEMMA ProcFacts ==
  ASSUME LedgerInv, NEW p \in Process
  PROVE  /\ proc[p] \in Call /\ proc[p].copy \in Mark /\ proc[p].seqs \in Seq(Nat)
         /\ Flow(proc[p]) /\ HalfDone(proc[p])
         /\ row \in Mark /\ lives \in Nat /\ counter \in Nat /\ RowOK /\ NotNewer(row) /\ NotNewer(Gone)
         /\ torn \in BOOLEAN /\ outbox \subseteq Entry /\ timer \in Mark
  <1>1. row \in Mark /\ RowOK /\ lives \in Nat
    BY DEF LedgerInv, StoredTyped
  <1>2. NotNewer(row) /\ NotNewer(Gone)
    BY <1>1, GoneMark DEF NotNewer, RowOK, Mark
  <1>3. QED
    BY <1>1, <1>2 DEF LedgerInv, StoredTyped, CallsTyped, Call

\* p goes on, or gives up: the store is left alone.
LEMMA MoveIsKept ==
  ASSUME LedgerInv, NEW p \in Process, NEW r \in Call, proc' = [proc EXCEPT ![p] = r],
         UNCHANGED <<backend, stored, torn>>, proc[p].pc \notin Half, r.pc \notin Half,
         Flow(r), KeepsApart(p, r), r.seqs = <<>> \/ r.seqs = proc[p].seqs
  PROVE  Kept
  <1>1. UNCHANGED <<backend, row, outbox, spawns, timer, handled, counter, lives, torn>>
    BY DEF stored
  <1>2. torn \in BOOLEAN
    BY ProcFacts
  <1>3. HalfDone(r)
    BY DEF HalfDone
  <1>4. /\ timer' = timer \/ timer' = Gone
        /\ torn' \in BOOLEAN /\ (torn => torn') /\ (torn' /\ ~torn => backend \in PurgesInSteps)
        /\ proc[p].pc \in Half /\ r.pc \notin Half => torn'
    BY <1>1, <1>2
  <1>5. LedgerInv'
    BY <1>1, <1>3, <1>4, MoveKeeps
  <1>6. LedgerStep
    BY <1>1, StillIsLedger
  <1>7. QED
    BY <1>5, <1>6 DEF Kept

LEMMA EndIsKept ==
  ASSUME LedgerInv, NEW p \in Process, Finish(p), UNCHANGED <<backend, stored, torn>>, proc[p].pc \notin Half
  PROVE  Kept
  <1>1. Flow(Idle) /\ ~Purging(Idle) /\ ~Begun(Idle) /\ Idle \in Call /\ Idle.seqs = <<>> /\ Idle.pc \notin Half
    BY IdleFlow, IdleCall, ProcFacts DEF Half
  <1>2. KeepsApart(p, Idle)
    BY <1>1 DEF KeepsApart
  <1>3. QED
    BY <1>1, <1>2, MoveIsKept DEF Finish

LEMMA LoadIsKept ==
  ASSUME LedgerInv, NEW p \in Process, NEW e \in Event, NEW w \in Works[e], Load(p, e, w) \/ LoadForEvent(p, e, w)
  PROVE  Kept
  <1>1. PICK c \in Reads : \E pc \in {"loaded", "ready"} :
          /\ proc' = [proc EXCEPT ![p] = [Idle EXCEPT !.pc = pc, !.copy = c, !.event = e, !.work = w]]
          /\ pc = "ready" => FALSE \in MaySee(e)
    BY DEF Load, LoadForEvent
  <1>2. PICK pc \in {"loaded", "ready"} :
          /\ proc' = [proc EXCEPT ![p] = [Idle EXCEPT !.pc = pc, !.copy = c, !.event = e, !.work = w]]
          /\ pc = "ready" => FALSE \in MaySee(e)
    BY <1>1
  <1>3. proc[p].pc = "idle" /\ row # Gone /\ UNCHANGED <<backend, stored, torn>>
    BY DEF Load, LoadForEvent, Free
  <1>4. c \in Mark /\ NotNewer(c) /\ c # Gone
    <2>1. row \in Mark /\ row.ver > 0 /\ NotNewer(row) /\ lives \in Nat
      BY <1>3, ProcFacts DEF RowOK, Mark
    <2>2. CASE c = row
      BY <1>3, <2>1, <2>2
    <2>3. CASE row.ver > 1 /\ c = [row EXCEPT !.ver = @ - 1]
      <3>1. c \in Mark /\ c.life = row.life /\ c.ver = row.ver - 1 /\ c.ver > 0
        BY <2>1, <2>3 DEF Mark
      <3>2. row.ver \in Nat /\ c.ver <= row.ver /\ c # Gone /\ row.life <= lives
        BY <2>1, <3>1, GoneMark DEF NotNewer, Mark
      <3>3. QED
        BY <3>1, <3>2 DEF NotNewer
    <2>4. QED
      BY <2>2, <2>3 DEF Reads
  <1>5. w \in Work /\ e # Start
    BY StoresAssumption
  <1> DEFINE r == [Idle EXCEPT !.pc = pc, !.copy = c, !.event = e, !.work = w]
  <1>6. /\ r \in Call /\ r.pc = pc /\ r.copy = c /\ r.event = e /\ r.work = w /\ r.seqs = <<>>
        /\ proc' = [proc EXCEPT ![p] = r]
    BY <1>2, <1>4, <1>5, IdleCall DEF Call, Pcs, Ready
  <1> HIDE DEF r
  <1>7. Fresh(r)
    <2> SUFFICES ASSUME pc \in Ready, backend # "dynamodb"
                 PROVE  [life |-> row.life, event |-> e] \notin handled
      BY <1>6 DEF Fresh
    <2>1. ~IsProcessed(e)
      BY <1>2 DEF MaySee, Ready
    <2>2. QED
      BY <2>1 DEF IsProcessed
  <1>8. Flow(r)
    BY <1>2, <1>4, <1>5, <1>6, <1>7 DEF Flow, Working, Watching, Listed, Looking
  <1>9. KeepsApart(p, r)
    BY <1>4, <1>6 DEF KeepsApart, Purging, Begun, Half
  <1>10. proc[p].pc \notin Half /\ r.pc \notin Half
    BY <1>3, <1>6 DEF Half
  <1>11. QED
    BY <1>3, <1>6, <1>8, <1>9, <1>10, MoveIsKept

LEMMA DedupeIsKept ==
  ASSUME LedgerInv, NEW p \in Process, Dedupe(p)
  PROVE  Kept
  <1>1. proc[p].pc = "loaded" /\ UNCHANGED <<backend, stored, torn>> /\ proc[p].pc \notin Half
    BY DEF Dedupe, Half
  <1>2. CASE Finish(p)
    BY <1>1, <1>2, EndIsKept
  <1>3. CASE Goto(p, "ready") /\ FALSE \in MaySee(proc[p].event)
    <2> DEFINE o == proc[p]
               r == [o EXCEPT !.pc = "ready"]
    <2>1. /\ o \in Call /\ Flow(o) /\ r \in Call /\ r.pc = "ready" /\ r.copy = o.copy /\ r.event = o.event
          /\ r.work = o.work /\ r.seqs = o.seqs
      BY ProcFacts DEF Call, Pcs, Ready
    <2>2. proc' = [proc EXCEPT ![p] = r]
      BY <1>3 DEF Goto
    <2> HIDE DEF r
    <2>3. Fresh(r)
      <3> SUFFICES ASSUME backend # "dynamodb"
                   PROVE  [life |-> row.life, event |-> o.event] \notin handled
        BY <2>1 DEF Fresh
      <3>1. ~IsProcessed(o.event)
        BY <1>3 DEF MaySee
      <3>2. QED
        BY <3>1 DEF IsProcessed
    <2>4. Flow(r) /\ r.copy # Gone
      BY <1>1, <2>1, <2>3 DEF Flow, Working, Watching, Listed, Looking, Ready
    <2>5. KeepsApart(p, r)
      BY <2>1, <2>4 DEF KeepsApart, Purging, Begun, Half
    <2>6. r.pc \notin Half
      BY <2>1 DEF Half
    <2>7. QED
      BY <1>1, <2>1, <2>2, <2>4, <2>5, <2>6, MoveIsKept
  <1>4. PICK hit \in MaySee(proc[p].event) : IF hit THEN Finish(p) ELSE Goto(p, "ready")
    BY DEF Dedupe, Check
  <1>5. hit \in BOOLEAN
    BY DEF MaySee, IsProcessed
  <1>6. CASE hit
    BY <1>2, <1>4, <1>6
  <1>7. CASE hit = FALSE
    BY <1>3, <1>4, <1>7
  <1>8. QED
    BY <1>5, <1>6, <1>7

LEMMA CreateIsKept ==
  ASSUME LedgerInv, NEW p \in Process, NEW w \in Works[Start], Create(p, w)
  PROVE  Kept
  <1> DEFINE r == [Idle EXCEPT !.pc = "ready", !.work = w]
  <1>1. proc[p].pc = "idle" /\ UNCHANGED <<backend, stored, torn>> /\ proc[p].pc \notin Half /\ proc' = [proc EXCEPT ![p] = r]
    BY DEF Create, Half, Free
  <1>2. w \in Work
    BY StoresAssumption
  <1>3. r \in Call /\ r.pc = "ready" /\ r.copy = Gone /\ r.event = Start /\ r.work = w /\ r.seqs = <<>>
    BY <1>2, IdleCall DEF Call, Pcs, Ready
  <1> HIDE DEF r
  <1>4. Flow(r)
    BY <1>3, ProcFacts DEF Flow, Working, Watching, Listed, Looking, Ready, Fresh
  <1>5. KeepsApart(p, r)
    BY <1>3 DEF Create, KeepsApart, Purging, Begun, Half
  <1>6. r.pc \notin Half
    BY <1>3 DEF Half
  <1>7. QED
    BY <1>1, <1>3, <1>4, <1>5, <1>6, MoveIsKept

LEMMA CondemnIsKept ==
  ASSUME LedgerInv, NEW p \in Process, Condemn(p)
  PROVE  Kept
  <1> DEFINE r == [Idle EXCEPT !.pc = "condemned", !.copy = row]
  <1>1. proc[p].pc = "idle" /\ UNCHANGED <<backend, stored, torn>> /\ proc[p].pc \notin Half /\ proc' = [proc EXCEPT ![p] = r]
    BY DEF Condemn, Half, Free
  <1>2. row \in Mark /\ NotNewer(row)
    BY ProcFacts
  <1>3. r \in Call /\ r.pc = "condemned" /\ r.copy = row /\ r.seqs = <<>>
    BY <1>2, IdleCall DEF Call, Pcs, Ready
  <1> HIDE DEF r
  <1>4. Flow(r)
    BY <1>2, <1>3 DEF Flow, Working, Watching, Listed, Looking, Ready, Fresh
  <1>5. KeepsApart(p, r)
    BY <1>3 DEF Condemn, Creating, KeepsApart, Purging, Begun, Half
  <1>6. r.pc \notin Half
    BY <1>3 DEF Half
  <1>7. QED
    BY <1>1, <1>3, <1>4, <1>5, <1>6, MoveIsKept

LEMMA DueIsKept ==
  ASSUME LedgerInv, NEW p \in Process, DueTimers(p)
  PROVE  Kept
  <1> DEFINE r == [Idle EXCEPT !.pc = "due", !.seen = timer]
  <1>1. proc[p].pc = "idle" /\ UNCHANGED <<backend, stored, torn>> /\ proc[p].pc \notin Half /\ proc' = [proc EXCEPT ![p] = r]
    BY DEF DueTimers, Half, Free
  <1>2. timer \in Mark /\ NotNewer(Gone)
    BY ProcFacts
  <1>3. r \in Call /\ r.pc = "due" /\ r.copy = Gone /\ r.seqs = <<>>
    BY <1>2, IdleCall DEF Call, Pcs, Ready
  <1> HIDE DEF r
  <1>4. Flow(r)
    BY <1>2, <1>3 DEF Flow, Working, Watching, Listed, Looking, Ready, Fresh
  <1>5. KeepsApart(p, r) /\ r.pc \notin Half
    BY <1>3 DEF KeepsApart, Purging, Begun, Half
  <1>6. QED
    BY <1>1, <1>3, <1>4, <1>5, MoveIsKept
-----------------------------------------------------------------------------
(* The commits *)

LEMMA CommitIsKept ==
  ASSUME LedgerInv, VersionsTell, NEW p \in Process, NEW seqs, Commits(p, seqs)
  PROVE  Kept
  BY CommitKeeps, CommitIsLedger DEF Kept, LedgerStep

LEMMA NumberedIsKept ==
  ASSUME LedgerInv, VersionsTell, NEW p \in Process, proc[p].pc \in Ready, Current(p), WriteRow(p),
         WriteRest(p, NextSeqs(p)), counter' = counter + Len(proc[p].work.emits), Finish(p),
         backend' = backend, torn' = torn
  PROVE  Kept
  <1>1. proc[p].work \in Work /\ counter \in Nat /\ outbox \subseteq Entry
    BY WinnerFacts, ProcFacts
  <1>2. Len(proc[p].work.emits) \in Nat /\ DOMAIN proc[p].work.emits = 1 .. Len(proc[p].work.emits)
    BY <1>1, EmitsFacts
  <1>3. \A i \in DOMAIN proc[p].work.emits : NextSeqs(p)[i] = counter + i
    BY DEF NextSeqs
  <1>4. counter' \in Nat /\ counter <= counter'
    <2>1. PICK k \in Nat : k = Len(proc[p].work.emits)
      BY <1>2
    <2>2. counter' = counter + k
      BY <2>1
    <2>3. QED
      BY <1>1, <2>2
  <1>5. \A x \in outbox : x.seq \in Nat /\ x.seq <= counter
    BY <1>1 DEF LedgerInv, SeqsOK, SeqsUsed, Entry
  <1>6. \A q \in Process : \A j \in DOMAIN proc[q].seqs : proc[q].seqs[j] \in Nat /\ proc[q].seqs[j] <= counter
    BY ProcFacts DEF LedgerInv, SeqsOK, Given
  <1>7. OwnSeqs(p, NextSeqs(p))
    BY <1>1, <1>2, <1>3, <1>5, <1>6 DEF OwnSeqs
  <1>8. QED
    BY <1>4, <1>7, CommitIsKept DEF Commits

LEMMA GivenIsKept ==
  ASSUME LedgerInv, VersionsTell, NEW p \in Process, proc[p].pc \in Ready, Current(p), Write(p), Finish(p),
         Len(proc[p].seqs) = Len(proc[p].work.emits) \/ proc[p].work.emits = <<>>,
         backend' = backend, torn' = torn
  PROVE  Kept
  <1>1. proc[p].work \in Work /\ counter \in Nat /\ proc[p].seqs \in Seq(Nat) /\ counter' = counter
    BY WinnerFacts, ProcFacts DEF Write
  <1>2. DOMAIN proc[p].work.emits = 1 .. Len(proc[p].work.emits)
    BY <1>1, EmitsFacts
  <1>3. DOMAIN proc[p].work.emits \subseteq DOMAIN proc[p].seqs
    BY <1>1, <1>2
  <1>4. Given(proc[p]) /\ \A q \in Process : q # p => NotShared(proc[q], proc[p])
    BY DEF LedgerInv, SeqsOK
  <1>5. OwnSeqs(p, proc[p].seqs)
    BY <1>1, <1>3, <1>4 DEF OwnSeqs, Given, NotShared
  <1>6. QED
    BY <1>1, <1>5, CommitIsKept DEF Commits, Write

LEMMA TransactionIsKept ==
  ASSUME LedgerInv, VersionsTell, NEW p \in Process, Transaction(p) \/ Request(p)
  PROVE  Kept
  <1>1. proc[p].pc = "ready" /\ proc[p].pc \in Ready /\ proc[p].pc \notin Half /\ backend' = backend /\ torn' = torn
    BY DEF Transaction, Request, Ready, Half
  <1>2. CASE Current(p)
    BY <1>1, <1>2, NumberedIsKept DEF Transaction, Request, HoldsOurs, WriteNumbered
  <1>3. CASE ~Current(p)
    <2>1. Finish(p) /\ UNCHANGED stored
      BY <1>3 DEF Transaction, Request, HoldsOurs, Refuse, stored
    <2>2. QED
      BY <1>1, <2>1, EndIsKept
  <1>4. QED
    BY <1>2, <1>3

\* The row was not found, and will be inserted.
LEMMA AbsentIsKept ==
  ASSUME LedgerInv, NEW p \in Process, proc[p].pc = "ready", New(p), Goto(p, "absent"),
         UNCHANGED <<backend, stored, torn>>, backend = "mongo" => Reserved(p)
  PROVE  Kept
  <1> DEFINE o == proc[p]
             r == [o EXCEPT !.pc = "absent"]
  <1>1. /\ o \in Call /\ Flow(o) /\ r \in Call /\ r.pc = "absent" /\ r.copy = o.copy /\ r.event = o.event
        /\ r.work = o.work /\ r.seqs = o.seqs /\ RowOK
    BY ProcFacts DEF Call, Pcs, Ready
  <1>2. proc' = [proc EXCEPT ![p] = r]
    BY DEF Goto
  <1> HIDE DEF r
  <1>3. row = Gone
    BY <1>1 DEF New, RowOK
  <1>4. Flow(r)
    BY <1>1, <1>3 DEF Flow, Working, Watching, Listed, Looking, Ready, Fresh, Reserved
  <1>5. KeepsApart(p, r) /\ r.pc \notin Half /\ o.pc \notin Half
    BY <1>1 DEF KeepsApart, Purging, Begun, Half
  <1>6. QED
    BY <1>1, <1>2, <1>4, <1>5, MoveIsKept

LEMMA AttemptIsKept ==
  ASSUME LedgerInv, VersionsTell, NEW p \in Process, Attempt(p), backend # "mongo"
  PROVE  Kept
  <1>1. proc[p].pc = "ready" /\ proc[p].pc \in Ready /\ proc[p].pc \notin Half /\ UNCHANGED <<backend, torn>>
    BY DEF Attempt, Ready, Half
  <1>2. CASE New(p)
    <2>1. Goto(p, "absent") /\ UNCHANGED stored
      BY <1>2 DEF Attempt
    <2>2. QED
      BY <1>1, <1>2, <2>1, AbsentIsKept
  <1>3. CASE ~New(p) /\ Current(p)
    <2>1. WriteNumbered(p) /\ Finish(p)
      BY <1>3 DEF Attempt
    <2>2. QED
      BY <1>1, <1>3, <2>1, NumberedIsKept DEF WriteNumbered
  <1>4. CASE ~New(p) /\ ~Current(p)
    <2>1. Finish(p) /\ UNCHANGED stored
      BY <1>4 DEF Attempt, Refuse
    <2>2. QED
      BY <1>1, <2>1, EndIsKept
  <1>5. QED
    BY <1>2, <1>3, <1>4

LEMMA PostgresIsKept ==
  ASSUME LedgerInv, VersionsTell, NEW p \in Process, PostgresCommit(p) \/ AioPostgresCommit(p)
  PROVE  Kept
  <1>1. backend # "mongo"
    BY DEF PostgresCommit, AioPostgresCommit, On
  <1>2. CASE Attempt(p)
    BY <1>1, <1>2, AttemptIsKept
  <1>3. CASE InsertNew(p) /\ UNCHANGED <<backend, torn>>
    <2>1. proc[p].pc \in Ready /\ Current(p) /\ WriteNumbered(p) /\ Finish(p)
      BY <1>3 DEF InsertNew, New, Current, Ready
    <2>2. QED
      BY <1>3, <2>1, NumberedIsKept DEF WriteNumbered
  <1>4. CASE proc[p].pc = "absent" /\ Refuse(p) /\ UNCHANGED <<backend, torn>>
    <2>1. proc[p].pc \notin Half
      BY <1>4 DEF Half
    <2>2. QED
      BY <1>4, <2>1, EndIsKept DEF Refuse
  <1>5. QED
    BY <1>2, <1>3, <1>4 DEF PostgresCommit, AioPostgresCommit

\* Write where the row was found to be the one read, else nothing.
LEMMA CasIsKept ==
  ASSUME LedgerInv, VersionsTell, NEW p \in Process, proc[p].pc \in Ready, CompareAndWrite(p),
         Reserved(p) \/ Plain(p)
  PROVE  Kept
  <1>1. UNCHANGED <<backend, torn>> /\ proc[p].pc \notin Half
    BY DEF CompareAndWrite, Ready, Half
  <1>2. Len(proc[p].seqs) = Len(proc[p].work.emits) \/ proc[p].work.emits = <<>>
    BY IdleCall DEF Reserved, Plain
  <1>3. CASE Current(p)
    <2>1. Write(p) /\ Finish(p)
      BY <1>3 DEF CompareAndWrite
    <2>2. QED
      BY <1>1, <1>2, <1>3, <2>1, GivenIsKept
  <1>4. CASE ~Current(p)
    <2>1. Finish(p) /\ UNCHANGED stored
      BY <1>4 DEF CompareAndWrite, Refuse
    <2>2. QED
      BY <1>1, <2>1, EndIsKept
  <1>5. QED
    BY <1>3, <1>4

\* p is given seqs before it looks at the row.
LEMMA GiveIsKept ==
  ASSUME LedgerInv, NEW p \in Process, proc[p].pc = "ready", NEW given \in Seq(Nat),
         proc' = [proc EXCEPT ![p].seqs = given], counter' \in Nat, counter <= counter',
         UNCHANGED <<backend, row, outbox, spawns, timer, handled, lives, torn>>,
         \A i \in DOMAIN given : given[i] <= counter'
           /\ (counter < given[i] \/ \E j \in DOMAIN proc[p].seqs : given[i] = proc[p].seqs[j]),
         \A i, j \in DOMAIN given : given[i] = given[j] => i = j
  PROVE  Kept
  <1> DEFINE o == proc[p]
             r == [o EXCEPT !.seqs = given]
  <1>1. /\ o \in Call /\ Flow(o) /\ r \in Call /\ r.pc = "ready" /\ r.copy = o.copy /\ r.event = o.event
        /\ r.work = o.work /\ r.seqs = given /\ RowOK /\ outbox \subseteq Entry /\ counter \in Nat
    BY ProcFacts DEF Call
  <1>2. proc' = [proc EXCEPT ![p] = r] /\ \A q \in Process : proc'[q] = IF q = p THEN r ELSE proc[q]
    BY DEF LedgerInv, CallsTyped
  <1>3. \A q \in Process : proc[q].seqs \in Seq(Nat) /\ Given(proc[q])
    BY ProcFacts DEF LedgerInv, SeqsOK
  <1>4. SeqsOK /\ SeqsUsed
    BY DEF LedgerInv, SeqsOK
  <1> HIDE DEF r
  <1>5. SeqsUsed'
    BY <1>1, <1>4 DEF SeqsUsed, Entry
  <1>6. ASSUME NEW q \in Process
        PROVE  Given(proc[q])'
    <2>1. CASE q = p
      <3>1. \A i \in DOMAIN given : \A x \in outbox : x.seq # given[i]
        <4>1. \A x \in outbox : x.seq \in Nat /\ x.seq <= counter
          BY <1>1, <1>4 DEF SeqsUsed, Entry
        <4>2. \A i \in DOMAIN given : given[i] \in Nat
          OBVIOUS
        <4>3. QED
          BY <1>1, <1>3, <4>1, <4>2 DEF Given
      <3>2. QED
        BY <1>1, <1>2, <2>1, <3>1 DEF Given
    <2>2. CASE q # p
      <3>1. \A i \in DOMAIN proc[q].seqs : proc[q].seqs[i] \in Nat
        BY <1>3
      <3>2. QED
        BY <1>1, <1>2, <1>3, <2>2, <3>1 DEF Given
    <2>3. QED
      BY <2>1, <2>2
  <1>7. ASSUME NEW q \in Process, q # p
        PROVE  \A i \in DOMAIN given, j \in DOMAIN proc[q].seqs : given[i] # proc[q].seqs[j]
    <2>1. NotShared(proc[p], proc[q])
      BY <1>4, <1>7 DEF SeqsOK
    <2>2. \A j \in DOMAIN proc[q].seqs : proc[q].seqs[j] \in Nat /\ proc[q].seqs[j] <= counter
      BY <1>3 DEF Given
    <2>3. \A i \in DOMAIN given : given[i] \in Nat
      OBVIOUS
    <2>4. QED
      BY <1>1, <2>1, <2>2, <2>3 DEF NotShared
  <1>8. ASSUME NEW q \in Process, NEW v \in Process, q # v
        PROVE  NotShared(proc[q], proc[v])'
    <2>1. CASE q = p
      BY <1>1, <1>2, <1>7, <1>8, <2>1 DEF NotShared
    <2>2. CASE v = p
      BY <1>1, <1>2, <1>7, <1>8, <2>2 DEF NotShared
    <2>3. CASE q # p /\ v # p
      BY <1>2, <1>4, <1>8, <2>3 DEF NotShared, SeqsOK
    <2>4. QED
      BY <2>1, <2>2, <2>3
  <1>9. SeqsOK'
    BY <1>5, <1>6, <1>8 DEF SeqsOK
  <1>10. Flow(r)
    BY <1>1 DEF Flow, Working, Watching, Listed, Looking, Ready, Fresh
  <1>11. ASSUME NEW q \in Process
         PROVE  (Flow(proc[q]) /\ HalfDone(proc[q]))'
    <2>1. PICK u : u = proc'[q]
      OBVIOUS
    <2>2. HalfDone(r)
      BY <1>1 DEF HalfDone, Half
    <2>3. Flow(u) /\ HalfDone(u)
      BY <1>2, <1>10, <2>1, <2>2 DEF LedgerInv
    <2>4. Flow(u)' /\ HalfDone(u)'
      BY <2>3, FlowShrinks
    <2>5. QED
      BY <2>1, <2>4
  <1>12. Apart'
    <2>1. KeepsApart(p, r)
      BY <1>1 DEF KeepsApart, Purging, Begun, Half
    <2>2. QED
      BY <1>1, <1>2, <2>1, ApartKept DEF LedgerInv
  <1>13. StoredTyped' /\ CallsTyped' /\ RowOK'
    BY <1>1, <1>2 DEF LedgerInv, StoredTyped, CallsTyped, RowOK
  <1>14. NothingLeftBehind'
    <2>1. \A q \in Process : proc'[q].pc = proc[q].pc
      BY <1>1, <1>2
    <2>2. QED
      BY <2>1 DEF LedgerInv, NothingLeftBehind, ToSelf
  <1>15. LedgerInv'
    BY <1>9, <1>11, <1>12, <1>13, <1>14 DEF LedgerInv
  <1>16. QED
    BY <1>15, StillIsLedger DEF Kept

LEMMA AppendFacts ==
  ASSUME NEW old \in Seq(Nat), NEW c \in Nat, \A i \in DOMAIN old : old[i] <= c,
         \A i, j \in DOMAIN old : old[i] = old[j] => i = j
  PROVE  LET given == Append(old, c + 1) IN
         /\ given \in Seq(Nat)
         /\ \A i \in DOMAIN given : given[i] <= c + 1 /\ (c < given[i] \/ \E j \in DOMAIN old : given[i] = old[j])
         /\ \A i, j \in DOMAIN given : given[i] = given[j] => i = j
  <1> DEFINE given == Append(old, c + 1)
  <1>1. PICK n \in Nat : n = Len(old)
    OBVIOUS
  <1>2. /\ DOMAIN old = 1 .. n /\ DOMAIN given = 1 .. (n + 1) /\ given \in Seq(Nat)
        /\ \A i \in 1 .. n : given[i] = old[i] /\ old[i] \in Nat
        /\ given[n + 1] = c + 1
    BY <1>1
  <1> HIDE DEF given
  <1>3. \A i \in 1 .. (n + 1) : i \in 1 .. n \/ i = n + 1
    OBVIOUS
  <1>4. ASSUME NEW i \in DOMAIN given
        PROVE  given[i] <= c + 1 /\ (c < given[i] \/ \E j \in DOMAIN old : given[i] = old[j])
    <2>1. CASE i \in 1 .. n
      BY <1>2, <2>1
    <2>2. CASE i = n + 1
      BY <1>2, <2>2
    <2>3. QED
      BY <1>2, <1>3, <2>1, <2>2
  <1>5. ASSUME NEW i \in DOMAIN given, NEW j \in DOMAIN given, given[i] = given[j]
        PROVE  i = j
    <2>1. ASSUME NEW m \in 1 .. n
          PROVE  given[m] # c + 1
      <3>1. given[m] \in Nat /\ given[m] <= c
        BY <1>2
      <3>2. QED
        BY <3>1
    <2>2. QED
      BY <1>2, <1>3, <1>5, <2>1
  <1>6. QED
    BY <1>2, <1>4, <1>5 DEF given

LEMMA BlockFacts ==
  ASSUME NEW c \in Nat, NEW k \in Nat
  PROVE  /\ Block(c, k) \in Seq(Nat)
         /\ \A i \in DOMAIN Block(c, k) : Block(c, k)[i] <= c + k /\ c < Block(c, k)[i]
         /\ \A i, j \in DOMAIN Block(c, k) : Block(c, k)[i] = Block(c, k)[j] => i = j
  <1>1. Block(c, k) \in Seq(Nat) /\ DOMAIN Block(c, k) = 1 .. k /\ \A i \in 1 .. k : Block(c, k)[i] = c + i
    BY DEF Block
  <1>2. QED
    BY <1>1

LEMMA IncrementIsKept ==
  ASSUME LedgerInv, NEW p \in Process, Increment(p)
  PROVE  Kept
  <1>1. proc[p].seqs \in Seq(Nat) /\ counter \in Nat /\ Given(proc[p])
    BY ProcFacts DEF LedgerInv, SeqsOK
  <1>2. /\ proc[p].pc = "ready" /\ counter' = counter + 1
        /\ proc' = [proc EXCEPT ![p].seqs = Append(proc[p].seqs, counter + 1)]
        /\ UNCHANGED <<backend, row, outbox, spawns, timer, handled, lives, torn>>
    BY DEF Increment
  <1>3. PICK old \in Seq(Nat) : old = proc[p].seqs
    BY <1>1
  <1>4. (\A i \in DOMAIN old : old[i] <= counter) /\ \A i, j \in DOMAIN old : old[i] = old[j] => i = j
    BY <1>1, <1>3 DEF Given
  <1>5. PICK given : given = Append(old, counter + 1)
    OBVIOUS
  <1>6. /\ given \in Seq(Nat)
        /\ \A i \in DOMAIN given : given[i] <= counter + 1 /\ (counter < given[i] \/ \E j \in DOMAIN old : given[i] = old[j])
        /\ \A i, j \in DOMAIN given : given[i] = given[j] => i = j
    BY <1>1, <1>4, <1>5, AppendFacts
  <1>7. counter' \in Nat /\ counter <= counter' /\ proc' = [proc EXCEPT ![p].seqs = given]
    BY <1>1, <1>2, <1>3, <1>5
  <1>8. \A i \in DOMAIN given : given[i] <= counter'
          /\ (counter < given[i] \/ \E j \in DOMAIN proc[p].seqs : given[i] = proc[p].seqs[j])
    BY <1>2, <1>3, <1>6
  <1>9. QED
    BY <1>2, <1>6, <1>7, <1>8, GiveIsKept

LEMMA ReserveIsKept ==
  ASSUME LedgerInv, NEW p \in Process, Reserve(p)
  PROVE  Kept
  <1>1. proc[p] \in Call /\ proc[p].work \in Work /\ counter \in Nat
    BY ProcFacts DEF Call
  <1>2. PICK k \in Nat : k = Len(proc[p].work.emits)
    BY <1>1, EmitsFacts
  <1>3. /\ proc[p].pc = "ready" /\ counter' = counter + k /\ proc' = [proc EXCEPT ![p].seqs = Block(counter, k)]
        /\ UNCHANGED <<backend, row, outbox, spawns, timer, handled, lives, torn>>
    BY <1>2 DEF Reserve
  <1>4. PICK given : given = Block(counter, k)
    OBVIOUS
  <1>5. /\ given \in Seq(Nat) /\ \A i \in DOMAIN given : given[i] <= counter + k /\ counter < given[i]
        /\ \A i, j \in DOMAIN given : given[i] = given[j] => i = j
    BY <1>1, <1>4, BlockFacts
  <1>6. counter' \in Nat /\ counter <= counter' /\ proc' = [proc EXCEPT ![p].seqs = given]
    BY <1>1, <1>3, <1>4
  <1>7. \A i \in DOMAIN given : given[i] <= counter'
          /\ (counter < given[i] \/ \E j \in DOMAIN proc[p].seqs : given[i] = proc[p].seqs[j])
    BY <1>3, <1>5
  <1>8. QED
    BY <1>3, <1>5, <1>6, <1>7, GiveIsKept

LEMMA WatchIsKept ==
  ASSUME LedgerInv, NEW p \in Process, Watch(p), backend = "redis"
  PROVE  Kept
  <1>1. proc[p].pc = "ready" /\ Reserved(p) /\ UNCHANGED <<backend, stored, torn>> /\ proc[p].pc \notin Half
    BY DEF Watch, Half
  <1>2. CASE ~Current(p)
    BY <1>1, <1>2, EndIsKept DEF Watch
  <1>3. CASE Current(p)
    <2> DEFINE o == proc[p]
               r == [o EXCEPT !.pc = "watched", !.seen = row]
    <2>1. o \in Call /\ Flow(o) /\ row \in Mark /\ NotNewer(row)
      BY ProcFacts
    <2>2. /\ r \in Call /\ r.pc = "watched" /\ r.copy = o.copy /\ r.event = o.event /\ r.seen = row
          /\ r.work = o.work /\ r.seqs = o.seqs
      BY <2>1 DEF Call, Pcs, Ready
    <2>3. proc' = [proc EXCEPT ![p] = r]
      BY <1>3 DEF Watch
    <2> HIDE DEF r
    <2>4. Flow(r)
      BY <1>1, <1>3, <2>1, <2>2 DEF Flow, Working, Watching, Listed, Looking, Ready, Fresh, Reserved, Current
    <2>5. KeepsApart(p, r) /\ r.pc \notin Half
      BY <2>2 DEF KeepsApart, Purging, Begun, Half
    <2>6. QED
      BY <1>1, <2>2, <2>3, <2>4, <2>5, MoveIsKept
  <1>4. QED
    BY <1>2, <1>3

LEMMA ExecIsKept ==
  ASSUME LedgerInv, VersionsTell, NEW p \in Process, Exec(p)
  PROVE  Kept
  <1>1. proc[p].pc = "watched" /\ proc[p].pc \in Ready /\ proc[p].pc \notin Half /\ UNCHANGED <<backend, torn>>
    BY DEF Exec, Ready, Half
  <1>2. proc[p].seen.ver = proc[p].copy.ver /\ Len(proc[p].seqs) = Len(proc[p].work.emits)
    BY <1>1, ProcFacts DEF Flow, Watching
  <1>3. CASE Untouched(p)
    BY <1>1, <1>2, <1>3, GivenIsKept DEF Exec, Untouched, Current
  <1>4. CASE ~Untouched(p)
    BY <1>1, <1>4, EndIsKept DEF Exec, Refuse
  <1>5. QED
    BY <1>3, <1>4

LEMMA RedisIsKept ==
  ASSUME LedgerInv, VersionsTell, NEW p \in Process, RedisCommit(p) \/ AioRedisCommit(p)
  PROVE  Kept
  <1>1. backend = "redis" /\ (Script(p) \/ Increment(p) \/ Watch(p) \/ Exec(p))
    BY DEF RedisCommit, AioRedisCommit, On
  <1>2. CASE Script(p)
    BY <1>2, CasIsKept DEF Script, Ready
  <1>3. QED
    BY <1>1, <1>2, IncrementIsKept, WatchIsKept, ExecIsKept

LEMMA MongoIsKept ==
  ASSUME LedgerInv, VersionsTell, NEW p \in Process, MongoCommit(p) \/ AioMongoCommit(p)
  PROVE  Kept
  <1>1. backend = "mongo" /\ (Reserve(p) \/ UpdateOne(p) \/ InsertOne(p))
    BY DEF MongoCommit, AioMongoCommit, On
  <1>2. CASE UpdateOne(p)
    <2>1. /\ proc[p].pc = "ready" /\ proc[p].pc \in Ready /\ proc[p].pc \notin Half /\ UNCHANGED <<backend, torn>>
          /\ Reserved(p)
      BY <1>2 DEF UpdateOne, Ready, Half
    <2>2. CASE New(p)
      BY <1>2, <2>1, <2>2, AbsentIsKept DEF UpdateOne
    <2>3. CASE ~New(p) /\ Current(p)
      BY <1>2, <2>1, <2>3, GivenIsKept DEF UpdateOne, Reserved
    <2>4. CASE ~New(p) /\ ~Current(p)
      BY <1>2, <2>1, <2>4, EndIsKept DEF UpdateOne, Refuse
    <2>5. QED
      BY <2>2, <2>3, <2>4
  <1>3. CASE InsertOne(p)
    <2>1. proc[p].pc = "absent" /\ CompareAndWrite(p) /\ proc[p].pc \in Ready
      BY <1>3 DEF InsertOne, Ready
    <2>2. Reserved(p)
      BY <1>1, <2>1, ProcFacts DEF Flow, Watching, Reserved
    <2>3. QED
      BY <2>1, <2>2, CasIsKept
  <1>4. QED
    BY <1>1, <1>2, <1>3, ReserveIsKept

LEMMA DynamoIsKept ==
  ASSUME LedgerInv, VersionsTell, NEW p \in Process, DynamoCommit(p) \/ AioDynamoCommit(p)
  PROVE  Kept
  <1>1. Reserve(p) \/ TransactWrite(p)
    BY DEF DynamoCommit, AioDynamoCommit
  <1>2. CASE TransactWrite(p)
    BY <1>2, CasIsKept DEF TransactWrite, Ready
  <1>3. QED
    BY <1>1, <1>2, ReserveIsKept
-----------------------------------------------------------------------------
(* The purges *)

\* What is deleted is deleted for good, and a purge that ends leaves nothing.
LEMMA EraseIsKept ==
  ASSUME LedgerInv, NEW p \in Process, NEW r \in Call, proc' = [proc EXCEPT ![p] = r],
         backend' = backend, lives' = lives, counter' = counter, row' = Gone,
         outbox' \subseteq outbox, spawns' \subseteq spawns, timer' = timer \/ timer' = Gone, handled' \subseteq handled,
         \A x \in outbox \ outbox' : x.to = "self" \/ (backend = "mongo" /\ x.life > 0),
         Flow(r), HalfDone(r)', KeepsApart(p, r), r.seqs = <<>> \/ r.seqs = proc[p].seqs,
         torn' = torn \/ torn' = FALSE,
         \/ r.pc \in Half
         \/ timer' = Gone /\ spawns' = {} /\ handled' = {} /\ Addressed(outbox)' = {}
  PROVE  Kept
  <1>1. Flow(r)'
    BY FlowShrinks
  <1>2. torn' \in BOOLEAN /\ (torn' => backend \in PurgesInSteps)
    <2>1. torn \in BOOLEAN /\ (torn => backend \in PurgesInSteps)
      BY ProcFacts DEF LedgerInv
    <2>2. CASE torn' = torn
      BY <2>1, <2>2
    <2>3. CASE torn' = FALSE
      BY <2>3
    <2>4. QED
      BY <2>2, <2>3
  <1>3. NothingLeftBehind'
    <2>1. CASE r.pc \in Half
      <3>1. proc'[p].pc \in Half
        BY <2>1 DEF LedgerInv, CallsTyped
      <3>2. QED
        BY <3>1 DEF NothingLeftBehind
    <2>2. CASE timer' = Gone /\ spawns' = {} /\ handled' = {} /\ Addressed(outbox)' = {}
      <3>1. \A x \in outbox' : x.life \in Nat
        BY ProcFacts DEF Entry
      <3>2. QED
        BY <2>2, <3>1 DEF NothingLeftBehind, ToSelf, Addressed
    <2>3. QED
      BY <2>1, <2>2
  <1>4. LedgerInv'
    BY <1>1, <1>2, <1>3, ShrinkKeeps
  <1>5. LedgerStep
    BY EraseIsLedger
  <1>6. QED
    BY <1>4, <1>5 DEF Kept

LEMMA EndOfPurge ==
  ASSUME LedgerInv, NEW p \in Process, Finish(p)
  PROVE  /\ Idle \in Call /\ proc' = [proc EXCEPT ![p] = Idle] /\ Flow(Idle) /\ HalfDone(Idle)'
         /\ KeepsApart(p, Idle) /\ Idle.seqs = <<>>
  <1>1. Flow(Idle) /\ ~Purging(Idle) /\ ~Begun(Idle) /\ Idle \in Call /\ Idle.seqs = <<>> /\ Idle.pc \notin Half
    BY IdleFlow, IdleCall, ProcFacts DEF Half
  <1>2. KeepsApart(p, Idle) /\ HalfDone(Idle)'
    BY <1>1 DEF KeepsApart, HalfDone
  <1>3. QED
    BY <1>1, <1>2 DEF Finish

\* A purge goes on to its next table.
LEMMA NextTable ==
  ASSUME LedgerInv, NEW p \in Process, Purging(proc[p]), NEW pc \in Half, Goto(p, pc)
  PROVE  LET r == [proc[p] EXCEPT !.pc = pc] IN
         /\ r \in Call /\ r.pc = pc /\ proc' = [proc EXCEPT ![p] = r] /\ Flow(r)
         /\ KeepsApart(p, r) /\ r.seqs = proc[p].seqs
  <1> DEFINE o == proc[p]
             r == [o EXCEPT !.pc = pc]
  <1>1. o \in Call /\ Flow(o)
    BY ProcFacts
  <1>2. /\ r \in Call /\ r.pc = pc /\ r.copy = o.copy /\ r.event = o.event /\ r.seen = o.seen
        /\ r.work = o.work /\ r.seqs = o.seqs
    BY <1>1 DEF Call, Pcs
  <1>3. proc' = [proc EXCEPT ![p] = r]
    BY DEF Goto
  <1> HIDE DEF r
  <1>4. Flow(r)
    BY <1>1, <1>2 DEF Flow, Working, Watching, Listed, Looking, Ready, Fresh, Half
  <1>5. KeepsApart(p, r)
    BY <1>2 DEF KeepsApart, Begun, Half
  <1>6. QED
    BY <1>2, <1>3, <1>4, <1>5 DEF r

LEMMA SelfGone ==
  ASSUME outbox' = outbox \ ToSelf
  PROVE  Addressed(outbox)' = {} /\ \A x \in outbox \ outbox' : x.to = "self"
  BY DEF Addressed, ToSelf

LEMMA PurgeInOneIsKept ==
  ASSUME LedgerInv, NEW p \in Process, PurgeInOne(p)
  PROVE  Kept
  <1>1. proc[p].pc = "condemned" /\ backend' = backend /\ proc[p].pc \notin Half
    BY DEF PurgeInOne, Half
  <1>2. CASE MovedOn(p)
    BY <1>1, <1>2, EndIsKept DEF PurgeInOne, Refuse
  <1>3. CASE ~MovedOn(p)
    <2>1. Wipe(ToSelf) /\ Finish(p) /\ torn' = FALSE
      BY <1>3 DEF PurgeInOne
    <2>2. Addressed(outbox)' = {} /\ \A x \in outbox \ outbox' : x.to = "self"
      BY <2>1, SelfGone DEF Wipe
    <2>3. QED
      BY <1>1, <2>1, <2>2, EndOfPurge, EraseIsKept DEF Wipe
  <1>4. QED
    BY <1>2, <1>3

LEMMA RedisPurgeIsKept ==
  ASSUME LedgerInv, NEW p \in Process, RedisPurge(p) \/ AioRedisPurge(p)
  PROVE  Kept
  <1>1. backend = "redis" /\ (ListUnderWatch(p) \/ DeleteListed(p))
    BY DEF RedisPurge, AioRedisPurge, On
  <1>2. CASE ListUnderWatch(p)
    <2>1. proc[p].pc = "condemned" /\ UNCHANGED <<backend, stored, torn>> /\ proc[p].pc \notin Half
      BY <1>2 DEF ListUnderWatch, Half
    <2>2. CASE MovedOn(p)
      BY <1>2, <2>1, <2>2, EndIsKept DEF ListUnderWatch
    <2>3. CASE ~MovedOn(p)
      <3> DEFINE o == proc[p]
                 r == [o EXCEPT !.pc = "listed", !.seen = row, !.listed = ToSelf]
      <3>1. o \in Call /\ Flow(o) /\ row \in Mark /\ NotNewer(row) /\ outbox \subseteq Entry
        BY ProcFacts
      <3>2. ToSelf \in SUBSET Entry
        BY <3>1 DEF ToSelf
      <3>3. /\ r \in Call /\ r.pc = "listed" /\ r.copy = o.copy /\ r.event = o.event /\ r.seen = row
            /\ r.work = o.work /\ r.seqs = o.seqs /\ r.listed = ToSelf
        BY <3>1, <3>2 DEF Call, Pcs
      <3>4. proc' = [proc EXCEPT ![p] = r]
        BY <1>2, <2>3 DEF ListUnderWatch
      <3> HIDE DEF r
      <3>5. Listed(r)
        BY <1>1, <3>3 DEF Listed, Addressed, ToSelf
      <3>6. Flow(r)
        BY <3>1, <3>3, <3>5 DEF Flow, Working, Watching, Looking, Ready, Fresh
      <3>7. KeepsApart(p, r) /\ r.pc \notin Half
        BY <3>3 DEF KeepsApart, Purging, Begun, Half
      <3>8. QED
        BY <2>1, <3>3, <3>4, <3>6, <3>7, MoveIsKept
    <2>4. QED
      BY <2>2, <2>3
  <1>3. CASE DeleteListed(p)
    <2>1. proc[p].pc = "listed" /\ backend' = backend /\ proc[p].pc \notin Half /\ Finish(p)
      BY <1>3 DEF DeleteListed, Half
    <2>2. CASE ~Untouched(p)
      BY <1>3, <2>1, <2>2, EndIsKept DEF DeleteListed
    <2>3. CASE Untouched(p)
      <3>1. Wipe(proc[p].listed) /\ torn' = FALSE
        BY <1>3, <2>3 DEF DeleteListed
      <3>2. Listed(proc[p])
        BY ProcFacts DEF Flow
      <3>3. \A x \in outbox \ outbox' : x.to = "self"
        BY <2>1, <3>1, <3>2 DEF Wipe, Listed
      <3>4. Addressed(outbox)' = {}
        <4>1. CASE row # Gone
          BY <2>1, <2>3, <3>1, <3>2, <4>1 DEF Wipe, Listed, Untouched, Addressed
        <4>2. CASE row = Gone
          <5>1. ~torn /\ \A q \in Process : proc[q].pc \notin Half
            BY <1>1 DEF LedgerInv, PurgesInSteps, HalfDone
          <5>2. \A x \in ToSelf : x.life = 0
            BY <4>2, <5>1 DEF LedgerInv, NothingLeftBehind
          <5>3. QED
            BY <3>1, <5>2 DEF Wipe, Addressed, ToSelf
        <4>3. QED
          BY <4>1, <4>2
      <3>5. QED
        BY <2>1, <3>1, <3>3, <3>4, EndOfPurge, EraseIsKept DEF Wipe
    <2>4. QED
      BY <2>2, <2>3
  <1>4. QED
    BY <1>1, <1>2, <1>3

LEMMA MongoPurgeIsKept ==
  ASSUME LedgerInv, NEW p \in Process, MongoPurge(p) \/ AioMongoPurge(p)
  PROVE  Kept
  <1>1. backend = "mongo" /\ (DeleteOne(p) \/ PullAddressed(p))
    BY DEF MongoPurge, AioMongoPurge, On
  <1>2. CASE DeleteOne(p)
    <2>1. proc[p].pc = "condemned" /\ UNCHANGED <<backend, torn>> /\ proc[p].pc \notin Half
      BY <1>2 DEF DeleteOne, Half
    <2>2. CASE MovedOn(p)
      BY <1>2, <2>1, <2>2, EndIsKept DEF DeleteOne, Refuse
    <2>3. CASE ~MovedOn(p)
      <3>1. Wipe({x \in outbox : x.life > 0}) /\ Goto(p, "pull")
        BY <1>2, <2>3 DEF DeleteOne
      <3>2. Purging(proc[p]) /\ "pull" \in Half
        BY <2>1 DEF Purging, Half
      <3>3. PICK r : r = [proc[p] EXCEPT !.pc = "pull"]
        OBVIOUS
      <3>4. /\ r \in Call /\ r.pc = "pull" /\ proc' = [proc EXCEPT ![p] = r] /\ Flow(r)
            /\ KeepsApart(p, r) /\ r.seqs = proc[p].seqs
        BY <3>1, <3>2, <3>3, NextTable
      <3>5. Addressed(outbox)' = {}
        BY <3>1 DEF Wipe, Addressed
      <3>6. HalfDone(r)'
        BY <1>1, <2>1, <3>1, <3>4, <3>5 DEF HalfDone, Emptied, Wipe, PurgesInSteps
      <3>7. /\ backend' = backend /\ lives' = lives /\ counter' = counter /\ row' = Gone
            /\ outbox' \subseteq outbox /\ spawns' \subseteq spawns /\ timer' = Gone /\ handled' \subseteq handled
            /\ \A x \in outbox \ outbox' : backend = "mongo" /\ x.life > 0
        BY <1>1, <2>1, <3>1 DEF Wipe
      <3>8. QED
        BY <2>1, <3>2, <3>4, <3>6, <3>7, EraseIsKept
    <2>4. QED
      BY <2>2, <2>3
  <1>3. CASE PullAddressed(p)
    <2>1. /\ proc[p].pc = "pull" /\ Finish(p) /\ torn' = FALSE /\ outbox' = outbox \ ToSelf
          /\ UNCHANGED <<backend, row, spawns, timer, handled, counter, lives>>
      BY <1>3 DEF PullAddressed
    <2>2. row = Gone /\ handled = {} /\ timer = Gone /\ spawns = {}
      BY <2>1, ProcFacts DEF HalfDone, Emptied, Half
    <2>3. Addressed(outbox)' = {} /\ \A x \in outbox \ outbox' : x.to = "self"
      BY <2>1, SelfGone
    <2>4. QED
      BY <2>1, <2>2, <2>3, EndOfPurge, EraseIsKept
  <1>4. QED
    BY <1>1, <1>2, <1>3

LEMMA DynamoPurgeIsKept ==
  ASSUME LedgerInv, NEW p \in Process, DynamoPurge(p) \/ AioDynamoPurge(p)
  PROVE  Kept
  <1>1. backend = "dynamodb" /\ (DeleteRow(p) \/ EmptyTables(p))
    BY DEF DynamoPurge, AioDynamoPurge, On
  <1>2. CASE DeleteRow(p)
    <2>1. /\ proc[p].pc = "condemned" /\ proc[p].pc \notin Half
          /\ UNCHANGED <<backend, outbox, spawns, timer, handled, counter, lives, torn>>
      BY <1>2 DEF DeleteRow, Half
    <2>2. CASE MovedOn(p)
      <3>1. Finish(p) /\ UNCHANGED stored
        BY <1>2, <2>2 DEF DeleteRow, stored
      <3>2. QED
        BY <2>1, <3>1, EndIsKept
    <2>3. CASE ~MovedOn(p)
      <3>1. row' = Gone /\ Goto(p, "processed")
        BY <1>2, <2>3 DEF DeleteRow
      <3>2. Purging(proc[p]) /\ "processed" \in Half
        BY <2>1 DEF Purging, Half
      <3>3. PICK r : r = [proc[p] EXCEPT !.pc = "processed"]
        OBVIOUS
      <3>4. /\ r \in Call /\ r.pc = "processed" /\ proc' = [proc EXCEPT ![p] = r] /\ Flow(r)
            /\ KeepsApart(p, r) /\ r.seqs = proc[p].seqs
        BY <3>1, <3>2, <3>3, NextTable
      <3>5. HalfDone(r)'
        BY <1>1, <2>1, <3>1, <3>4 DEF HalfDone, Emptied, PurgesInSteps
      <3>6. QED
        BY <2>1, <3>1, <3>2, <3>4, <3>5, EraseIsKept
    <2>4. QED
      BY <2>2, <2>3
  <1>3. CASE EmptyTables(p)
    <2>1. /\ proc[p].pc \in {"processed", "timers", "outbox", "spawns"} /\ UNCHANGED <<backend, row, counter, lives>>
      BY <1>3 DEF EmptyTables
    <2>2. proc[p].pc \in Half /\ Purging(proc[p])
      BY <2>1 DEF Half, Purging
    <2>3. row = Gone /\ row' = Gone /\ Emptied(proc[p].pc)
      BY <2>1, <2>2, ProcFacts DEF HalfDone
    <2>4. CASE proc[p].pc = "spawns"
      <3>1. spawns' = {} /\ Finish(p) /\ torn' = FALSE /\ UNCHANGED <<handled, timer, outbox>>
        BY <1>3, <2>4 DEF EmptyTables
      <3>2. handled = {} /\ timer = Gone /\ Addressed(outbox) = {}
        BY <2>3, <2>4 DEF Emptied
      <3>3. Addressed(outbox)' = {}
        BY <3>1, <3>2 DEF Addressed
      <3>4. QED
        BY <2>1, <2>3, <3>1, <3>2, <3>3, EndOfPurge, EraseIsKept
    <2>5. ASSUME NEW pc \in Half, Goto(p, pc), Emptied(pc)', torn' = torn,
                 outbox' \subseteq outbox, spawns' \subseteq spawns, timer' = timer \/ timer' = Gone,
                 handled' \subseteq handled, \A x \in outbox \ outbox' : x.to = "self"
          PROVE  Kept
      <3>1. PICK r : r = [proc[p] EXCEPT !.pc = pc]
        OBVIOUS
      <3>2. /\ r \in Call /\ r.pc = pc /\ proc' = [proc EXCEPT ![p] = r] /\ Flow(r)
            /\ KeepsApart(p, r) /\ r.seqs = proc[p].seqs
        BY <2>2, <2>5, <3>1, NextTable
      <3>3. HalfDone(r)'
        BY <1>1, <2>1, <2>3, <2>5, <3>2 DEF HalfDone, PurgesInSteps
      <3>4. QED
        BY <2>1, <2>3, <2>5, <3>2, <3>3, EraseIsKept
    <2>6. CASE proc[p].pc = "processed"
      <3>1. handled' = {} /\ Goto(p, "timers") /\ UNCHANGED <<timer, outbox, spawns, torn>>
        BY <1>3, <2>6 DEF EmptyTables
      <3>2. Emptied("timers")' /\ "timers" \in Half
        BY <3>1 DEF Emptied, Half
      <3>3. QED
        BY <2>5, <3>1, <3>2
    <2>7. CASE proc[p].pc = "timers"
      <3>1. timer' = Gone /\ Goto(p, "outbox") /\ UNCHANGED <<handled, outbox, spawns, torn>>
        BY <1>3, <2>7 DEF EmptyTables
      <3>2. Emptied("outbox")' /\ "outbox" \in Half
        BY <2>3, <2>7, <3>1 DEF Emptied, Half
      <3>3. QED
        BY <2>5, <3>1, <3>2
    <2>8. CASE proc[p].pc = "outbox"
      <3>1. outbox' = outbox \ ToSelf /\ Goto(p, "spawns") /\ UNCHANGED <<handled, timer, spawns, torn>>
        BY <1>3, <2>8 DEF EmptyTables
      <3>2. Addressed(outbox)' = {} /\ \A x \in outbox \ outbox' : x.to = "self"
        BY <3>1, SelfGone
      <3>3. Emptied("spawns")' /\ "spawns" \in Half
        BY <2>3, <2>8, <3>1, <3>2 DEF Emptied, Half
      <3>4. QED
        BY <2>5, <3>1, <3>2, <3>3
    <2>9. QED
      BY <2>1, <2>4, <2>6, <2>7, <2>8
  <1>4. QED
    BY <1>1, <1>2, <1>3
-----------------------------------------------------------------------------
(* Timers, relay, and the rest of the tree *)

LEMMA TimerIsKept ==
  ASSUME LedgerInv, NEW p \in Process, DeleteTimer(p) \/ RedisScore(p) \/ RedisRemove(p)
  PROVE  Kept
  <1>1. /\ proc[p].pc \in {"due", "scored"} /\ proc[p].pc \notin Half
        /\ UNCHANGED <<backend, row, outbox, spawns, handled, counter, lives, torn>>
    BY DEF DeleteTimer, RedisScore, RedisRemove, stored, Half
  <1>2. CASE Finish(p) /\ (timer' = timer \/ timer' = Gone)
    <2>1. Flow(Idle) /\ ~Purging(Idle) /\ ~Begun(Idle) /\ Idle \in Call /\ Idle.seqs = <<>> /\ Idle.pc \notin Half
      BY IdleFlow, IdleCall, ProcFacts DEF Half
    <2>2. KeepsApart(p, Idle) /\ HalfDone(Idle)
      BY <2>1 DEF KeepsApart, HalfDone
    <2>3. proc' = [proc EXCEPT ![p] = Idle]
      BY <1>2 DEF Finish
    <2>4. /\ torn' \in BOOLEAN /\ (torn => torn') /\ (torn' /\ ~torn => backend \in PurgesInSteps)
          /\ proc[p].pc \in Half /\ Idle.pc \notin Half => torn'
      BY <1>1, ProcFacts
    <2>5. LedgerInv'
      BY <1>1, <1>2, <2>1, <2>2, <2>3, <2>4, MoveKeeps
    <2>6. LedgerStep
      BY <1>1, <1>2, FireIsLedger
    <2>7. QED
      BY <2>5, <2>6 DEF Kept
  <1>3. CASE RedisScore(p) /\ Goto(p, "scored")
    <2> DEFINE o == proc[p]
               r == [o EXCEPT !.pc = "scored"]
    <2>1. o \in Call /\ Flow(o) /\ UNCHANGED stored
      BY <1>3, ProcFacts DEF RedisScore
    <2>2. /\ r \in Call /\ r.pc = "scored" /\ r.copy = o.copy /\ r.event = o.event /\ r.seen = o.seen
          /\ r.work = o.work /\ r.seqs = o.seqs
      BY <2>1 DEF Call, Pcs
    <2>3. proc' = [proc EXCEPT ![p] = r]
      BY <1>3 DEF Goto
    <2> HIDE DEF r
    <2>4. Flow(r)
      BY <2>1, <2>2 DEF Flow, Working, Watching, Listed, Looking, Ready, Fresh
    <2>5. KeepsApart(p, r) /\ r.pc \notin Half
      BY <2>2 DEF KeepsApart, Purging, Begun, Half
    <2>6. QED
      BY <1>1, <2>1, <2>2, <2>3, <2>4, <2>5, MoveIsKept
  <1>4. QED
    BY <1>2, <1>3 DEF DeleteTimer, RedisScore, RedisRemove, Guarded, stored

LEMMA CrashIsKept ==
  ASSUME LedgerInv, NEW p \in Process, Crash(p)
  PROVE  Kept
  <1>1. UNCHANGED <<backend, row, outbox, spawns, timer, handled, counter, lives>>
    BY DEF Crash, stored
  <1>2. Flow(Idle) /\ ~Purging(Idle) /\ ~Begun(Idle) /\ Idle \in Call /\ Idle.seqs = <<>> /\ Idle.pc \notin Half
    BY IdleFlow, IdleCall, ProcFacts DEF Half
  <1>3. KeepsApart(p, Idle) /\ HalfDone(Idle) /\ proc' = [proc EXCEPT ![p] = Idle]
    BY <1>2 DEF KeepsApart, HalfDone, Crash, Finish
  <1>4. torn' = (torn \/ proc[p].pc \in Half) /\ torn \in BOOLEAN /\ (proc[p].pc \in Half => backend \in PurgesInSteps)
    BY ProcFacts DEF Crash, HalfDone
  <1>5. /\ torn' \in BOOLEAN /\ (torn => torn') /\ (torn' /\ ~torn => backend \in PurgesInSteps)
        /\ proc[p].pc \in Half /\ Idle.pc \notin Half => torn'
    BY <1>4
  <1>6. LedgerInv'
    BY <1>1, <1>2, <1>3, <1>5, MoveKeeps
  <1>7. QED
    BY <1>1, <1>6, StillIsLedger DEF Kept

\* What others do to the outbox and the spawns while every process stays where it is.
LEMMA OthersKeep ==
  ASSUME LedgerInv, UNCHANGED <<backend, row, timer, handled, proc, lives, torn>>,
         spawns' \subseteq spawns, counter' \in Nat, counter <= counter', SeqsOK', outbox' \subseteq Entry,
         Addressed(outbox)' \subseteq Addressed(outbox), \A x \in outbox' : x \in outbox \/ x.life = 0
  PROVE  LedgerInv'
  <1>1. \A q \in Process : Flow(proc[q]) /\ HalfDone(proc[q])
    BY DEF LedgerInv
  <1>2. ASSUME NEW q \in Process
        PROVE  (Flow(proc[q]) /\ HalfDone(proc[q]))'
    <2>1. PICK o : o = proc[q]
      OBVIOUS
    <2>2. o = proc'[q] /\ Flow(o) /\ HalfDone(o)
      BY <1>1, <2>1
    <2>3. Listed(o)'
      BY <2>2 DEF Flow, Listed
    <2>4. HalfDone(o)'
      BY <2>2 DEF HalfDone, Emptied
    <2>5. Flow(o)'
      BY <2>2, <2>3 DEF Flow, NotNewer, Looking, Working, Watching, Fresh
    <2>6. QED
      BY <2>2, <2>4, <2>5
  <1>3. StoredTyped' /\ CallsTyped' /\ RowOK' /\ Apart'
    BY DEF LedgerInv, StoredTyped, CallsTyped, RowOK, Apart, Purging, Begun
  <1>4. NothingLeftBehind'
    BY DEF LedgerInv, NothingLeftBehind, ToSelf
  <1>5. QED
    BY <1>2, <1>3, <1>4 DEF LedgerInv

LEMMA DeliverIsKept ==
  ASSUME LedgerInv, NEW x, Deliver(x)
  PROVE  Kept
  <1>1. UNCHANGED <<backend, row, timer, handled, proc, lives, torn, outbox, spawns, counter>>
    BY DEF Deliver, stored
  <1>2. SeqsOK'
    BY <1>1 DEF LedgerInv, SeqsOK, SeqsUsed, Given, NotShared
  <1>3. counter \in Nat /\ outbox \subseteq Entry
    BY DEF LedgerInv, StoredTyped
  <1>4. LedgerInv'
    BY <1>1, <1>2, <1>3, OthersKeep DEF Addressed
  <1>5. QED
    BY <1>1, <1>4, StillIsLedger DEF Kept

LEMMA AckSpawnIsKept ==
  ASSUME LedgerInv, NEW x \in spawns, AckSpawn(x)
  PROVE  Kept
  <1>1. UNCHANGED <<backend, row, timer, handled, proc, lives, torn, outbox, counter>> /\ spawns' = spawns \ {x}
    BY DEF AckSpawn
  <1>2. SeqsOK'
    BY <1>1 DEF LedgerInv, SeqsOK, SeqsUsed, Given, NotShared
  <1>3. counter \in Nat /\ outbox \subseteq Entry
    BY DEF LedgerInv, StoredTyped
  <1>4. LedgerInv'
    BY <1>1, <1>2, <1>3, OthersKeep DEF Addressed
  <1>5. L!Deliver
    BY <1>1 DEF L!Deliver
  <1>6. QED
    BY <1>1, <1>4, <1>5 DEF Kept, LedgerStep, L!Next

LEMMA AckOutboxIsKept ==
  ASSUME LedgerInv, NEW x, AckOutbox(x)
  PROVE  Kept
  <1>1. /\ UNCHANGED <<backend, row, timer, handled, proc, lives, torn, spawns, counter>>
        /\ outbox' = {y \in outbox : y.seq # x.seq}
    BY DEF AckOutbox
  <1>2. PICK y \in outbox : y.seq = x.seq
    BY DEF AckOutbox
  <1>3. outbox' = outbox \ {y}
    BY <1>1, <1>2 DEF LedgerInv, SeqsOK, SeqsUsed
  <1>4. SeqsOK'
    BY <1>1, <1>3 DEF LedgerInv, SeqsOK, SeqsUsed, Given, NotShared
  <1>5. counter \in Nat /\ outbox \subseteq Entry
    BY DEF LedgerInv, StoredTyped
  <1>6. LedgerInv'
    BY <1>1, <1>3, <1>4, <1>5, OthersKeep DEF Addressed
  <1> DEFINE b == [life |-> y.life, ver |-> y.ver, event |-> y.event, to |-> y.to]
  <1>7. CASE b \in Box(outbox)'
    <2>1. Box(outbox)' = Box(outbox)
      BY <1>3, <1>7 DEF Box
    <2>2. QED
      BY <1>1, <1>6, <2>1 DEF Kept, LedgerStep, Tables
  <1>8. CASE b \notin Box(outbox)'
    <2>1. Box(outbox)' = Box(outbox) \ {b} /\ b \in Box(outbox)
      BY <1>3, <1>8 DEF Box
    <2>2. L!Deliver
      BY <1>1, <2>1 DEF L!Deliver, Box
    <2>3. QED
      BY <1>1, <1>6, <2>2 DEF Kept, LedgerStep, L!Next
  <1>9. QED
    BY <1>7, <1>8

LEMMA ReceiveIsKept ==
  ASSUME LedgerInv, Receive
  PROVE  Kept
  <1> DEFINE n == [seq |-> counter + 1, life |-> 0, ver |-> 0, event |-> Start, to |-> "self"]
  <1>1. /\ UNCHANGED <<backend, row, timer, handled, proc, lives, torn, spawns>>
        /\ counter' = counter + 1 /\ outbox' = outbox \cup {n}
    BY DEF Receive
  <1>2. counter \in Nat /\ outbox \subseteq Entry /\ SeqsOK /\ SeqsUsed
    BY DEF LedgerInv, StoredTyped, SeqsOK
  <1>3. n \in Entry /\ n.seq = counter + 1 /\ n.life = 0
    BY <1>2 DEF Entry
  <1>4. Box(outbox)' = Box(outbox) \cup {[life |-> 0, ver |-> 0, event |-> Start, to |-> "self"]}
    <2>1. Box({n}) = {[life |-> 0, ver |-> 0, event |-> Start, to |-> "self"]}
      BY DEF Box
    <2>2. Box(outbox)' = Box(outbox) \cup Box({n})
      BY <1>1 DEF Box
    <2>3. QED
      BY <2>1, <2>2
  <1>5. L!Receive
    BY <1>1, <1>4 DEF L!Receive, Box
  <1> HIDE DEF n
  <1>6. SeqsUsed'
    BY <1>1, <1>2, <1>3 DEF SeqsUsed, Entry
  <1>7. ASSUME NEW q \in Process
        PROVE  Given(proc[q])'
    <2>1. proc[q].seqs \in Seq(Nat) /\ Given(proc[q])
      BY <1>2, ProcFacts DEF SeqsOK
    <2>2. QED
      BY <1>1, <1>2, <1>3, <2>1 DEF Given
  <1>8. SeqsOK'
    BY <1>1, <1>2, <1>6, <1>7 DEF SeqsOK, NotShared
  <1>9. Addressed(outbox)' \subseteq Addressed(outbox) /\ counter' \in Nat /\ counter <= counter'
        /\ outbox' \subseteq Entry /\ \A x \in outbox' : x \in outbox \/ x.life = 0
    BY <1>1, <1>2, <1>3 DEF Addressed
  <1>10. LedgerInv'
    BY <1>1, <1>8, <1>9, OthersKeep
  <1>11. QED
    BY <1>1, <1>5, <1>10 DEF Kept, LedgerStep, L!Next
-----------------------------------------------------------------------------
LEMMA StoresInit ==
  ASSUME Init
  PROVE  LedgerInv /\ L!Init
  <1>1. \A p \in Process : proc[p] = Idle
    BY DEF Init
  <1>2. /\ row = Gone /\ lives = 0 /\ timer = Gone /\ outbox = {} /\ spawns = {} /\ handled = {}
        /\ counter = 0 /\ torn = FALSE
    BY DEF Init
  <1>3. StoredTyped /\ RowOK
    BY <1>2, GoneMark DEF StoredTyped, RowOK
  <1>4. CallsTyped
    BY <1>2, IdleCall DEF Init, CallsTyped
  <1>5. \A p \in Process : Flow(proc[p]) /\ HalfDone(proc[p]) /\ Given(proc[p]) /\ ~Purging(proc[p])
    BY <1>1, <1>3, IdleFlow DEF StoredTyped
  <1>6. SeqsOK
    BY <1>1, <1>2, <1>5, IdleCall DEF SeqsOK, SeqsUsed, NotShared
  <1>7. Apart /\ NothingLeftBehind
    BY <1>2, <1>5 DEF Apart, NothingLeftBehind, ToSelf
  <1>8. LedgerInv
    BY <1>2, <1>3, <1>4, <1>5, <1>6, <1>7 DEF LedgerInv
  <1>9. L!Init
    BY <1>2 DEF L!Init, L!Gone, Gone
  <1>10. QED
    BY <1>8, <1>9

LEMMA StoresStep ==
  ASSUME LedgerInv, VersionsTell, [Next]_vars
  PROVE  Kept
  <1>1. CASE UNCHANGED vars
    <2>1. UNCHANGED <<backend, row, timer, handled, proc, lives, torn, outbox, spawns, counter>>
      BY <1>1 DEF vars
    <2>2. SeqsOK'
      BY <2>1 DEF LedgerInv, SeqsOK, SeqsUsed, Given, NotShared
    <2>3. counter \in Nat /\ outbox \subseteq Entry
      BY DEF LedgerInv, StoredTyped
    <2>4. LedgerInv'
      BY <2>1, <2>2, <2>3, OthersKeep DEF Addressed
    <2>5. QED
      BY <2>1, <2>4, StillIsLedger DEF Kept
  <1>2. ASSUME NEW p \in Process,
               \/ \E e \in Event : \E w \in Works[e] : Load(p, e, w) \/ LoadForEvent(p, e, w)
               \/ Dedupe(p)
               \/ \E w \in Works[Start] : Create(p, w)
               \/ Condemn(p) \/ DueTimers(p) \/ DeleteTimer(p) \/ RedisScore(p) \/ RedisRemove(p) \/ Crash(p)
        PROVE  Kept
    BY <1>2, LoadIsKept, DedupeIsKept, CreateIsKept, CondemnIsKept, DueIsKept, TimerIsKept, CrashIsKept
  <1>3. ASSUME NEW p \in Process,
               \/ SqliteCommit(p) \/ AioSqliteCommit(p) \/ LibsqlCommit(p) \/ AioLibsqlCommit(p)
               \/ RqliteCommit(p) \/ AioRqliteCommit(p) \/ PostgresCommit(p) \/ AioPostgresCommit(p)
               \/ RedisCommit(p) \/ AioRedisCommit(p) \/ MongoCommit(p) \/ AioMongoCommit(p)
               \/ DynamoCommit(p) \/ AioDynamoCommit(p)
        PROVE  Kept
    <2>1. CASE Transaction(p) \/ Request(p)
      BY <2>1, TransactionIsKept
    <2>2. QED
      BY <1>3, <2>1, PostgresIsKept, RedisIsKept, MongoIsKept, DynamoIsKept
      DEF SqliteCommit, AioSqliteCommit, LibsqlCommit, AioLibsqlCommit, RqliteCommit, AioRqliteCommit
  <1>4. ASSUME NEW p \in Process,
               \/ SqlitePurge(p) \/ AioSqlitePurge(p) \/ LibsqlPurge(p) \/ AioLibsqlPurge(p)
               \/ RqlitePurge(p) \/ AioRqlitePurge(p) \/ PostgresPurge(p) \/ AioPostgresPurge(p)
               \/ RedisPurge(p) \/ AioRedisPurge(p) \/ MongoPurge(p) \/ AioMongoPurge(p)
               \/ DynamoPurge(p) \/ AioDynamoPurge(p)
        PROVE  Kept
    <2>1. CASE PurgeInOne(p)
      BY <2>1, PurgeInOneIsKept
    <2>2. QED
      BY <1>4, <2>1, RedisPurgeIsKept, MongoPurgeIsKept, DynamoPurgeIsKept
      DEF SqlitePurge, AioSqlitePurge, LibsqlPurge, AioLibsqlPurge, RqlitePurge, AioRqlitePurge,
          PostgresPurge, AioPostgresPurge
  <1>5. CASE Next
    BY <1>2, <1>3, <1>4, <1>5, DeliverIsKept, AckOutboxIsKept, AckSpawnIsKept, ReceiveIsKept DEF Next
  <1>6. QED
    BY <1>1, <1>5

LEMMA StoresInductive == Spec /\ []VersionsTell => []LedgerInv
  <1>1. Init => LedgerInv
    BY StoresInit
  <1>2. LedgerInv /\ VersionsTell /\ [Next]_vars => LedgerInv'
    BY StoresStep DEF Kept
  <1>3. QED
    BY <1>1, <1>2, PTL DEF Spec

\* commit and purge of every store (engine/store, engine/aio_store): as long as the version tells a
\* copy of the record from one of an earlier life of the id, an observer of the tables of a backend
\* sees nothing but whole commits, each from the version it was read at, and whole purges.
THEOREM StoresKeepTheLedger == Spec /\ []VersionsTell => KeepsLedger
  <1>1. Init => L!Init
    BY StoresInit
  <1>2. LedgerInv /\ VersionsTell /\ [Next]_vars
        => [L!Next /\ UNCHANGED <<backend = "mongo", backend = "dynamodb">>]_Tables
    BY StoresStep DEF Kept, LedgerStep
  <1>3. QED
    BY <1>1, <1>2, StoresInductive, PTL DEF Spec, KeepsLedger, L!Spec, Tables, Box

\* purge of every store: a new life of an id finds no timer, child, dedupe record or emit of an old
\* one, whatever the calls the purge took and whatever ran between them.
THEOREM PurgesAreWhole == Spec /\ []VersionsTell => []NothingLeftBehind
  <1>1. LedgerInv => NothingLeftBehind
    BY DEF LedgerInv
  <1>2. QED
    BY <1>1, StoresInductive, PTL
=============================================================================
