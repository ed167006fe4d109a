------------------------------- MODULE MCStores -------------------------------
(***************************************************************************)
(* An instance for TLC, which chooses in its initial state what it looks   *)
(* at: a sync and an async process working on one execution id (Stores), a *)
(* purge_finished that lists many of them (Listing), the timeline of one   *)
(* (Timeline), the heartbeats of a worker (Heartbeats), or the table of    *)
(* definitions that processes publish into (Releases).                     *)
(***************************************************************************)
EXTENDS Stores, TLC

CONSTANTS s, a, e1, e2

MCFace == s :> "sync" @@ a :> "aio"

Quiet == [emits |-> <<>>, spawn |-> FALSE, timer |-> "none"]
Arm == [emits |-> <<>>, spawn |-> FALSE, timer |-> "schedule"]
Fork == [emits |-> <<"other">>, spawn |-> TRUE, timer |-> "schedule"]
Disarm == [emits |-> <<>>, spawn |-> FALSE, timer |-> "cancel"]

MCWorks == Start :> {Quiet, Arm} @@ e1 :> {Fork} @@ e2 :> {Quiet, Disarm}
-----------------------------------------------------------------------------
VARIABLE look

CONSTANTS Id, Root, Stored, Limit, MaxChanges
VARIABLES store, table, job, steady, shrunk, changes
list == <<store, table, job, steady, shrunk, changes>>
First == 1 :> {"old"} @@ 2 :> {"old"} @@ 3 :> {"old", "undated"} @@ 4 :> {"old", "live"}
Many == INSTANCE Listing

CONSTANTS Ring, MaxIndex
VARIABLES keeper, version, trace, next, writer, shown, steps
line == <<keeper, version, trace, next, writer, shown, steps>>
Steps == INSTANCE Timeline WITH store <- keeper, counter <- next, proc <- writer, log <- steps

CONSTANTS Worker, Interval, Beats, Lag, MaxFaults, MaxForgets
VARIABLES beat, worker, screen, bounded, missed, since
hearts == <<beat, worker, screen, bounded, missed, since>>
Hearts == INSTANCE Heartbeats WITH table <- beat, count <- bounded

CONSTANTS Publisher, Edition, NoEdition, MaxAttempts
VARIABLES shelf, class, own, kept, place, asked, publishes, answer
releases == <<shelf, class, own, kept, place, asked, publishes, answer>>
Table == INSTANCE Releases WITH
  None <- NoEdition, store <- shelf, face <- class, mine <- own, stored <- kept, at <- place

ASSUME InstanceAssumption ==
  /\ Many!ListingAssumption /\ Steps!TimelineAssumption
  /\ Hearts!HeartbeatsAssumption /\ Table!ReleasesAssumption

Dict == [name |-> "dict", face |-> "sync"]

\* What is not looked at stays in one state.
MCInit == /\ look \in {"id", "list", "line", "hearts", "releases"}
          /\ Init /\ Many!Init /\ Steps!Init /\ Hearts!Init /\ Table!Init
          /\ look # "id" => backend = "sqlite"
          /\ look # "list" => store = Dict /\ \A x \in Id : table[x].kind = "old"
          /\ look # "line" => keeper = Dict
          /\ look # "releases" => /\ shelf = "dict" /\ \A p \in Publisher : class[p] = "sync"
                                  /\ own = [p \in Publisher |-> CHOOSE t \in Edition : TRUE]

MCNext == \/ look = "id" /\ Next /\ UNCHANGED <<look, list, line, hearts, releases>>
          \/ look = "list" /\ Many!Next /\ UNCHANGED <<look, vars, line, hearts, releases>>
          \/ look = "line" /\ Steps!Next /\ UNCHANGED <<look, vars, list, hearts, releases>>
          \/ look = "hearts" /\ Hearts!Next /\ UNCHANGED <<look, vars, list, line, releases>>
          \/ look = "releases" /\ Table!Next /\ UNCHANGED <<look, vars, list, line, hearts>>

MCSpec == MCInit /\ [][MCNext]_<<look, vars, list, line, hearts, releases>>

\* A run without a limit that came to its end took every root that was old from its start to its
\* end, unless others took something out of the list while it was paged (see Listing).
NoneMissed == Many!NoneMissed

\* A monitor is shown the last steps committed, in the order of the commits (see Timeline).
TimelineTrue == Steps!TimelineTrue

\* The index of the dynamodb store stays contiguous.  Refuted (see Timeline).
Contiguous == Steps!Contiguous

\* A worker whose loop is not held up and that missed at most one beat is shown as live (see
\* Heartbeats).
WorkingIsLive == Hearts!WorkingIsLive

\* Whoever was answered has the one text the version stands for (see Releases).
OneText == Table!OneText

\* A worker shown as gone has stopped or crashed.  Refuted (see Heartbeats).
GoneIsGone == Hearts!GoneIsGone
=============================================================================
