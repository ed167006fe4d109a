------------------------------- MODULE Listing -------------------------------
(***************************************************************************)
(* list_executions as each store pages it, and purge_finished, which pages *)
(* through the finished roots, collects the old ones and then deletes them *)
(* one by one while executions finish, come back and are purged by others. *)
(*   sqlite, libsql, rqlite, postgres   a query with LIMIT and OFFSET      *)
(*   dict                               the matches sorted, then cut       *)
(*   mongo                              an offset over the documents       *)
(*   dynamodb                           an offset over a scan's matches    *)
(*   redis                              SCAN, then the values it names     *)
(***************************************************************************)
EXTENDS Naturals, Sequences, FiniteSets, Functions

CONSTANTS
  Id,          \* 1 .. n, in the order the stores sort ids
  Root,        \* the ids of roots; the others are children
  First,       \* id -> what it may be when the job starts
  Stored,      \* the stores to choose from
  Limit,       \* the page size the job asks for
  MaxChanges   \* bound: what others do while the job runs

\* A finished execution is old when it finished before the job's cutoff; one without finished_at is
\* undated.  Live stands for every status that is not DONE or CANCELLED.
Kind == {"absent", "live", "old", "late", "undated"}
Sql == {"sqlite", "libsql", "rqlite", "postgres"}

ListingAssumption ==
  /\ IsFiniteSet(Id) /\ Id = 1 .. Cardinality(Id) /\ Root \subseteq Id
  /\ First \in [Id -> SUBSET Kind]
  /\ Stored \subseteq Sql \cup {"dict", "mongo", "dynamodb", "redis"}
  /\ Limit \in Nat \ {0} /\ MaxChanges \in Nat

VARIABLES
  store,    \* the backend, and the class of it: [name, face]
  table,    \* id -> [kind, ver]
  job,      \* the purge_finished under way: see Off
  steady,   \* history: the roots that were old all the time since the job began
  shrunk,   \* history: others took something out of the list while it was paged
  changes   \* history: what others did

vars == <<store, table, job, steady, shrunk, changes>>

Off == [phase |-> "off",      \* paging, scanned, deleting, loaded, done
        offset |-> 0,         \* the cursor, of all stores but redis
        unscanned |-> Id,     \* the cursor of redis: the slots SCAN has still to visit
        keys |-> {},          \* what the last SCAN returned
        candidates |-> <<>>, skipped |-> 0,
        copy |-> 0,           \* the version the root was loaded at
        purged |-> {}, refused |-> {},
        cap |-> 0,            \* at most so many are purged; 0 is no limit
        undated |-> FALSE, dry |-> FALSE]

Init == /\ store \in [name : Stored, face : {"sync", "aio"}]
        /\ table \in {t \in [Id -> [kind : Kind, ver : {1}]] : \A x \in Id : t[x].kind \in First[x]}
        /\ job = Off /\ steady = {} /\ shrunk = FALSE /\ changes = 0
-----------------------------------------------------------------------------
(* A page: what it lists, and the cursor it leaves *)

Matches(x) == table[x].kind \in {"old", "late", "undated"} /\ x \in Root
Matching == {x \in Id : Matches(x)}

\* Stores list by id.  A scan goes by the hash of the key, which is not that order.
Before(x, y) == IF store.name = "dynamodb" THEN y < x ELSE x < y
Place(x, S) == Cardinality({y \in S : Before(y, x)})
Sorted(S) == [i \in 1 .. Cardinality(S) |-> CHOOSE x \in S : Place(x, S) = i - 1]
Cut(s, off, n) == SubSeq(s, off + 1, IF off + n < Len(s) THEN off + n ELSE Len(s))

\* A page is the set of what it lists: the order is that of Sorted.
LastPage(items) == [items |-> items, more |-> FALSE, offset |-> 0]
Page(items, off) == [items |-> items, more |-> TRUE, offset |-> off]

\* A mistake: no row is asked for beyond the page.
QueryExactly(off) == Cut(Sorted(Matching), off, Limit)
\* WHERE, ORDER BY id, and one row more than the page holds.
Query(off) == Cut(Sorted(Matching), off, Limit + 1)

ListingPage(rows, off) ==
  IF Len(rows) > Limit THEN Page(Range(Cut(rows, 0, Limit)), off + Limit) ELSE LastPage(Range(rows))

OfMatches(all, off) ==
  LET items == Range(Cut(all, off, Limit)) IN
  IF off + Limit < Len(all) THEN Page(items, off + Limit) ELSE LastPage(items)

\* The documents after the offset, until the page is full: matching or not, each of them counts.
Documents == Sorted({x \in Id : table[x].kind # "absent"})
Skipping(off) ==
  LET rest == Cut(Documents, off, Len(Documents))
      upTo(n) == {rest[i] : i \in {k \in 1 .. n : Matches(rest[k])}}
      full == {n \in DOMAIN rest : Cardinality(upTo(n)) = Limit}
  IN IF full = {} THEN LastPage(upTo(Len(rest)))
     ELSE LET n == CHOOSE n \in full : \A k \in full : n <= k IN Page(upTo(n), off + n)
-----------------------------------------------------------------------------
(* purge_finished *)

Begin(cap, undated, dry) ==
  /\ job.phase = "off"
  /\ job' = [Off EXCEPT !.phase = "paging", !.cap = cap, !.undated = undated, !.dry = dry]
  /\ steady' = {x \in Root : table[x].kind = "old"}
  /\ UNCHANGED <<store, table, shrunk, changes>>

IsCandidate(x) == table[x].kind = "old" \/ (job.undated /\ table[x].kind = "undated")
IsSkipped(x) == ~job.undated /\ table[x].kind = "undated"

\* The page's candidates; then the next page, unless there is none or enough have been found.
TakeCandidates(items, more, next) ==
  LET all == job.candidates \o Sorted({x \in items : IsCandidate(x)})
      enough == job.cap > 0 /\ Len(all) >= job.cap
  IN /\ job' = [next EXCEPT !.candidates = IF job.cap = 0 THEN all ELSE Cut(all, 0, job.cap),
                            !.skipped = @ + Cardinality({x \in items : IsSkipped(x)}),
                            !.phase = IF more /\ ~enough THEN "paging" ELSE "deleting"]
     /\ UNCHANGED <<store, table, steady, shrunk, changes>>

Turn(page) == TakeCandidates(page.items, page.more, [job EXCEPT !.offset = page.offset])

Asks(name, face) == job.phase = "paging" /\ store = [name |-> name, face |-> face]

SqliteList == Asks("sqlite", "sync") /\ Turn(ListingPage(Query(job.offset), job.offset))
AioSqliteList == Asks("sqlite", "aio") /\ Turn(ListingPage(Query(job.offset), job.offset))
LibsqlList == Asks("libsql", "sync") /\ Turn(ListingPage(Query(job.offset), job.offset))
AioLibsqlList == Asks("libsql", "aio") /\ Turn(ListingPage(Query(job.offset), job.offset))
RqliteList == Asks("rqlite", "sync") /\ Turn(ListingPage(Query(job.offset), job.offset))
AioRqliteList == Asks("rqlite", "aio") /\ Turn(ListingPage(Query(job.offset), job.offset))
PostgresList == Asks("postgres", "sync") /\ Turn(ListingPage(Query(job.offset), job.offset))
AioPostgresList == Asks("postgres", "aio") /\ Turn(ListingPage(Query(job.offset), job.offset))
DictList == Asks("dict", "sync") /\ Turn(OfMatches(Sorted(Matching), job.offset))
AioDictList == Asks("dict", "aio") /\ Turn(OfMatches(Sorted(Matching), job.offset))
MongoList == Asks("mongo", "sync") /\ Turn(Skipping(job.offset))
AioMongoList == Asks("mongo", "aio") /\ Turn(Skipping(job.offset))
DynamoList == Asks("dynamodb", "sync") /\ Turn(OfMatches(Sorted(Matching), job.offset))
AioDynamoList == Asks("dynamodb", "aio") /\ Turn(OfMatches(Sorted(Matching), job.offset))

\* SCAN visits some of the slots left, and may return again what it returned before.
ScanKeys ==
  \E now \in SUBSET job.unscanned, again \in SUBSET (Id \ job.unscanned) :
    /\ now # {}
    /\ job' = [job EXCEPT !.phase = "scanned", !.unscanned = @ \ now,
                          !.keys = {x \in now \cup again : table[x].kind # "absent"}]
    /\ UNCHANGED <<store, table, steady, shrunk, changes>>

\* MGET of the keys, by when one may be gone: the rest is the page.
GetValues ==
  /\ job.phase = "scanned"
  /\ TakeCandidates({x \in job.keys : Matches(x)}, job.unscanned # {}, [job EXCEPT !.keys = {}])

RedisList == store = [name |-> "redis", face |-> "sync"] /\ (GetValues \/ (job.phase = "paging" /\ ScanKeys))
AioRedisList == store = [name |-> "redis", face |-> "aio"] /\ (GetValues \/ (job.phase = "paging" /\ ScanKeys))

Ends == /\ job.phase = "deleting" /\ job.candidates = <<>>
        /\ job' = [job EXCEPT !.phase = "done"]
        /\ UNCHANGED <<store, table, steady, shrunk, changes>>

NextCandidate(j) == [j EXCEPT !.phase = "deleting", !.candidates = Tail(@)]

\* The root is loaded and checked: gone is passed over, live is refused; a dry run reports the rest.
LoadsCandidate ==
  /\ job.phase = "deleting" /\ job.candidates # <<>>
  /\ LET x == Head(job.candidates)
         finished == table[x].kind \notin {"absent", "live"} IN
     job' = CASE table[x].kind = "absent" -> NextCandidate(job)
              [] table[x].kind = "live" -> NextCandidate([job EXCEPT !.refused = @ \cup {x}])
              [] finished /\ job.dry -> NextCandidate([job EXCEPT !.purged = @ \cup {x}])
              [] finished /\ ~job.dry -> [job EXCEPT !.phase = "loaded", !.copy = table[x].ver]
  /\ UNCHANGED <<store, table, steady, shrunk, changes>>

\* Deleted if it is still at the version it was checked at; StoreConflict is recorded as a refusal.
Deletes ==
  /\ job.phase = "loaded"
  /\ LET x == Head(job.candidates) IN
       IF table[x].kind # "absent" /\ table[x].ver = job.copy
       THEN /\ table' = [table EXCEPT ![x].kind = "absent"]
            /\ job' = NextCandidate([job EXCEPT !.purged = @ \cup {x}])
       ELSE /\ job' = NextCandidate([job EXCEPT !.refused = @ \cup {x}])
            /\ UNCHANGED table
  /\ UNCHANGED <<store, steady, shrunk, changes>>

\* The archiver raises: the run stops with what it has done.
ArchiverStops ==
  /\ job.phase = "loaded" /\ changes < MaxChanges
  /\ job' = [job EXCEPT !.phase = "stopped"]
  /\ changes' = changes + 1
  /\ UNCHANGED <<store, table, steady, shrunk>>
-----------------------------------------------------------------------------
(* Others *)

Paging == job.phase \in {"paging", "scanned"}

Becomes(x, kind) ==
  /\ job.phase # "off" /\ changes < MaxChanges
  /\ table' = [table EXCEPT ![x] = [kind |-> kind, ver |-> IF kind = "absent" THEN @.ver ELSE @.ver + 1]]
  /\ changes' = changes + 1
  /\ steady' = steady \ {x}
  /\ UNCHANGED <<store, job>>

Finishes(x) == table[x].kind = "live" /\ Becomes(x, "late") /\ UNCHANGED shrunk
Creates(x) == table[x].kind = "absent" /\ Becomes(x, "live") /\ UNCHANGED shrunk
\* A Reset brings a finished execution back: it leaves the list, and its document stays.
Revives(x) == /\ table[x].kind \in {"old", "late", "undated"}
              /\ Becomes(x, "live")
              /\ shrunk' = (shrunk \/ (Paging /\ store.name # "mongo"))
PurgedByOther(x) == /\ table[x].kind \in {"old", "late", "undated"}
                    /\ Becomes(x, "absent")
                    /\ shrunk' = (shrunk \/ Paging)
-----------------------------------------------------------------------------
Next ==
  \/ \E cap \in {0, 1}, undated, dry \in BOOLEAN : Begin(cap, undated, dry)
  \/ SqliteList \/ AioSqliteList \/ LibsqlList \/ AioLibsqlList \/ RqliteList \/ AioRqliteList
  \/ PostgresList \/ AioPostgresList \/ DictList \/ AioDictList \/ MongoList \/ AioMongoList
  \/ DynamoList \/ AioDynamoList \/ RedisList \/ AioRedisList
  \/ LoadsCandidate \/ Deletes \/ Ends \/ ArchiverStops
  \/ \E x \in Id : Finishes(x) \/ Creates(x) \/ Revives(x) \/ PurgedByOther(x)

Spec == Init /\ [][Next]_vars
-----------------------------------------------------------------------------
(* Properties *)

\* A run without a limit that came to its end took every root that was old from its start to its
\* end, unless others took something out of the list while it was paged: an offset then skips one
\* that was never offered.  SCAN has no offset, and misses none whatever others do.
NoneMissed ==
  (job.phase = "done" /\ job.cap = 0 /\ ~job.dry) =>
    \A x \in steady : x \in job.purged \/ (shrunk /\ store.name # "redis")
=============================================================================
