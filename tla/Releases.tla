------------------------------- MODULE Releases -------------------------------
(***************************************************************************)
(* One version of one machine in a store's table of definitions: several   *)
(* processes of a deployment publish it at once, each with its own text,   *)
(* and others look it up.  Every store first inserts what is not there yet *)
(* and then reads what is; the dict does both in one step.                 *)
(***************************************************************************)
EXTENDS Naturals

CONSTANTS
  Publisher,   \* processes that publish the version; each may start again after it ended
  Edition,        \* the definitions they may have for it, told apart by their digest
  None,
  Stored,      \* the stores to choose from
  MaxAttempts  \* bound: how often a process asks

ReleasesAssumption == None \notin Edition /\ MaxAttempts \in Nat

VARIABLES
  store,       \* the backend
  face,        \* process -> the class it uses of it, sync or aio
  mine,        \* process -> the text it publishes
  stored,      \* what the table holds for the version
  at,          \* process -> idle, inserting, reading
  asked,       \* process -> how often it asked
  publishes,   \* process -> whether it publishes, or only looks the version up
  answer       \* process -> what it was answered last

vars == <<store, face, mine, stored, at, asked, publishes, answer>>

\* The dict is memory of one process, and its two classes share nothing.
Init == /\ store \in Stored /\ face \in [Publisher -> {"sync", "aio"}]
        /\ store = "dict" => \A p, q \in Publisher : face[p] = face[q]
        /\ mine \in [Publisher -> Edition]
        /\ stored = None
        /\ at = [p \in Publisher |-> "idle"] /\ asked = [p \in Publisher |-> 0]
        /\ publishes = [p \in Publisher |-> FALSE] /\ answer = [p \in Publisher |-> None]

Uses(p, name, f) == store = name /\ face[p] = f

Asks(p, place, publishing) ==
  /\ at[p] = "idle" /\ asked[p] < MaxAttempts
  /\ at' = [at EXCEPT ![p] = place] /\ asked' = [asked EXCEPT ![p] = @ + 1]
  /\ publishes' = [publishes EXCEPT ![p] = publishing]
  /\ UNCHANGED <<stored, answer>>

Publish(p) == Asks(p, "inserting", TRUE)
LookUp(p) == Asks(p, "reading", FALSE)

\* INSERT OR IGNORE, ON CONFLICT DO NOTHING, HSETNX, insert_one, attribute_not_exists.
Overwrite(p) == stored' = mine[p]    \* A mistake: the last one stands.
IfAbsent(p) == stored' = IF stored = None THEN mine[p] ELSE stored

Inserts(p) == /\ at[p] = "inserting" /\ IfAbsent(p)
              /\ at' = [at EXCEPT ![p] = "reading"]
              /\ UNCHANGED <<asked, publishes, answer>>

Reads(p) == /\ at[p] = "reading"
            /\ answer' = [answer EXCEPT ![p] = stored]
            /\ at' = [at EXCEPT ![p] = "idle"]
            /\ UNCHANGED <<stored, asked, publishes>>

SetDefault(p) == /\ at[p] = "inserting" /\ IfAbsent(p)
                 /\ answer' = [answer EXCEPT ![p] = stored']
                 /\ at' = [at EXCEPT ![p] = "idle"]
                 /\ UNCHANGED <<asked, publishes>>

SqlitePublish(p) == Uses(p, "sqlite", "sync") /\ Inserts(p)
AioSqlitePublish(p) == Uses(p, "sqlite", "aio") /\ Inserts(p)
LibsqlPublish(p) == Uses(p, "libsql", "sync") /\ Inserts(p)
AioLibsqlPublish(p) == Uses(p, "libsql", "aio") /\ Inserts(p)
RqlitePublish(p) == Uses(p, "rqlite", "sync") /\ Inserts(p)
AioRqlitePublish(p) == Uses(p, "rqlite", "aio") /\ Inserts(p)
PostgresPublish(p) == Uses(p, "postgres", "sync") /\ Inserts(p)
AioPostgresPublish(p) == Uses(p, "postgres", "aio") /\ Inserts(p)
RedisPublish(p) == Uses(p, "redis", "sync") /\ Inserts(p)
AioRedisPublish(p) == Uses(p, "redis", "aio") /\ Inserts(p)
MongoPublish(p) == Uses(p, "mongo", "sync") /\ Inserts(p)
AioMongoPublish(p) == Uses(p, "mongo", "aio") /\ Inserts(p)
DynamoPublish(p) == Uses(p, "dynamodb", "sync") /\ Inserts(p)
AioDynamoPublish(p) == Uses(p, "dynamodb", "aio") /\ Inserts(p)
DictPublish(p) == Uses(p, "dict", "sync") /\ SetDefault(p)
AioDictPublish(p) == Uses(p, "dict", "aio") /\ SetDefault(p)

SqliteLoad(p) == Uses(p, "sqlite", "sync") /\ Reads(p)
AioSqliteLoad(p) == Uses(p, "sqlite", "aio") /\ Reads(p)
LibsqlLoad(p) == Uses(p, "libsql", "sync") /\ Reads(p)
AioLibsqlLoad(p) == Uses(p, "libsql", "aio") /\ Reads(p)
RqliteLoad(p) == Uses(p, "rqlite", "sync") /\ Reads(p)
AioRqliteLoad(p) == Uses(p, "rqlite", "aio") /\ Reads(p)
PostgresLoad(p) == Uses(p, "postgres", "sync") /\ Reads(p)
AioPostgresLoad(p) == Uses(p, "postgres", "aio") /\ Reads(p)
RedisLoad(p) == Uses(p, "redis", "sync") /\ Reads(p)
AioRedisLoad(p) == Uses(p, "redis", "aio") /\ Reads(p)
MongoLoad(p) == Uses(p, "mongo", "sync") /\ Reads(p)
AioMongoLoad(p) == Uses(p, "mongo", "aio") /\ Reads(p)
DynamoLoad(p) == Uses(p, "dynamodb", "sync") /\ Reads(p)
AioDynamoLoad(p) == Uses(p, "dynamodb", "aio") /\ Reads(p)
DictLoad(p) == Uses(p, "dict", "sync") /\ Reads(p)
AioDictLoad(p) == Uses(p, "dict", "aio") /\ Reads(p)

\* The process ends, or a call raises: what it inserted stays.
Stops(p) == /\ at[p] # "idle" /\ at' = [at EXCEPT ![p] = "idle"]
            /\ UNCHANGED <<stored, asked, publishes, answer>>

PublishDefinition(p) ==
  \/ SqlitePublish(p) \/ AioSqlitePublish(p) \/ LibsqlPublish(p) \/ AioLibsqlPublish(p)
  \/ RqlitePublish(p) \/ AioRqlitePublish(p) \/ PostgresPublish(p) \/ AioPostgresPublish(p)
  \/ RedisPublish(p) \/ AioRedisPublish(p) \/ MongoPublish(p) \/ AioMongoPublish(p)
  \/ DynamoPublish(p) \/ AioDynamoPublish(p) \/ DictPublish(p) \/ AioDictPublish(p)

LoadDefinition(p) ==
  \/ SqliteLoad(p) \/ AioSqliteLoad(p) \/ LibsqlLoad(p) \/ AioLibsqlLoad(p)
  \/ RqliteLoad(p) \/ AioRqliteLoad(p) \/ PostgresLoad(p) \/ AioPostgresLoad(p)
  \/ RedisLoad(p) \/ AioRedisLoad(p) \/ MongoLoad(p) \/ AioMongoLoad(p)
  \/ DynamoLoad(p) \/ AioDynamoLoad(p) \/ DictLoad(p) \/ AioDictLoad(p)

Next == /\ \E p \in Publisher : Publish(p) \/ LookUp(p) \/ PublishDefinition(p)
                                \/ LoadDefinition(p) \/ Stops(p)
        /\ UNCHANGED <<store, face, mine>>

Spec == Init /\ [][Next]_vars
-----------------------------------------------------------------------------
\* Whoever was answered with a text has the one text the version stands for, whichever publisher won
\* and whatever was cut short; and a publisher, unlike one that looks up, is always answered (the
\* assertion in each publish_definition).
OneText == \A p \in Publisher :
  /\ answer[p] # None => answer[p] = stored
  /\ at[p] = "reading" /\ publishes[p] => stored # None
=============================================================================
