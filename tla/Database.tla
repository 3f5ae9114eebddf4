------------------------------ MODULE Database ------------------------------
(***************************************************************************)
(* core/runtime/db.py: the pool of connections to external databases,      *)
(* run_migrations, and "pygo db seed" of cli/pygo.py, each with its own    *)
(* next-state relation.                                                    *)
(***************************************************************************)
EXTENDS Dicts, Sequences, FiniteSets

CONSTANTS
    Paths,          \* values of db_path; one of them is Default
    DbName,         \* DbName[path]: the database the path leads to
    Default,        \* the key "default"
    PoolSize,       \* _POOL_SIZE
    MaxDbConns,     \* bound: connections created
    Migrations,     \* Migrations[m] = [idem: statements succeed when repeated,
                    \*                  undo: has an @rollback comment]
    Statements,     \* statements of a migration
    Seeders,        \* processes that seed
    Emails          \* e-mail addresses of the test users

\* A path that is the bare name of a database, and not Default, leads there.
ASSUME DatabaseAssumption ==
    /\ Default \in Paths
    /\ \A p, q \in Paths : DbName[p] = q => DbName[q] = q
    /\ PoolSize \in Nat /\ Statements \in Nat \ {0}
    /\ Seeders # {} /\ "nobody" \notin Seeders

-----------------------------------------------------------------------------
(* _get_connection and _return_connection for PostgreSQL and MySQL *)

VARIABLES
    pooled,     \* key -> its idle connections
    dbConns,    \* connections created: [db, info: conn.info of the driver]
    inUse,      \* connection -> the path it was handed out for
    lost        \* connections neither pooled nor closed when their block ended

poolVars == <<pooled, dbConns, inUse, lost>>

Keys == Paths \cup {DbName[p] : p \in Paths}

PoolInit ==
    /\ pooled = EmptyDict
    /\ dbConns = <<>>
    /\ inUse = EmptyDict
    /\ lost = {}

\* The key is made before anything can fail.
Known(k) == IF k \in DOMAIN pooled THEN pooled[k] ELSE {}

GetPooled(p) ==
    \E c \in Known(p) :
        /\ pooled' = [pooled EXCEPT ![p] = @ \ {c}]
        /\ inUse' = Put(inUse, c, p)
        /\ UNCHANGED <<dbConns, lost>>

\* _create_external_connection; a driver has conn.info as a dictionary, has
\* none, or has an object without get.
GetCreated(p) ==
    LET c == Len(dbConns) + 1 IN
    /\ Known(p) = {}
    /\ c <= MaxDbConns
    /\ pooled' = Put(pooled, p, {})
    /\ \E info \in {"named", "none", "object"} :
          dbConns' = Append(dbConns, [db |-> DbName[p], info |-> info])
    /\ inUse' = Put(inUse, c, p)
    /\ UNCHANGED lost

GetFails(p) ==
    /\ Known(p) = {}
    /\ pooled' = Put(pooled, p, {})
    /\ UNCHANGED <<dbConns, inUse, lost>>

\* The connection goes to key k when there is such a key with room, and is
\* closed otherwise.
PutBack(c, k) ==
    /\ c \in DOMAIN inUse /\ dbConns[c].info # "object"
    /\ pooled' = IF k \in DOMAIN pooled /\ Cardinality(Known(k)) < PoolSize
                 THEN [pooled EXCEPT ![k] = @ \cup {c}] ELSE pooled
    /\ inUse' = Drop(inUse, {c})
    /\ UNCHANGED <<dbConns, lost>>

ReturnToDefault(c) == PutBack(c, Default)

ReturnDb(c) ==
    PutBack(c, IF dbConns[c].info = "named" THEN dbConns[c].db ELSE Default)

\* conn.info.get raises AttributeError: the connection is forgotten open.
ReturnRaises(c) ==
    /\ c \in DOMAIN inUse /\ dbConns[c].info = "object"
    /\ lost' = lost \cup {c}
    /\ inUse' = Drop(inUse, {c})
    /\ UNCHANGED <<pooled, dbConns>>

PoolNext ==
    \/ \E p \in Paths : GetPooled(p) \/ GetCreated(p) \/ GetFails(p)
    \/ \E c \in DOMAIN inUse : ReturnDb(c) \/ ReturnRaises(c)

\* A connection is handed out only for a path that leads to its database, although it is
\* looked up by path and put back by name; the one exception is the path that is itself
\* "default", which gets whatever connection of a driver without info was returned.  No
\* connection is idle twice, or idle and in use; and no key keeps more than _POOL_SIZE.
DbPoolSafe ==
    /\ \A c \in DOMAIN inUse : \/ dbConns[c].db = DbName[inUse[c]]
                               \/ dbConns[c].info = "none" /\ inUse[c] = Default
    /\ \A k \in Keys :
          /\ Known(k) \cap DOMAIN inUse = {}
          /\ \A l \in Keys \ {k} : Known(k) \cap Known(l) = {}
          /\ Cardinality(Known(k)) <= PoolSize

\* The inductive invariant: a connection is idle under the name of its database
\* or, when the driver does not tell it, under Default, and what is in use for a
\* path leads there or came from under Default.
DbPoolIInv ==
    /\ dbConns \in Seq([db : {DbName[p] : p \in Paths}, info : {"named", "none", "object"}])
    /\ DOMAIN inUse \subseteq DOMAIN dbConns
    /\ \A c \in DOMAIN inUse : inUse[c] \in Paths
    /\ pooled \in [DOMAIN pooled -> SUBSET DOMAIN dbConns]
    /\ \A k \in DOMAIN pooled :
          /\ IsFiniteSet(pooled[k]) /\ Cardinality(pooled[k]) <= PoolSize
          /\ pooled[k] \cap DOMAIN inUse = {}
          /\ \A l \in DOMAIN pooled \ {k} : pooled[k] \cap pooled[l] = {}
          /\ \A c \in pooled[k] : dbConns[c].db = k \/ (dbConns[c].info = "none" /\ k = Default)
    /\ \A c \in DOMAIN inUse : \/ dbConns[c].db = DbName[inUse[c]]
                               \/ dbConns[c].info = "none" /\ inUse[c] = Default

-----------------------------------------------------------------------------
(* run_migrations on SQLite *)

VARIABLES
    schema,     \* <<m, n>>: statement n of migration m is in effect
    at,         \* <<m, n>>: the statement to run next; <<0, 0>> when idle
    applied,    \* applied so far in this run
    succeeded,  \* history: migrations that were applied by some run
    repeated    \* history: migrations executed again after they were applied

migVars == <<schema, at, applied, succeeded, repeated>>

MigInit ==
    /\ schema = {} /\ at = <<0, 0>> /\ applied = {}
    /\ succeeded = {} /\ repeated = {}

\* There is no record of what earlier calls applied: every call runs all.
MigrateBegin ==
    /\ at = <<0, 0>>
    /\ at' = <<1, 1>>
    /\ applied' = {}
    /\ repeated' = repeated \cup ({1} \cap succeeded)
    /\ UNCHANGED <<schema, succeeded>>

Clashes == at \in schema /\ ~Migrations[at[1]].idem

\* executescript commits statement by statement.
MigrateStatement ==
    LET m == at[1]
        last == at[2] = Statements
        next == IF ~last THEN <<m, at[2] + 1>>
                ELSE IF m = Len(Migrations) THEN <<0, 0>> ELSE <<m + 1, 1>>
    IN  /\ m # 0 /\ ~Clashes
        /\ schema' = schema \cup {at}
        /\ at' = next
        /\ applied' = IF last THEN applied \cup {m} ELSE applied
        /\ succeeded' = IF last THEN succeeded \cup {m} ELSE succeeded
        /\ repeated' = IF last THEN repeated \cup ({next[1]} \cap succeeded)
                               ELSE repeated

\* A statement fails: the rollback of this migration alone, and only when
\* an earlier one was applied by this call; then the exception goes on.
FailUndoing(undone) ==
    /\ at # <<0, 0>>
    /\ schema' = {x \in schema : x[1] \notin undone}
    /\ at' = <<0, 0>>
    /\ UNCHANGED <<applied, succeeded, repeated>>

MigrateFailsUndoingAll ==
    FailUndoing(IF Migrations[at[1]].undo THEN applied \cup {at[1]} ELSE {})

MigrateFails ==
    FailUndoing({m \in {at[1]} : applied # {} /\ Migrations[m].undo})

MigrateKilled == FailUndoing({})

MigNext == MigrateBegin \/ MigrateStatement \/ MigrateFails \/ MigrateKilled

\* A migration has effects only when all earlier ones were applied, and
\* what an applied migration made stays, whatever fails or is killed later;
\* only a call that executed the same migration again may undo it.
MigrationsKept ==
    /\ \A x \in schema : 1..(x[1] - 1) \subseteq succeeded
    /\ \A m \in succeeded \ repeated : \A n \in 1..Statements : <<m, n>> \in schema

\* The inductive invariant: the run in progress has executed the statements
\* before at, everything before its migration was applied, and a migration
\* that was applied before is executed again only when it counts as repeated.
MigIInv ==
    /\ at \in Nat \X Nat /\ schema \subseteq Nat \X Nat
    /\ at # <<0, 0>> =>
          /\ at[1] > 0 /\ at[2] \in 1..Statements
          /\ 1..(at[1] - 1) \subseteq succeeded
          /\ \A n \in 1..(at[2] - 1) : <<at[1], n>> \in schema
          /\ at[1] \in succeeded => at[1] \in repeated
    /\ MigrationsKept

-----------------------------------------------------------------------------
(* pygo db seed, by several processes on one SQLite file *)

VARIABLES
    users,      \* e-mail addresses in the committed table users
    posts,      \* authors in the committed table posts
    writer,     \* the seeder that holds the write lock, or "nobody"
    seeder      \* seeder[s]: where it is, the users it still has to try, the
                \*   users and the authors of posts it has not committed yet

seedVars == <<users, posts, writer, seeder>>

SeedInit ==
    /\ users = {} /\ posts = {} /\ writer = "nobody"
    /\ seeder = [s \in Seeders |->
                    [at |-> "users", tries |-> Emails, new |-> {}, authors |-> {}]]

CanWrite(s) == writer \in {"nobody", s}
Step(s, new) == seeder' = [seeder EXCEPT ![s] = new]

\* INSERT INTO users; a duplicate e-mail address is passed over.
InsertUser(s, e) ==
    LET me == seeder[s] IN
    /\ me.at = "users" /\ e \in me.tries /\ CanWrite(s)
    /\ writer' = s
    /\ Step(s, [me EXCEPT !.tries = @ \ {e}, !.new = (@ \cup {e}) \ users])
    /\ UNCHANGED <<users, posts>>

\* Another process has the lock for longer than the timeout: the exception
\* is passed over as if the user existed.
InsertLocked(s, e) ==
    LET me == seeder[s] IN
    /\ me.at = "users" /\ e \in me.tries /\ ~CanWrite(s)
    /\ Step(s, [me EXCEPT !.tries = @ \ {e}])
    /\ UNCHANGED <<users, posts, writer>>

\* SELECT id FROM users: the committed ones and its own.
SelectUsers(s) ==
    LET me == seeder[s] IN
    /\ me.at = "users" /\ me.tries = {}
    /\ Step(s, [me EXCEPT !.at = "posts", !.authors = users \cup me.new])
    /\ UNCHANGED <<users, posts, writer>>

\* The posts; those that find no author or the lock taken are passed over.
InsertPosts(s) ==
    LET me == seeder[s] IN
    /\ me.at = "posts"
    /\ \E some \in SUBSET me.authors :
          /\ some # {} => CanWrite(s)
          /\ Step(s, [me EXCEPT !.at = "commit", !.authors = some])
          /\ writer' = IF some # {} THEN s ELSE writer
    /\ UNCHANGED <<users, posts>>

CommitOf(s, rows) ==
    /\ seeder[s].at = "commit"
    /\ users' = users \cup rows
    /\ posts' = posts \cup seeder[s].authors
    /\ writer' = IF writer = s THEN "nobody" ELSE writer
    /\ Step(s, [seeder[s] EXCEPT !.at = "done"])

CommitForgets(s) == CommitOf(s, {})

Commit(s) == CommitOf(s, seeder[s].new)

SeederKilled(s) ==
    /\ seeder[s].at \notin {"done", "killed"}
    /\ writer' = IF writer = s THEN "nobody" ELSE writer
    /\ Step(s, [seeder[s] EXCEPT !.at = "killed"])
    /\ UNCHANGED <<users, posts>>

\* Every seeder has ended.
Seeded ==
    /\ \A s \in Seeders : seeder[s].at \in {"done", "killed"}
    /\ UNCHANGED seedVars

SeedNext ==
    \/ \E s \in Seeders :
          \/ \E e \in Emails : InsertUser(s, e) \/ InsertLocked(s, e)
          \/ SelectUsers(s) \/ InsertPosts(s) \/ Commit(s) \/ SeederKilled(s)
    \/ Seeded

\* Every post has its author, and once all seeders have ended and none was
\* killed every test user is there, although seeders pass over what they
\* cannot write because another one is writing.
SeedComplete ==
    /\ posts \subseteq users
    /\ (\A s \in Seeders : seeder[s].at = "done") => users = Emails

\* The inductive invariant: as long as no seeder was killed, the first one to
\* write keeps the lock until it has committed every user; until then nobody
\* else has written any.
SeedIInv ==
    /\ users \subseteq Emails /\ posts \subseteq users
    /\ writer \in Seeders \cup {"nobody"}
    /\ seeder \in [Seeders -> [at : {"users", "posts", "commit", "done", "killed"},
                               tries : SUBSET Emails, new : SUBSET Emails,
                               authors : SUBSET Emails]]
    /\ \A s \in Seeders :
          /\ seeder[s].authors \subseteq users \cup seeder[s].new
          /\ seeder[s].at \in {"posts", "commit"} => seeder[s].tries = {}
          /\ writer = s => seeder[s].at \in {"users", "posts", "commit"}
    /\ (\A s \in Seeders : seeder[s].at # "killed") =>
          \/ users = Emails
          \/ /\ users = {}
             /\ \A s \in Seeders :
                   IF writer = s
                   THEN seeder[s].new \cup seeder[s].tries = Emails
                   ELSE /\ seeder[s].new = {}
                        /\ writer = "nobody" =>
                              seeder[s].at = "users" /\ seeder[s].tries = Emails
=============================================================================
