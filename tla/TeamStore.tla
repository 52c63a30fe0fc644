------------------------------ MODULE TeamStore ------------------------------
(***************************************************************************)
(* The three team stores of the relay (server/store.go).  MemoryTeamStore  *)
(* keeps one record per code under a mutex; PostgresTeamStore and          *)
(* SupabaseTeamStore keep a row per team and leave a code's uniqueness to  *)
(* the index over rows that are not deleted.  Every call is one step, but  *)
(* for deletion, which compares a password between reading and writing.    *)
(* Postgres is first brought up to date by init, retried while an older    *)
(* relay may still be writing.                                             *)
(***************************************************************************)
EXTENDS Naturals

CONSTANTS
    Id,         \* teams
    Code,       \* codes: random, so that one may come again
    Deletion,   \* deletions under way
    NoId

ASSUME StoreAssumption == NoId \notin Id

VARIABLES
    store,      \* which store, and whether inactive teams expire
    schema,     \* Postgres: what of the schema is there; migration: how far init is
    migration,
    rows,       \* state of each team, its code, and whether its 48 hours are over
    checking    \* the team whose password a deletion compares

storeVars == <<store, schema, migration, rows, checking>>

Sql == store.kind \in {"postgres", "supabase"}

Parts == {"table", "codeKey", "column", "filled", "default", "notNull", "index"}

StoreTypeOK ==
    /\ store \in [kind : {"memory", "postgres", "supabase"}, expires : BOOLEAN]
    /\ schema \subseteq Parts /\ migration \in 0 .. 7
    /\ rows \in [Id -> [state : {"none", "live", "deleted", "replaced"},
                        code : Code, idle : BOOLEAN]]
    /\ checking \in [Deletion -> Id \cup {NoId}]

StoreInit ==
    /\ store \in [kind : {"memory", "postgres", "supabase"}, expires : BOOLEAN]
    /\ schema \in (IF store.kind = "postgres" THEN {{}, {"table", "codeKey"}} ELSE {Parts \ {"codeKey"}})
    /\ migration = IF store.kind = "postgres" THEN 0 ELSE 7
    /\ \E c \in Code, S \in SUBSET Id :      \* at most one team is there: "CLIK-LOCAL", or an old row
        /\ \A i, j \in S : i = j
        /\ rows = [i \in Id |-> [state |-> IF i \in S THEN "live" ELSE "none", code |-> c, idle |-> FALSE]]
    /\ checking = [d \in Deletion |-> NoId]

Ready == migration = 7

-----------------------------------------------------------------------------
(* PostgresTeamStore.init. *)

\* What the statement does to the schema.  Without a default an older relay's inserts
\* leave the new column empty.
After(n) ==
    CASE n = 1 -> IF "table" \in schema THEN schema ELSE {"table"}
      [] n = 2 -> schema \ {"codeKey"}
      [] n = 3 -> IF "column" \in schema THEN schema ELSE schema \cup {"column"}
      [] n = 4 -> schema \cup {"filled"}
      [] n = 5 -> schema \cup {"default"}
      [] n = 6 -> schema \cup {"notNull"}
      [] n = 7 -> schema \cup {"index"}

\* Mutant: after a failure init goes on where it stopped.
MigrateOn ==
    /\ ~Ready /\ migration' = migration + 1
    /\ schema' = IF migration = 5 /\ "filled" \notin schema THEN schema ELSE After(migration + 1)
    /\ UNCHANGED <<store, rows, checking>>

Migrate ==
    /\ ~Ready /\ (migration = 5 => "filled" \in schema)
    /\ migration' = migration + 1
    /\ schema' = After(migration + 1)
    /\ UNCHANGED <<store, rows, checking>>

\* The statement fails, SET NOT NULL always while a row lacks the value; init starts again.
MigrateFails ==
    /\ ~Ready /\ migration' = 0
    /\ UNCHANGED <<store, schema, rows, checking>>

\* A relay of the version before adds a row.
OldInsert ==
    /\ store.kind = "postgres" /\ "filled" \in schema /\ "default" \notin schema
    /\ schema' = schema \ {"filled"}
    /\ UNCHANGED <<store, migration, rows, checking>>

-----------------------------------------------------------------------------
Live(c) == {i \in Id : rows[i].state = "live" /\ rows[i].code = c}

\* MemoryTeamStore.teams has one record per code.
Recorded(c) == {i \in Id : rows[i].state \in {"live", "deleted"} /\ rows[i].code = c}

Inserted(i, c) == [rows EXCEPT ![i] = [state |-> "live", code |-> c, idle |-> FALSE]]

\* CreateTeam: a code in use is drawn again; a record of a dead team is replaced.
MemoryCreate(i, c) ==
    /\ store.kind = "memory" /\ rows[i].state = "none" /\ Live(c) = {}
    /\ rows' = [j \in Id |-> IF j \in Recorded(c) THEN [rows[j] EXCEPT !.state = "replaced"]
                             ELSE Inserted(i, c)[j]]
    /\ UNCHANGED <<store, schema, migration, checking>>

\* Mutant: the index covers no active rows.
PostgresCreateAnyCode(i, c) ==
    /\ store.kind = "postgres" /\ Ready /\ rows[i].state = "none"
    /\ rows' = Inserted(i, c)
    /\ UNCHANGED <<store, schema, migration, checking>>

\* Error 23505 of the index has CreateTeam draw another code, eight times at most.
PostgresCreate(i, c) ==
    /\ store.kind = "postgres" /\ Ready /\ rows[i].state = "none" /\ Live(c) = {}
    /\ rows' = Inserted(i, c)
    /\ UNCHANGED <<store, schema, migration, checking>>

SupabaseCreate(i, c) ==
    /\ store.kind = "supabase" /\ rows[i].state = "none" /\ Live(c) = {}
    /\ rows' = Inserted(i, c)
    /\ UNCHANGED <<store, schema, migration, checking>>

\* GetTeamByCode: the databases do not find a team past its 48 hours, the memory store
\* does until the hourly pass.
Found(c) == {i \in Live(c) : Sql /\ store.expires => ~rows[i].idle}

Touched(c) == [i \in Id |-> [rows[i] EXCEPT !.idle = @ /\ i \notin Live(c)]]

\* A join that finds the team touches it.
JoinTouch(c) ==
    /\ Ready /\ Found(c) # {} /\ rows' = Touched(c)
    /\ UNCHANGED <<store, schema, migration, checking>>

\* The expiry pass touches the teams of rooms in use, found or not.
Touch(c) ==
    /\ Ready /\ Live(c) # {} /\ rows' = Touched(c)
    /\ UNCHANGED <<store, schema, migration, checking>>

\* ExpireInactiveTeams, for a store with or without SQL.
Expired == {i \in Id : rows[i].state = "live" /\ rows[i].idle}

Expire ==
    /\ Ready /\ store.expires /\ Expired # {}
    /\ rows' = [i \in Id |-> IF i \in Expired THEN [rows[i] EXCEPT !.state = "deleted"] ELSE rows[i]]
    /\ UNCHANGED <<store, schema, migration, checking>>

\* DeleteTeam finds the team whose password is to be compared.
ReadForDelete(d, i) ==
    /\ Ready /\ checking[d] = NoId /\ rows[i].state = "live"
    /\ checking' = [checking EXCEPT ![d] = i]
    /\ UNCHANGED <<store, schema, migration, rows>>

\* Another password, or an error.
RefuseDelete(d) ==
    /\ checking[d] # NoId
    /\ checking' = [checking EXCEPT ![d] = NoId]
    /\ UNCHANGED <<store, schema, migration, rows>>

\* The record that was read is put back under its code, deleted, whoever has it now.
MemoryDelete(d) ==
    LET i == checking[d] IN
    /\ store.kind = "memory" /\ i # NoId
    /\ rows' = [j \in Id |-> IF j = i THEN [rows[j] EXCEPT !.state = "deleted"]
                             ELSE IF j \in Recorded(rows[i].code) THEN [rows[j] EXCEPT !.state = "replaced"]
                             ELSE rows[j]]
    /\ checking' = [checking EXCEPT ![d] = NoId]
    /\ UNCHANGED <<store, schema, migration>>

Deleted(i) == [rows EXCEPT ![i].state = "deleted"]

\* Mutant: the row is found by its code again.
PostgresDeleteByCode(d) ==
    LET i == checking[d] IN
    /\ store.kind = "postgres" /\ i # NoId
    /\ rows' = [j \in Id |-> IF rows[j].code = rows[i].code /\ rows[j].state = "live"
                             THEN [rows[j] EXCEPT !.state = "deleted"] ELSE rows[j]]
    /\ checking' = [checking EXCEPT ![d] = NoId]
    /\ UNCHANGED <<store, schema, migration>>

\* The row is updated by its id.
PostgresDelete(d) ==
    /\ store.kind = "postgres" /\ checking[d] # NoId
    /\ rows' = Deleted(checking[d])
    /\ checking' = [checking EXCEPT ![d] = NoId]
    /\ UNCHANGED <<store, schema, migration>>

SupabaseDelete(d) ==
    /\ store.kind = "supabase" /\ checking[d] # NoId
    /\ rows' = Deleted(checking[d])
    /\ checking' = [checking EXCEPT ![d] = NoId]
    /\ UNCHANGED <<store, schema, migration>>

\* 48 hours pass without a join.
Idle(i) ==
    /\ rows[i].state = "live" /\ rows' = [rows EXCEPT ![i].idle = TRUE]
    /\ UNCHANGED <<store, schema, migration, checking>>

StoreNext ==
    \/ Migrate \/ MigrateFails \/ OldInsert
    \/ \E i \in Id, c \in Code : MemoryCreate(i, c) \/ PostgresCreate(i, c) \/ SupabaseCreate(i, c)
    \/ \E c \in Code : JoinTouch(c) \/ Touch(c)
    \/ Expire
    \/ \E d \in Deletion : \/ \E i \in Id : ReadForDelete(d, i)
                           \/ RefuseDelete(d)
                           \/ MemoryDelete(d) \/ PostgresDelete(d) \/ SupabaseDelete(d)
    \/ \E i \in Id : Idle(i)

StoreSpec == StoreInit /\ [][StoreNext]_storeVars

-----------------------------------------------------------------------------
Standing(i) == CASE rows[i].state \in {"none", "live"} -> rows[i].state [] OTHER -> "gone"

T == INSTANCE Teams WITH status <- [i \in Id |-> Standing(i)],
                         codeOf <- [i \in Id |-> rows[i].code]

\* A code names one live team at a time and a team that is gone stays gone, whichever
\* store keeps it and however deletions, expiries and new teams of the same code overlap.
StoreImplementsTeams == T!TeamsSpec

\* In the databases a team that was in use ends only by a deletion that compared its own
\* password, and another by the end of its 48 hours: never by the deletion of a team
\* that had its code before.
OnlyItsTeamEnds ==
    [][Sql => \A i \in Id : rows[i].state = "live" /\ rows'[i].state # "live" =>
           \/ store.expires /\ rows[i].idle
           \/ \E d \in Deletion : checking[d] = i /\ checking'[d] = NoId]_storeVars

\* When init has returned, every row has last_connected_at, a code is unique among live
\* teams and only there, although an older relay inserted rows between its statements
\* and it was started again after any of them.
ReadyIsMigrated == Ready => schema = Parts \ {"codeKey"}
==============================================================================
