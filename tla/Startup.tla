------------------------------- MODULE Startup -------------------------------
(***************************************************************************)
(* From one start of the proxy to the next: what main does before it       *)
(* serves requests (adapter/meta.go Initialize, MigrateExistingData;       *)
(* adapter/retention.go initialize), over the data a version without       *)
(* databases left, and what writes make of the result.                     *)
(*                                                                         *)
(* main is sequential: a step is one statement with the SELECT that        *)
(* decides about it, which changes nothing.  CREATE TABLE IF NOT EXISTS    *)
(* gives the old layout, so that a new installation takes the same way.    *)
(* The interleavings of writes are the subject of MetaStore; here one is   *)
(* under way at a time, statement after statement, and the process may die *)
(* between any two of them.                                                *)
(***************************************************************************)
EXTENDS Integers

CONSTANTS
    Databases,     \* the databases clients write to
    Default,       \* the database of the command line
    Public,        \* the schema in which old versions have their tables
    Unassigned,    \* the db_name of a row that is older than the column
    Measurements,  \* measurement names (none begins with an underscore)
    Shapes,        \* the sets of columns records have
    NoTable,       \* no table, or no cached schema
    NoWrite,       \* no write is under way
    MayFail,       \* the steps at which a statement may fail
    MayDie,        \* the steps before which the process may die
    MaxFaults      \* bound: how often either happens

Columns == UNION Shapes
Schemas == Databases \cup {Public}
Catalogs == {"meta", "policy"}    \* _influx_meta and _retention_policy

Up == <<"main", "up">>
Down == <<"main", "down">>
Steps == (Catalogs \X {"addDb", "dropKey", "addKey", "load"}) \cup {<<"policy", "rename">>}
         \cup ({"main"} \X {"ensureDb", "ensureRow", "list", "move", "assign", "reload",
                            "ensurePolicies"})
WriteSteps == {"write"} \X {"schema", "dbRow", "policies", "record", "alter", "create", "insert"}
Serving == {Up} \cup WriteSteps

ASSUME StartupAssumption ==
    /\ Default \in Databases /\ Unassigned \notin Schemas
    /\ \A shape \in SUBSET Columns : shape # NoTable
    /\ {} \notin Shapes
    /\ MayFail \subseteq Steps \cup WriteSteps /\ MayDie \subseteq Steps \cup Serving
    /\ MaxFaults \in Nat

VARIABLES
    step,        \* the step main or the write is about to take, Up, or Down
    layout,      \* of each catalog: has it db_name, and which primary key; is "name" there
    metaRows,    \* the rows of _influx_meta: <<database, measurement, column>>
    dbRows,      \* the rows of _influx_databases
    policyRows,  \* the databases with an autogen row in _retention_policy
    tables,      \* the columns of the table of a schema and a measurement, or NoTable
    oldData,     \* the schema in which the old version's rows of a measurement are
    databases,   \* m.databases
    cache,       \* m.tables: the columns of a database and a measurement, or NoTable
    listed,      \* the tables MigrateExistingData has still to move
    write,       \* the write under way: its key and columns, what was cached of the key when
                 \* EnsureTable looked, and the column to be added to the table
    faults       \* how many faults have happened

memory == <<databases, cache, listed, write>>
postgres == <<layout, metaRows, dbRows, policyRows, tables, oldData>>
vars == <<step, postgres, memory, faults>>

Keys == (Databases \cup {Unassigned}) \X Measurements
NothingCached == [k \in Keys |-> NoTable]

-----------------------------------------------------------------------------
\* Before the first start: tables of an old version, with their rows and their metadata,
\* or none (a new installation); policies keyed by measurement or by name.
Init ==
    /\ \E old \in SUBSET Measurements : \E shape \in [old -> Shapes] :
          /\ tables = [k \in Schemas \X Measurements |->
                          IF k[1] = Public /\ k[2] \in old THEN shape[k[2]] ELSE NoTable]
          /\ oldData = [m \in old |-> Public]
          /\ metaRows = {r \in {Unassigned} \X old \X Columns : r[3] \in shape[r[2]]}
    /\ layout \in [meta : {[dbName |-> FALSE, key |-> "old", named |-> TRUE]},
                   policy : [dbName : {FALSE}, key : {"old"}, named : BOOLEAN]]
    /\ dbRows = {} /\ policyRows = {}
    /\ step = Down
    /\ databases = {} /\ cache = NothingCached /\ listed = {} /\ write = NoWrite
    /\ faults = 0

\* main starts, or the supervisor starts it again.
Start ==
    /\ step = Down
    /\ step' = <<"meta", "addDb">>
    /\ UNCHANGED <<postgres, memory, faults>>

\* What the process knows goes with it.
Forgotten == databases' = {} /\ cache' = NothingCached /\ listed' = {} /\ write' = NoWrite

Die ==
    /\ step \in MayDie /\ faults < MaxFaults
    /\ step' = Down /\ Forgotten /\ faults' = faults + 1
    /\ UNCHANGED postgres

\* The statement of a step fails and changes nothing.
Fails == step \in MayFail /\ faults < MaxFaults /\ faults' = faults + 1
Works == UNCHANGED faults

\* log.Fatalf.
Exits == Fails /\ step' = Down /\ Forgotten

-----------------------------------------------------------------------------
(* The migration of a catalog.                                              *)

\* The ALTER TABLE on every start.
Mutant_AddDbName(c) ==
    /\ step = <<c, "addDb">>
    /\ layout' = [layout EXCEPT ![c].dbName = TRUE]
    /\ step' = IF layout[c].dbName THEN Down ELSE <<c, "dropKey">>
    /\ UNCHANGED <<metaRows, dbRows, policyRows, tables, oldData, memory, faults>>

\* A SELECT EXISTS that fails reads as no such column: the ALTER TABLE then fails, unless
\* the column is missing indeed.
AddDbName(c) ==
    /\ step = <<c, "addDb">>
    /\ \/ /\ Works
          /\ layout' = [layout EXCEPT ![c].dbName = TRUE]
          /\ step' = IF ~layout[c].dbName THEN <<c, "dropKey">> ELSE <<c, "load">>
          /\ UNCHANGED memory
       \/ Exits /\ UNCHANGED layout
    /\ UNCHANGED <<metaRows, dbRows, policyRows, tables, oldData>>

\* The errors of the two statements that replace the primary key are ignored.
DropKey(c) ==
    /\ step = <<c, "dropKey">>
    /\ \/ Works /\ layout' = [layout EXCEPT ![c].key = "none"]
       \/ Fails /\ UNCHANGED layout
    /\ step' = <<c, "addKey">>
    /\ UNCHANGED <<metaRows, dbRows, policyRows, tables, oldData, memory>>

\* Refused while there is another key, or no column "name".
AddKey(c) ==
    /\ step = <<c, "addKey">>
    /\ \/ /\ Works
          /\ layout' = IF layout[c].key = "none" /\ layout[c].named
                       THEN [layout EXCEPT ![c].key = "new"] ELSE layout
       \/ Fails /\ UNCHANGED layout
    /\ step' = <<c, "load">>
    /\ UNCHANGED <<metaRows, dbRows, policyRows, tables, oldData, memory>>

\* ALTER TABLE _retention_policy RENAME COLUMN measurement TO name.  If the SELECT fails it
\* is skipped, if the ALTER fails main exits.
RenameColumn ==
    /\ step = <<"policy", "rename">>
    /\ \/ /\ Works
          /\ layout' = [layout EXCEPT !["policy"].named = TRUE]
          /\ step' = <<"policy", "addDb">> /\ UNCHANGED memory
       \/ /\ Fails /\ UNCHANGED <<layout, memory>>
          /\ step' = <<"policy", "addDb">>
       \/ Exits /\ UNCHANGED layout
    /\ UNCHANGED <<metaRows, dbRows, policyRows, tables, oldData>>

-----------------------------------------------------------------------------
(* Loading, and the migration of the tables.                                *)

\* The cache keyed by the measurement alone.
Mutant_ColumnsOf(k) == {c \in Columns : \E r \in metaRows : r[2] = k[2] /\ r[3] = c}

\* What loadSchemas makes of the rows of _influx_meta.
ColumnsOf(k) == {c \in Columns : <<k[1], k[2], c>> \in metaRows}
Loaded == [k \in Keys |-> IF ColumnsOf(k) = {} THEN NoTable ELSE ColumnsOf(k)]

LoadSchemas ==
    /\ step = <<"meta", "load">>
    /\ \/ /\ Works
          /\ cache' = Loaded /\ databases' = dbRows /\ UNCHANGED <<listed, write>>
          /\ step' = <<"main", "ensureDb">>
       \/ Exits
    /\ UNCHANGED postgres

\* EnsureDatabase of the default database: CREATE SCHEMA, for one it does not know.
EnsureDefault ==
    /\ step = <<"main", "ensureDb">>
    /\ \/ /\ Works /\ UNCHANGED memory
          /\ step' = <<"main", IF Default \in databases THEN "list" ELSE "ensureRow">>
       \/ Default \notin databases /\ Exits
    /\ UNCHANGED postgres

\* The row of a new database, whose error is ignored: the database is cached all the same.
RegisterDatabase(db) ==
    /\ \/ Works /\ dbRows' = dbRows \cup {db}
       \/ Fails /\ UNCHANGED dbRows
    /\ databases' = databases \cup {db}
    /\ UNCHANGED <<layout, metaRows, policyRows, tables, oldData, cache, listed, write>>

RegisterDefault ==
    step = <<"main", "ensureRow">> /\ RegisterDatabase(Default) /\ step' = <<"main", "list">>

InPublic == {m \in Measurements : tables[<<Public, m>>] # NoTable}

\* With no table in the public schema, or if they cannot be listed, MigrateExistingData
\* returns; main goes on.
ListPublic ==
    /\ step = <<"main", "list">>
    /\ \/ /\ Works
          /\ listed' = InPublic
          /\ step' = IF InPublic = {} THEN <<"policy", "rename">> ELSE <<"main", "move">>
       \/ /\ Fails /\ UNCHANGED listed
          /\ step' = <<"policy", "rename">>
    /\ UNCHANGED <<postgres, databases, cache, write>>

\* ALTER TABLE ... SET SCHEMA of the next table: refused when the schema has a table of that
\* name.  The error is logged.
MoveTable(m) ==
    /\ step = <<"main", "move">> /\ m \in listed
    /\ \/ /\ Works
          /\ IF tables[<<Default, m>>] = NoTable
             THEN /\ tables' = [tables EXCEPT ![<<Default, m>>] = tables[<<Public, m>>],
                                              ![<<Public, m>>] = NoTable]
                  /\ oldData' = [n \in DOMAIN oldData |->
                                    IF n = m /\ oldData[n] = Public THEN Default ELSE oldData[n]]
             ELSE UNCHANGED <<tables, oldData>>
       \/ Fails /\ UNCHANGED <<tables, oldData>>
    /\ listed' = listed \ {m}
    /\ step' = IF listed = {m} THEN <<"main", "assign">> ELSE step
    /\ UNCHANGED <<layout, metaRows, dbRows, policyRows, databases, cache, write>>

\* The UPDATE looks for NULL, where the column's default is the empty text.
Mutant_Assigned(rows) == rows

\* UPDATE _influx_meta SET db_name = $1 WHERE db_name = ''
Assigned(rows) == {IF r[1] = Unassigned THEN <<Default, r[2], r[3]>> ELSE r : r \in rows}

\* The UPDATE fails as a whole when it would give two rows the same key; its error is
\* ignored.
AssignMetadata ==
    /\ step = <<"main", "assign">>
    /\ \/ /\ Works
          /\ metaRows' = IF /\ layout["meta"].key = "new"
                            /\ \E r \in metaRows : /\ r[1] = Unassigned
                                                   /\ <<Default, r[2], r[3]>> \in metaRows
                         THEN metaRows ELSE Assigned(metaRows)
       \/ Fails /\ UNCHANGED metaRows
    /\ step' = <<"main", "reload">>
    /\ UNCHANGED <<layout, dbRows, policyRows, tables, oldData, memory>>

\* loadSchemas once more: it empties the caches before it asks for the rows, and here its
\* error is ignored.
Reload ==
    /\ step = <<"main", "reload">>
    /\ \/ Works /\ cache' = Loaded /\ databases' = dbRows
       \/ Fails /\ cache' = NothingCached /\ databases' = {}
    /\ step' = <<"policy", "rename">>
    /\ UNCHANGED <<postgres, listed, write>>

\* The shard column, and the policies.  Without a column "name" the SELECT's error counts as
\* no policies.
LoadPolicies ==
    /\ step = <<"policy", "load">>
    /\ \/ /\ Works /\ step' = <<"main", "ensurePolicies">> /\ UNCHANGED memory
       \/ Exits
    /\ UNCHANGED postgres

\* EnsureDatabasePolicies inserts ON CONFLICT (db_name, name), which needs that key; it does
\* nothing for a database whose policies it knows.
WithPolicies(db) ==
    IF layout["policy"].key = "new" THEN policyRows \cup {db} ELSE policyRows

EnsurePolicies(db) ==
    /\ \/ Works /\ policyRows' = WithPolicies(db)
       \/ db \notin policyRows /\ Fails /\ UNCHANGED policyRows
    /\ UNCHANGED <<layout, metaRows, dbRows, tables, oldData, databases, cache, listed>>

EnsureDefaultPolicies ==
    /\ step = <<"main", "ensurePolicies">> /\ EnsurePolicies(Default)
    /\ step' = Up /\ UNCHANGED write

-----------------------------------------------------------------------------
(* A write, when the server is up: HandleWrite for the records of one       *)
(* measurement.  EnsureDatabase comes first, then EnsureTable column after  *)
(* column, then InsertBatch.                                                *)

Known(k) == IF cache[k] = NoTable THEN {} ELSE cache[k]

Opened(k, columns) ==
    [key |-> k, columns |-> columns, was |-> cache[k], adding |-> {}]

\* A database that is known is taken to have its policies.
Mutant_BeginWrite(db, m, columns) ==
    /\ step = Up
    /\ write' = Opened(<<db, m>>, columns)
    /\ step' = <<"write", IF db \notin databases THEN "schema"
                 ELSE IF columns \subseteq Known(<<db, m>>) THEN "create" ELSE "record">>
    /\ UNCHANGED <<postgres, databases, cache, listed, faults>>

BeginWrite(db, m, columns) ==
    /\ step = Up
    /\ write' = Opened(<<db, m>>, columns)
    /\ step' = <<"write", IF db \in databases THEN "policies" ELSE "schema">>
    /\ UNCHANGED <<postgres, databases, cache, listed, faults>>

Answered == step' = Up /\ write' = NoWrite

\* CREATE SCHEMA; its error is the client's answer.
CreateSchema ==
    /\ step = <<"write", "schema">>
    /\ \/ Works /\ step' = <<"write", "dbRow">> /\ UNCHANGED write
       \/ Fails /\ Answered
    /\ UNCHANGED <<postgres, databases, cache, listed>>

InsertDatabase ==
    /\ step = <<"write", "dbRow">> /\ RegisterDatabase(write.key[1])
    /\ step' = <<"write", "policies">>

\* Where EnsureTable goes on, knowing these columns.
AfterColumns(known) ==
    <<"write", IF write.columns \subseteq known THEN "create" ELSE "record">>

\* An error is logged, and the write goes on.
EnsureWritePolicies ==
    /\ step = <<"write", "policies">> /\ EnsurePolicies(write.key[1])
    /\ step' = AfterColumns(Known(write.key)) /\ UNCHANGED write

\* ON CONFLICT as with the old key, whatever the table's.
Mutant_Recorded(k, c) ==
    IF \E r \in metaRows : r[2] = k[2] /\ r[3] = c
    THEN metaRows ELSE metaRows \cup {<<k[1], k[2], c>>}

\* INSERT INTO _influx_meta ... ON CONFLICT DO NOTHING: a conflict with any key the table
\* has.
Recorded(k, c) ==
    IF layout["meta"].key = "old" /\ \E r \in metaRows : r[2] = k[2] /\ r[3] = c
    THEN metaRows ELSE metaRows \cup {<<k[1], k[2], c>>}

\* A new column is cached and recorded; the error is ignored.  It is added to a table that
\* was cached before.
RecordColumn(c) ==
    LET known == Known(write.key) \cup {c} IN
    /\ step = <<"write", "record">> /\ c \in write.columns \ Known(write.key)
    /\ cache' = [cache EXCEPT ![write.key] = known]
    /\ \/ Works /\ metaRows' = Recorded(write.key, c)
       \/ Fails /\ UNCHANGED metaRows
    /\ IF write.was # NoTable
       THEN step' = <<"write", "alter">> /\ write' = [write EXCEPT !.adding = {c}]
       ELSE step' = AfterColumns(known) /\ UNCHANGED write
    /\ UNCHANGED <<layout, dbRows, policyRows, tables, oldData, databases, listed>>

\* ALTER TABLE ... ADD COLUMN, refused when there is no table; the error is ignored.
AddColumn ==
    /\ step = <<"write", "alter">>
    /\ \/ /\ Works
          /\ tables' = [tables EXCEPT ![write.key] =
                            IF @ = NoTable THEN NoTable ELSE @ \cup write.adding]
       \/ Fails /\ UNCHANGED tables
    /\ step' = AfterColumns(Known(write.key)) /\ write' = [write EXCEPT !.adding = {}]
    /\ UNCHANGED <<layout, metaRows, dbRows, policyRows, oldData, databases, cache, listed>>

\* CREATE TABLE IF NOT EXISTS with all known columns; its error is the client's answer.
CreateTable ==
    /\ step = <<"write", "create">>
    /\ \/ /\ Works
          /\ tables' = [tables EXCEPT ![write.key] = IF @ = NoTable THEN Known(write.key) ELSE @]
          /\ step' = <<"write", "insert">> /\ UNCHANGED write
       \/ Fails /\ Answered /\ UNCHANGED tables
    /\ UNCHANGED <<layout, metaRows, dbRows, policyRows, oldData, databases, cache, listed>>

\* Whether the INSERT works or not, it changes none of this.
InsertBatch ==
    /\ step = <<"write", "insert">> /\ Answered
    /\ UNCHANGED <<postgres, databases, cache, listed, faults>>

MainStep ==
    \/ Start
    \/ \E c \in Catalogs : AddDbName(c) \/ DropKey(c) \/ AddKey(c)
    \/ RenameColumn \/ LoadSchemas \/ EnsureDefault \/ RegisterDefault \/ ListPublic
    \/ \E m \in Measurements : MoveTable(m)
    \/ AssignMetadata \/ Reload \/ LoadPolicies \/ EnsureDefaultPolicies

WriteStep ==
    \/ \E db \in Databases, m \in Measurements, columns \in Shapes : BeginWrite(db, m, columns)
    \/ CreateSchema \/ InsertDatabase \/ EnsureWritePolicies
    \/ \E c \in Columns : RecordColumn(c)
    \/ AddColumn \/ CreateTable \/ InsertBatch

Next == MainStep \/ WriteStep \/ Die

\* main goes on, and the supervisor starts it again (autorestart).
Spec == Init /\ [][Next]_vars /\ WF_vars(MainStep)

-----------------------------------------------------------------------------
(* Properties, of a proxy that serves requests.                             *)

\* MigrateExistingData is done when the server is up: the rows an old version left are in a
\* table of the default database, and the proxy knows all of its columns, however often the
\* process had to be started.
OldDataServed ==
    step = Up => \A m \in DOMAIN oldData :
        oldData[m] = Default /\ cache[<<Default, m>>] = tables[<<Default, m>>]

\* No record is refused for a column: when EnsureTable is done, the table has every column
\* the INSERT names (all that are cached), whatever starts and writes there were before,
\* finished or cut short.
Writable ==
    step = <<"write", "insert">> =>
        /\ write.columns \subseteq Known(write.key)
        /\ tables[write.key] # NoTable /\ Known(write.key) \subseteq tables[write.key]

\* The next start will find the schemas and databases this one serves, in particular those of
\* two databases with measurements of the same name, in whatever statement of a write the
\* process dies.
RestartForgetsNothing == step \in Serving => Loaded = cache /\ databases \subseteq dbRows

\* No data without a retention policy: each database that has a table has policies of its own,
\* under the name they all share (README, Per-Database Isolation: a composite primary key).
\* A database a write has only begun to create may have none, until it is written to again.
PoliciesStored ==
    step \in Serving => \A k \in Databases \X Measurements :
        tables[k] # NoTable => k[1] \in policyRows

\* Once starts are no longer cut short, the proxy comes up and stays up.
ComesUp == <>[](step \in Serving)

=============================================================================
