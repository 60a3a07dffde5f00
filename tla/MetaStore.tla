------------------------------ MODULE MetaStore ------------------------------
(***************************************************************************)
(* The metadata store of adapter/meta.go under concurrent HTTP requests:   *)
(* what Postgres holds (schemas, the rows of _influx_databases and of      *)
(* _influx_meta, the measurement tables), what the proxy caches of it      *)
(* (m.databases, m.tables), and the goroutines that serve POST /write,     *)
(* CREATE DATABASE, DROP DATABASE and DROP MEASUREMENT.  A step of a       *)
(* goroutine is one statement sent to Postgres, or one critical section of *)
(* m.mu that sends none.  What the handlers have the retention store do    *)
(* (its policies, and the chunks and compression of a table) changes no    *)
(* state of this module: it is a step too, because it waits for rs.mu.     *)
(*                                                                         *)
(* A write is its records grouped by measurement, and a record is the set  *)
(* of columns (tags and fields) it gives a value to.                       *)
(***************************************************************************)
EXTENDS Integers, Sequences, FiniteSets

LOCAL INSTANCE FiniteSetsExt

CONSTANTS
    Procs,          \* goroutines of the HTTP server
    Dbs,            \* database names
    Measurements,   \* measurement names
    Columns,        \* tag and field names
    Tags,           \* those that are tags
    Batches,        \* bodies of a write: measurement -> its records, in order
    Ops,            \* the statements clients send: a subset of OpKinds
    Faults,         \* what can go wrong: a subset of FaultKinds
    None            \* no table, no goroutine

OpKinds == {"write", "createDb", "dropDb", "dropMeasurement"}

FaultKinds == {"schemaFails",  \* CREATE SCHEMA
               "dbRowFails",   \* INSERT INTO _influx_databases, DELETE FROM it
               "metaFails",    \* INSERT INTO _influx_meta, DELETE FROM it
               "alterFails",   \* ALTER TABLE ... ADD COLUMN
               "tableFails",   \* CREATE TABLE, create_hypertable
               "dropFails",    \* DROP SCHEMA, DROP TABLE
               "insertFails",  \* the transaction of InsertBatch
               "crash"}        \* the process dies and is started again

ASSUME OpAssumption == Ops \subseteq OpKinds
ASSUME FaultAssumption == Faults \subseteq FaultKinds
ASSUME BatchAssumption ==
    \A b \in Batches : /\ DOMAIN b \subseteq Measurements
                       /\ \A m \in DOMAIN b : b[m] \in Seq(SUBSET Columns) /\ b[m] # <<>>
ASSUME NoneAssumption == None \notin Procs /\ \A S \in SUBSET Columns : None # S

VARIABLES
    \* Postgres
    schemas,      \* the schemas that exist
    dbRows,       \* _influx_databases
    metaRows,     \* _influx_meta: <<table, column>>
    columns,      \* the columns of a measurement table, or None
    hypertables,  \* the tables create_hypertable was applied to
    stored,       \* rows of measurement tables: [table, cols]
    \* the proxy's memory
    databases,    \* m.databases
    tables,       \* m.tables: the columns of a cached TableSchema, or None
    mu,           \* the goroutine that holds m.mu for writing, or None
    go,           \* the goroutines: Idle, or a record of a Running one
    \* what clients were told
    acked         \* the rows whose InsertBatch returned without an error

pg == <<schemas, dbRows, metaRows, columns, hypertables, stored>>
memory == <<databases, tables, mu>>
vars == <<pg, memory, go, acked>>

Tables == Dbs \X Measurements

Requests ==
    [op : Ops \cap {"write"}, db : Dbs, batch : Batches]
    \cup [op : Ops \cap {"createDb", "dropDb"}, db : Dbs]
    \cup [op : Ops \cap {"dropMeasurement"}, db : Dbs, m : Measurements]

EntryPoint == [write |-> "check", createDb |-> "lockCreate", dropDb |-> "lockDrop",
               dropMeasurement |-> "dropTable"]

\* Between these steps a goroutine holds m.mu.
Holding == {"column", "alter", "hypertable", "chunks", "createSchema", "createRow",
            "dropRow", "dropSchema", "dropMeta"}
PCs == {"check", "schema", "dbRow", "cacheDb", "policies", "pick", "lockTable",
        "lookup", "list", "insert", "lockCreate", "lockDrop",
        "dropTable", "dropTableMeta"} \cup Holding

\* In these a database has its schema and is not yet known.
Creating == {"dbRow", "cacheDb", "createRow"}

Idle == [pc |-> "idle"]

\* A goroutine that serves a request, and its local variables.
Running ==
    [pc : PCs,
     req : Requests,
     todo : SUBSET Measurements,     \* the measurements its write has not reached
     at : Measurements \cup {None},  \* the measurement it works on
     existed : BOOLEAN,              \* EnsureTable: "exists"
     missing : SUBSET Columns,       \* EnsureTable: the new columns it has not registered
     adding : Columns \cup {None},   \* EnsureTable: the column whose ALTER TABLE is next
     listed : SUBSET Columns]        \* InsertBatch: the columns read from the cached schema

Started(r) ==
    [pc |-> EntryPoint[r.op], req |-> r,
     todo |-> IF r.op = "write" THEN DOMAIN r.batch ELSE {},
     at |-> IF r.op = "dropMeasurement" THEN r.m ELSE None,
     existed |-> FALSE, missing |-> {}, adding |-> None, listed |-> {}]

At(p, label) == go[p].pc = label
DbOf(p) == go[p].req.db
TableOf(p) == <<go[p].req.db, go[p].at>>

\* Whether a statement succeeds: it may fail only where Faults says so.
May(fault) == {TRUE, fault \notin Faults}

Init ==
    /\ schemas = {} /\ dbRows = {} /\ metaRows = {} /\ stored = {} /\ hypertables = {}
    /\ columns = [t \in Tables |-> None]
    /\ databases = {} /\ tables = [t \in Tables |-> None] /\ mu = None
    /\ go = [p \in Procs |-> Idle]
    /\ acked = {}

-----------------------------------------------------------------------------
Goto(p, label) == go' = [go EXCEPT ![p].pc = label]
Return(p) == go' = [go EXCEPT ![p] = Idle]

\* RLock and Lock wait while another goroutine holds the lock; a critical
\* section of one step takes and frees it.
Free == mu = None

\* A Mutant_ operator is a plausible bug in the definition that follows it, and is
\* used by no behaviour of the specification.  Here: no mutual exclusion.
Mutant_LockTaken(p) == mu' = p
Lock(p) == Free /\ mu' = p
Unlock(p) == mu' = None

\* A request arrives.
Receive(p, r) ==
    /\ At(p, "idle")
    /\ go' = [go EXCEPT ![p] = Started(r)]
    /\ UNCHANGED <<pg, memory, acked>>

(* EnsureDatabase.                                                          *)

CheckDatabase(p) ==
    /\ At(p, "check") /\ Free
    /\ Goto(p, IF DbOf(p) \in databases THEN "policies" ELSE "schema")
    /\ UNCHANGED <<pg, memory, acked>>

\* The error of CREATE SCHEMA is ignored, as that of the INSERT below is.
Mutant_IgnoresSchemaError(p) ==
    /\ At(p, "schema")
    /\ \E ok \in May("schemaFails") :
          schemas' = IF ok THEN schemas \cup {DbOf(p)} ELSE schemas
    /\ Goto(p, "dbRow")
    /\ UNCHANGED <<dbRows, metaRows, columns, hypertables, stored, memory, acked>>

CreateSchema(p) ==
    /\ At(p, "schema")
    /\ \/ /\ schemas' = schemas \cup {DbOf(p)}
          /\ Goto(p, "dbRow")
       \/ /\ "schemaFails" \in Faults
          /\ Return(p)
          /\ UNCHANGED schemas
    /\ UNCHANGED <<dbRows, metaRows, columns, hypertables, stored, memory, acked>>

\* The error of this INSERT is ignored.
InsertDbRow(p) ==
    /\ At(p, "dbRow")
    /\ \E ok \in May("dbRowFails") :
          dbRows' = IF ok THEN dbRows \cup {DbOf(p)} ELSE dbRows
    /\ Goto(p, "cacheDb")
    /\ UNCHANGED <<schemas, metaRows, columns, hypertables, stored, memory, acked>>

CacheDatabase(p) ==
    /\ At(p, "cacheDb") /\ Free
    /\ databases' = databases \cup {DbOf(p)}
    /\ Goto(p, "policies")
    /\ UNCHANGED <<pg, tables, mu, acked>>

\* EnsureDatabasePolicies, which waits for rs.mu to write; its error is only logged.  It is
\* also the last call of CREATE DATABASE, as DropDatabasePolicies is of DROP DATABASE.
EnsureDatabasePolicies(p) ==
    /\ At(p, "policies")
    /\ IF go[p].req.op = "write" THEN Goto(p, "pick") ELSE Return(p)
    /\ UNCHANGED <<pg, memory, acked>>

(* The loop of HandleWrite over byMeasurement, in the order of a Go map.    *)

PickMeasurement(p) ==
    /\ At(p, "pick")
    /\ \/ \E m \in go[p].todo :
             go' = [go EXCEPT ![p].pc = "lockTable", ![p].at = m, ![p].todo = @ \ {m}]
       \/ go[p].todo = {} /\ Return(p)
    /\ UNCHANGED <<pg, memory, acked>>

(* EnsureTable, which holds m.mu from its first line to its return.         *)

\* The columns that decide the schema: those of the first record.
SchemaRecord(p) == go[p].req.batch[go[p].at][1]

\* "exists" is not kept from the lookup: no column is ever added to a table.
Mutant_NeverExisted(p) ==
    LET t == TableOf(p)
        cached == IF tables[t] = None THEN {} ELSE tables[t] IN
    /\ At(p, "lockTable") /\ Lock(p)
    /\ tables' = [tables EXCEPT ![t] = cached]
    /\ go' = [go EXCEPT ![p].pc = "column", ![p].missing = SchemaRecord(p) \ cached]
    /\ UNCHANGED <<pg, databases, acked>>

\* EnsureTable takes a cached schema as complete.
Mutant_SchemaIsFixed(p) ==
    LET t == TableOf(p)
        known == tables[t] # None IN
    /\ At(p, "lockTable") /\ Lock(p)
    /\ tables' = [tables EXCEPT ![t] = IF known THEN @ ELSE {}]
    /\ go' = [go EXCEPT ![p].pc = "column", ![p].existed = known,
                        ![p].missing = IF known THEN {} ELSE SchemaRecord(p)]
    /\ UNCHANGED <<pg, databases, acked>>

LockTable(p) ==
    LET t == TableOf(p)
        cached == IF tables[t] = None THEN {} ELSE tables[t] IN
    /\ At(p, "lockTable") /\ Lock(p)
    /\ tables' = [tables EXCEPT ![t] = cached]
    /\ go' = [go EXCEPT ![p].pc = "column", ![p].existed = tables[t] # None,
                        ![p].missing = SchemaRecord(p) \ cached]
    /\ UNCHANGED <<pg, databases, acked>>

\* The INSERT names the columns of _influx_meta in another order than its values.
Mutant_SwapsValues(p, c) ==
    LET t == TableOf(p) IN
    /\ At(p, "column") /\ c \in go[p].missing
    /\ tables' = [tables EXCEPT ![t] = @ \cup {c}]
    /\ metaRows' = metaRows \cup {<<c, t>>}
    /\ go' = [go EXCEPT ![p].missing = @ \ {c},
                        ![p].pc = IF go[p].existed THEN "alter" ELSE "column",
                        ![p].adding = IF go[p].existed THEN c ELSE None]
    /\ UNCHANGED <<schemas, dbRows, columns, hypertables, stored, databases, mu, acked>>

\* Only the columns a table is created with are recorded, not those added later.
Mutant_RecordsAtCreation(p, c) ==
    LET t == TableOf(p) IN
    /\ At(p, "column") /\ c \in go[p].missing
    /\ tables' = [tables EXCEPT ![t] = @ \cup {c}]
    /\ metaRows' = IF go[p].existed THEN metaRows ELSE metaRows \cup {<<t, c>>}
    /\ go' = [go EXCEPT ![p].missing = @ \ {c},
                        ![p].pc = IF go[p].existed THEN "alter" ELSE "column",
                        ![p].adding = IF go[p].existed THEN c ELSE None]
    /\ UNCHANGED <<schemas, dbRows, columns, hypertables, stored, databases, mu, acked>>

\* A new column enters the cached schema first, then _influx_meta.  The error
\* of the INSERT is ignored.
RegisterColumn(p, c) ==
    LET t == TableOf(p) IN
    /\ At(p, "column") /\ c \in go[p].missing
    /\ tables' = [tables EXCEPT ![t] = @ \cup {c}]
    /\ \E ok \in May("metaFails") :
          metaRows' = IF ok THEN metaRows \cup {<<t, c>>} ELSE metaRows
    /\ go' = [go EXCEPT ![p].missing = @ \ {c},
                        ![p].pc = IF go[p].existed THEN "alter" ELSE "column",
                        ![p].adding = IF go[p].existed THEN c ELSE None]
    /\ UNCHANGED <<schemas, dbRows, columns, hypertables, stored, databases, mu, acked>>

\* ALTER TABLE ... ADD COLUMN IF NOT EXISTS, if the schema was cached before.
\* Its error, a missing table's included, is ignored.
AddColumn(p) ==
    LET t == TableOf(p) IN
    /\ At(p, "alter")
    /\ \E ok \in May("alterFails") :
          columns' = IF ok /\ columns[t] # None
                     THEN [columns EXCEPT ![t] = @ \cup {go[p].adding}] ELSE columns
    /\ go' = [go EXCEPT ![p].pc = "column", ![p].adding = None]
    /\ UNCHANGED <<schemas, dbRows, metaRows, hypertables, stored, memory, acked>>

\* CREATE TABLE IF NOT EXISTS with every cached column.
NewTable(t) == IF columns[t] = None THEN [columns EXCEPT ![t] = tables[t]] ELSE columns

\* A write whose table cannot be created starts EnsureTable again.
Mutant_TriesAgain(p) ==
    /\ At(p, "column") /\ go[p].missing = {}
    /\ IF DbOf(p) \in schemas
       THEN /\ columns' = NewTable(TableOf(p))
            /\ go' = [go EXCEPT ![p].pc = "hypertable", ![p].existed = FALSE]
            /\ UNCHANGED mu
       ELSE /\ Goto(p, "lockTable")
            /\ Unlock(p)
            /\ UNCHANGED columns
    /\ UNCHANGED <<schemas, dbRows, metaRows, hypertables, stored, databases, tables, acked>>

CreateTable(p) ==
    /\ At(p, "column") /\ go[p].missing = {}
    /\ \/ /\ DbOf(p) \in schemas
          /\ columns' = NewTable(TableOf(p))
          /\ go' = [go EXCEPT ![p].pc = "hypertable", ![p].existed = FALSE]
          /\ UNCHANGED mu
       \/ /\ DbOf(p) \notin schemas \/ "tableFails" \in Faults
          /\ Unlock(p)
          /\ Return(p)
          /\ UNCHANGED columns
    /\ UNCHANGED <<schemas, dbRows, metaRows, hypertables, stored, databases, tables, acked>>

\* create_hypertable(..., if_not_exists) accepts a table that is one already or that
\* is empty: the call does not ask for a migration of rows.
Convertible(t) ==
    /\ columns[t] # None
    /\ t \in hypertables \/ \A r \in stored : r.table # t

\* EnsureTable goes on when create_hypertable fails.
Mutant_IgnoresHypertableError(p) ==
    /\ At(p, "hypertable")
    /\ \/ Convertible(TableOf(p)) /\ hypertables' = hypertables \cup {TableOf(p)}
       \/ ~Convertible(TableOf(p)) /\ UNCHANGED hypertables
       \/ "tableFails" \in Faults /\ UNCHANGED hypertables
    /\ Goto(p, "chunks")
    /\ UNCHANGED <<schemas, dbRows, metaRows, columns, stored, memory, acked>>

CreateHypertable(p) ==
    LET t == TableOf(p) IN
    /\ At(p, "hypertable")
    /\ \/ /\ Convertible(t)
          /\ hypertables' = hypertables \cup {t}
          /\ Goto(p, "chunks")
          /\ UNCHANGED mu
       \/ /\ ~Convertible(t) \/ "tableFails" \in Faults
          /\ Return(p) /\ Unlock(p)
          /\ UNCHANGED hypertables
    /\ UNCHANGED <<schemas, dbRows, metaRows, columns, stored, databases, tables, acked>>

\* DefaultChunkInterval and set_chunk_time_interval, applyCompression, whose errors are all
\* ignored, and the return of EnsureTable.  They wait for rs.mu to read, with m.mu held.
SetChunks(p) ==
    /\ At(p, "chunks")
    /\ Goto(p, "lookup") /\ Unlock(p)
    /\ UNCHANGED <<pg, databases, tables, acked>>

(* InsertBatch.                                                             *)

\* The pointer to the cached schema is taken under RLock.
LookupSchema(p) ==
    LET t == TableOf(p) IN
    /\ At(p, "lookup") /\ Free
    /\ \/ /\ tables[t] # None
          /\ go' = [go EXCEPT ![p].pc = "list", ![p].listed = tables[t]]
       \/ /\ tables[t] = None
          /\ Return(p)
    /\ UNCHANGED <<pg, memory, acked>>

\* schema.Tags and schema.Fields are read without the lock: if an EnsureTable has
\* appended since, either value may be seen.  (After a DROP DATABASE the cache holds
\* another object, and the old one is what is read; that is one of the choices.)
ListColumns(p) ==
    /\ At(p, "list")
    /\ \E cols \in {go[p].listed, tables[TableOf(p)]} \ {None} :
          go' = [go EXCEPT ![p].pc = "insert", ![p].listed = cols]
    /\ UNCHANGED <<pg, memory, acked>>

Records(p) == LET batch == go[p].req.batch[go[p].at] IN {batch[i] : i \in DOMAIN batch}
Row(t, cols) == [table |-> t, cols |-> cols]

\* The schema has grown since its columns were listed.
Grown(p) == tables[TableOf(p)] \notin {None, go[p].listed}

\* The columns the values of a record are stored under: its own, of those listed.  The
\* arguments are placed by reading the schema once more, with the fields after the
\* tags: if a tag has been appended since, the values of fields move to other fields.
Placements(p, r) ==
    LET mine == r \cap go[p].listed
        fields == go[p].listed \ Tags
        tagAdded == Grown(p) /\ ~ tables[TableOf(p)] \cap Tags \subseteq go[p].listed
    IN IF tagAdded
       THEN {(mine \cap Tags) \cup f : f \in kSubset(Cardinality(mine \ Tags), fields)}
       ELSE {mine}

\* The transaction of InsertBatch.  It fails if the list names a column the table
\* does not have; with a schema that has grown since, the handler may also panic.
Insert(p) ==
    LET t == TableOf(p)
        accepted == columns[t] # None /\ go[p].listed \subseteq columns[t]
    IN
    /\ At(p, "insert")
    /\ \/ /\ accepted
          /\ \E place \in [Records(p) -> SUBSET go[p].listed] :
                /\ \A r \in Records(p) : place[r] \in Placements(p, r)
                /\ stored' = stored \cup {Row(t, place[r]) : r \in Records(p)}
          /\ acked' = acked \cup {Row(t, r) : r \in Records(p)}
          /\ go' = [go EXCEPT ![p].pc = "pick", ![p].at = None, ![p].listed = {}]
       \/ /\ ~accepted \/ Grown(p) \/ "insertFails" \in Faults
          /\ Return(p)
          /\ UNCHANGED <<stored, acked>>
    /\ UNCHANGED <<schemas, dbRows, metaRows, columns, hypertables, memory>>

-----------------------------------------------------------------------------
(* CREATE DATABASE, under m.mu.                                             *)

LockCreate(p) ==
    /\ At(p, "lockCreate") /\ Free
    /\ IF DbOf(p) \in databases
       THEN Goto(p, "policies") /\ UNCHANGED mu
       ELSE Goto(p, "createSchema") /\ Lock(p)
    /\ UNCHANGED <<pg, databases, tables, acked>>

CreateDatabaseSchema(p) ==
    /\ At(p, "createSchema")
    /\ \/ /\ schemas' = schemas \cup {DbOf(p)}
          /\ Goto(p, "createRow")
          /\ UNCHANGED mu
       \/ /\ "schemaFails" \in Faults
          /\ Return(p) /\ Unlock(p)
          /\ UNCHANGED schemas
    /\ UNCHANGED <<dbRows, metaRows, columns, hypertables, stored, databases, tables, acked>>

CreateDatabaseRow(p) ==
    /\ At(p, "createRow")
    /\ \E ok \in May("dbRowFails") :
          /\ dbRows' = IF ok THEN dbRows \cup {DbOf(p)} ELSE dbRows
          /\ databases' = IF ok THEN databases \cup {DbOf(p)} ELSE databases
          /\ IF ok THEN Goto(p, "policies") ELSE Return(p)
    /\ Unlock(p)
    /\ UNCHANGED <<schemas, metaRows, columns, hypertables, stored, tables, acked>>

(* DROP DATABASE, under m.mu.                                               *)

LockDrop(p) ==
    /\ At(p, "lockDrop") /\ Free
    /\ IF DbOf(p) \in databases
       THEN Goto(p, "dropRow") /\ Lock(p)
       ELSE Return(p) /\ UNCHANGED mu
    /\ UNCHANGED <<pg, databases, tables, acked>>

\* The error of this DELETE is ignored.
DropDatabaseRow(p) ==
    /\ At(p, "dropRow")
    /\ \E ok \in May("dbRowFails") :
          dbRows' = IF ok THEN dbRows \ {DbOf(p)} ELSE dbRows
    /\ Goto(p, "dropSchema")
    /\ UNCHANGED <<schemas, metaRows, columns, hypertables, stored, memory, acked>>

\* What DROP TABLE, or DROP SCHEMA ... CASCADE, does to tables.
DropTables(gone) ==
    /\ columns' = [t \in Tables |-> IF t \in gone THEN None ELSE columns[t]]
    /\ hypertables' = hypertables \ gone
    /\ stored' = {r \in stored : r.table \notin gone}
    /\ acked' = {r \in acked : r.table \notin gone}

TablesOf(db) == {t \in Tables : t[1] = db}

\* The error of DROP SCHEMA is ignored, as those of the statements around it are.
Mutant_IgnoresDropError(p) ==
    /\ At(p, "dropSchema")
    /\ \/ /\ schemas' = schemas \ {DbOf(p)}
          /\ DropTables(TablesOf(DbOf(p)))
       \/ "dropFails" \in Faults /\ UNCHANGED <<schemas, columns, hypertables, stored, acked>>
    /\ Goto(p, "dropMeta")
    /\ UNCHANGED <<dbRows, metaRows, memory>>

DropDatabaseSchema(p) ==
    /\ At(p, "dropSchema")
    /\ \/ /\ schemas' = schemas \ {DbOf(p)}
          /\ DropTables(TablesOf(DbOf(p)))
          /\ Goto(p, "dropMeta")
          /\ UNCHANGED mu
       \/ /\ "dropFails" \in Faults
          /\ Return(p) /\ Unlock(p)
          /\ UNCHANGED <<schemas, columns, hypertables, stored, acked>>
    /\ UNCHANGED <<dbRows, metaRows, databases, tables>>

\* The error of this DELETE is ignored; then the caches are cleaned.
DropDatabaseMeta(p) ==
    LET gone == TablesOf(DbOf(p)) IN
    /\ At(p, "dropMeta")
    /\ \E ok \in May("metaFails") :
          metaRows' = IF ok THEN {r \in metaRows : r[1] \notin gone} ELSE metaRows
    /\ databases' = databases \ {DbOf(p)}
    /\ tables' = [t \in Tables |-> IF t \in gone THEN None ELSE tables[t]]
    /\ Goto(p, "policies") /\ Unlock(p)
    /\ UNCHANGED <<schemas, dbRows, columns, hypertables, stored, acked>>

(* DROP MEASUREMENT: two statements, no lock, and the cache is not touched. *)

DropMeasurementTable(p) ==
    /\ At(p, "dropTable")
    /\ \/ /\ DropTables({TableOf(p)})
          /\ Goto(p, "dropTableMeta")
       \/ /\ "dropFails" \in Faults
          /\ Return(p)
          /\ UNCHANGED <<columns, hypertables, stored, acked>>
    /\ UNCHANGED <<schemas, dbRows, metaRows, memory>>

DropMeasurementMeta(p) ==
    /\ At(p, "dropTableMeta")
    /\ \E ok \in May("metaFails") :
          metaRows' = IF ok THEN {r \in metaRows : r[1] # TableOf(p)} ELSE metaRows
    /\ Return(p)
    /\ UNCHANGED <<schemas, dbRows, columns, hypertables, stored, memory, acked>>

-----------------------------------------------------------------------------
\* The process dies, and the next one loads its caches (loadSchemas).
CrashRestart ==
    LET loaded(t) == {c \in Columns : <<t, c>> \in metaRows} IN
    /\ "crash" \in Faults
    /\ go' = [p \in Procs |-> Idle]
    /\ mu' = None
    /\ databases' = dbRows
    /\ tables' = [t \in Tables |-> IF loaded(t) = {} THEN None ELSE loaded(t)]
    /\ UNCHANGED <<pg, acked>>

TakeLock(p) ==
    \/ CheckDatabase(p) \/ CacheDatabase(p) \/ LockTable(p) \/ LookupSchema(p)
    \/ LockCreate(p) \/ LockDrop(p)

Statement(p) ==
    \/ CreateSchema(p) \/ InsertDbRow(p) \/ PickMeasurement(p)
    \/ \E c \in Columns : RegisterColumn(p, c)
    \/ AddColumn(p) \/ CreateTable(p) \/ CreateHypertable(p)
    \/ ListColumns(p) \/ Insert(p)
    \/ CreateDatabaseSchema(p) \/ CreateDatabaseRow(p)
    \/ DropDatabaseRow(p) \/ DropDatabaseSchema(p) \/ DropDatabaseMeta(p)
    \/ DropMeasurementTable(p) \/ DropMeasurementMeta(p)

\* The steps that wait for rs.mu, the mutex of the retention store.
CallRetention(p) == EnsureDatabasePolicies(p) \/ SetChunks(p)

Next ==
    \/ \E p \in Procs : \/ \E r \in Requests : Receive(p, r)
                        \/ TakeLock(p)
                        \/ Statement(p)
                        \/ CallRetention(p)
    \/ CrashRestart

Spec == Init /\ [][Next]_vars

\* A goroutine that is not blocked runs; Go's RWMutex hands the lock to a waiter
\* in the end, however many others keep asking for it.  Nothing is assumed of the steps that
\* wait for rs.mu: as ProxyLocks shows, they may wait for good.
Fairness == \A p \in Procs : WF_vars(Statement(p)) /\ SF_vars(TakeLock(p))
LiveSpec == Spec /\ Fairness

-----------------------------------------------------------------------------
(* Properties.                                                              *)

TypeOK ==
    /\ schemas \subseteq Dbs /\ dbRows \subseteq Dbs /\ databases \subseteq Dbs
    /\ metaRows \subseteq Tables \X Columns
    /\ columns \in [Tables -> (SUBSET Columns) \cup {None}]
    /\ tables \in [Tables -> (SUBSET Columns) \cup {None}]
    /\ hypertables \subseteq Tables
    /\ mu \in Procs \cup {None}
    /\ go \in [Procs -> Running \cup {Idle}]
    /\ stored \subseteq [table : Tables, cols : SUBSET Columns]
    /\ acked \subseteq [table : Tables, cols : SUBSET Columns]

\* m.mu is held by the goroutine that is inside EnsureTable, CreateDatabase or
\* DropDatabase, and every path out of them frees it.
MutexHeld == \A p \in Procs : go[p].pc \in Holding <=> mu = p

\* A database the proxy knows, from its cache or from the table it will load at the
\* next start, has its schema: otherwise every write to it fails, since nothing
\* creates the schema of a known database.  (Without DROP DATABASE, which interleaves with
\* EnsureDatabase so that it fails.)
KnownHasSchema == mu = None => databases \cup dbRows \subseteq schemas

\* The automatic table creation keeps the metadata complete: every column of a
\* measurement table is recorded in _influx_meta, so that SHOW, the parser's tag and
\* field classification and the caches of the next process find it.
ColumnsRecorded ==
    \A t \in Tables : columns[t] # None => \A c \in columns[t] : <<t, c>> \in metaRows

\* Outside EnsureTable, a cached column of a table that exists is a column of it:
\* InsertBatch names every cached column, so one that is missing makes every later
\* write to the measurement fail.
CachedAreColumns ==
    \A t \in Tables :
        /\ columns[t] # None /\ tables[t] # None
        /\ \A p \in Procs : go[p].pc \in {"column", "alter"} => TableOf(p) # t
        => tables[t] \subseteq columns[t]

\* No row is stored in a table that has not become a hypertable, whoever created it
\* and wherever that was cut short: retention deletes chunks of hypertables only, and
\* create_hypertable, which every write repeats, refuses a table with rows.
StoredInHypertables == \A r \in stored : r.table \in hypertables

\* A record the client was told is stored is stored, with all its values.
AckedIsStored == acked \subseteq stored

\* The catalog as the running proxy knows it.  A database counts as served from the
\* statement that creates its schema on.
Served == databases \cup {DbOf(p) : p \in {q \in Procs : go[q].pc \in Creating}}
Schema == [t \in Tables |-> IF tables[t] = None THEN {} ELSE tables[t]]

Catalog == INSTANCE MeasurementCatalog
    WITH served <- Served, schema <- Schema, points <- stored

\* However requests interleave, the store is the catalog clients may rely on: points are
\* stored only under columns the proxy knows, in a database it serves, and DROP DATABASE,
\* which is three statements and the cleaning of the caches while other goroutines are in
\* the middle of their writes, never leaves points behind that nothing knows of.  (While the
\* process lives and _influx_databases can be written; or through restarts, without drops and
\* if the metadata can be written too.)
ImplementsCatalog == Catalog!Spec

\* Every request is answered, unless a goroutine waits for rs.mu for good (which holds up
\* every write if it does so in EnsureTable, with m.mu locked): nothing else stops the
\* requests, no path leaves m.mu locked behind it, and none goes round for ever.
WaitsForPolicies(p) == go[p].pc \in {"policies", "chunks"}
Answered ==
    (\A p \in Procs : []<>~WaitsForPolicies(p))
       => \A p \in Procs : ~At(p, "idle") ~> At(p, "idle")

=============================================================================
