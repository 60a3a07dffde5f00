-------------------------- MODULE MetaStoreRefinement --------------------------
(***************************************************************************)
(* The proof that the metadata store implements MeasurementCatalog, for    *)
(* any number of goroutines, databases, measurements and columns: while    *)
(* the process lives, under every request; and through restarts, where     *)
(* nothing is dropped.                                                     *)
(***************************************************************************)
EXTENDS MetaStoreProofs

\* Stored rows have columns of their table, which the proxy knows.
RowsFit == \A r \in stored : columns[r.table] # None /\ r.cols \subseteq columns[r.table]
ColumnsKnown ==
    \A t \in Tables : columns[t] # None =>
        \A c \in columns[t] : tables[t] # None /\ c \in tables[t]
AddedKnown == \A p \in Procs : go[p].pc = "alter" => go[p].adding \in tables[TableOf(p)]
Known == RowsFit /\ ColumnsKnown /\ AddedKnown

\* A database that has tables is served.
TablesServed == \A t \in Tables : columns[t] # None => t[1] \in Served

-----------------------------------------------------------------------------
\* InsertBatch stores rows with columns of its table.
LEMMA InsertStep ==
    ASSUME Base, NEW p \in Procs, Insert(p)
    PROVE  /\ TableOf(p) \in Tables
           /\ UNCHANGED <<columns, tables, databases, schemas>>
           /\ \/ stored' = stored
              \/ /\ columns[TableOf(p)] # None
                 /\ \E new \in SUBSET [table : {TableOf(p)}, cols : SUBSET columns[TableOf(p)]] :
                       stored' = stored \cup new
  <1> DEFINE t == TableOf(p)
  <1>1. t \in Tables
    BY WritesTable DEF Base, TableLabels, Insert, At
  <1>2. UNCHANGED <<columns, tables, databases, schemas>>
    BY DEF Insert, memory
  <1>3. CASE UNCHANGED <<stored, acked>>
    BY <1>1, <1>2, <1>3
  <1>4. ASSUME columns[t] # None, go[p].listed \subseteq columns[t],
               NEW place \in [Records(p) -> SUBSET go[p].listed],
               stored' = stored \cup {Row(t, place[r]) : r \in Records(p)}
        PROVE  \E new \in SUBSET [table : {t}, cols : SUBSET columns[t]] : stored' = stored \cup new
    <2> DEFINE new == {Row(t, place[r]) : r \in Records(p)}
    <2>1. \A r \in Records(p) : Row(t, place[r]) \in [table : {t}, cols : SUBSET columns[t]]
      BY <1>4 DEF Row
    <2>2. new \in SUBSET [table : {t}, cols : SUBSET columns[t]]
      BY <2>1
    <2> QED BY <1>4, <2>2
  <1> QED BY <1>1, <1>2, <1>3, <1>4 DEF Insert

\* The other steps that leave tables alone store nothing.
LEMMA ElsewhereStores ==
    ASSUME Base, NEW p \in Procs, Elsewhere(p), ~Insert(p)
    PROVE  stored' = stored
  <1>1. CASE \E r \in Requests : Receive(p, r)
    BY <1>1 DEF Receive, pg
  <1>2. CASE CheckDatabase(p) \/ CreateSchema(p) \/ InsertDbRow(p) \/ CacheDatabase(p)
    BY <1>2 DEF CheckDatabase, CreateSchema, InsertDbRow, CacheDatabase, pg
  <1>3. CASE PickMeasurement(p) \/ CreateHypertable(p) \/ LookupSchema(p) \/ ListColumns(p)
    BY <1>3 DEF PickMeasurement, CreateHypertable, LookupSchema, ListColumns, pg
  <1>6. CASE EnsureDatabasePolicies(p) \/ SetChunks(p)
    BY <1>6 DEF EnsureDatabasePolicies, SetChunks, pg
  <1>4. CASE LockCreate(p) \/ CreateDatabaseSchema(p) \/ CreateDatabaseRow(p)
    BY <1>4 DEF LockCreate, CreateDatabaseSchema, CreateDatabaseRow, pg
  <1>5. CASE LockDrop(p) \/ DropDatabaseRow(p)
    BY <1>5 DEF LockDrop, DropDatabaseRow, pg
  <1> QED BY <1>1, <1>2, <1>3, <1>4, <1>5, <1>6 DEF Elsewhere

\* What a DROP does to rows: all those of the tables it drops, and no others.
LEMMA DroppedRows ==
    ASSUME Base, NEW gone \in SUBSET Tables, DropTables(gone)
    PROVE  /\ stored' = stored \ {r \in stored : r.table \in gone}
           /\ \A t \in Tables : columns'[t] = IF t \in gone THEN None ELSE columns[t]
  BY DEF DropTables

LEMMA DroppedTable ==
    ASSUME Base, NEW p \in Procs, DropMeasurementTable(p) \/ DropMeasurementMeta(p)
    PROVE  TableOf(p) \in Tables
  <1>1. go[p].pc \in {"dropTable", "dropTableMeta"}
    BY DEF DropMeasurementTable, DropMeasurementMeta, At
  <1>2. go[p].at \in Measurements
    BY <1>1 DEF Base, LocalsOK, LocalOK
  <1> QED BY <1>1, <1>2, TableOfType DEF Base, PCs

LEMMA KnownStep ==
    ASSUME "crash" \notin Faults \/ ColumnsRecorded, Ground, Known, [Next]_vars
    PROVE  Known'
  <1> USE DEF Ground
  <1>r. \A r \in stored : r.table \in Tables
    BY DEF Base, TypeOK
  <1>1. ASSUME NEW p \in Procs, \A q \in Procs : q # p => go'[q] = go[q],
               go'[p].pc = "alter" => go'[p].adding \in tables'[TableOf(p)'],
               \/ \A t \in Tables : tables'[t] = tables[t]
               \/ go[p].pc \in Holding
               \/ mu = None
        PROVE  AddedKnown'
    <2>1. ASSUME NEW q \in Procs, q # p, go'[q].pc = "alter"
          PROVE  go'[q].adding \in tables'[TableOf(q)']
      <3>1. /\ go[q].pc = "alter" /\ go'[q].adding = go[q].adding /\ TableOf(q)' = TableOf(q)
            /\ go[q].pc \in Holding /\ TableOf(q) \in Tables
        BY <1>1, <2>1, InTable DEF TableOf
      <3>2. go[p].pc \notin Holding
        BY <2>1, <3>1, OneHolder
      <3>3. mu = q /\ q # None
        BY <3>1, NoneAssumption DEF Base, MutexHeld
      <3> QED BY <1>1, <3>1, <3>2, <3>3 DEF Known, AddedKnown
    <2> QED BY <1>1, <2>1 DEF AddedKnown
  <1>2. ASSUME stored' \subseteq stored, \A r \in stored' : columns'[r.table] = columns[r.table]
        PROVE  RowsFit'
    BY <1>2 DEF Known, RowsFit
  <1>3. CASE UNCHANGED vars
    BY <1>3 DEF vars, pg, memory, Known, RowsFit, ColumnsKnown, AddedKnown, TableOf
  <1>4. CASE CrashRestart
    <2>1. "crash" \in Faults /\ stored' = stored /\ columns' = columns /\ \A p \in Procs : go'[p].pc = "idle"
      BY <1>4 DEF CrashRestart, Idle, pg
    <2>2. ColumnsKnown'
      <3> SUFFICES ASSUME NEW t \in Tables, columns[t] # None, NEW c \in columns[t]
                   PROVE  tables'[t] # None /\ c \in tables'[t]
        BY <2>1 DEF ColumnsKnown
      <3> DEFINE loaded == {d \in Columns : <<t, d>> \in metaRows}
      <3>1. columns[t] \subseteq Columns
        BY DEF Base, TypeOK
      <3>2. columns[t] \subseteq loaded
        BY <2>1, <3>1 DEF ColumnsRecorded
      <3>3. tables'[t] = IF loaded = {} THEN None ELSE loaded
        BY <1>4 DEF CrashRestart
      <3>4. c \in loaded /\ loaded # None
        BY <3>2, NoneAssumption
      <3> QED BY <3>3, <3>4
    <2> QED BY <2>1, <2>2 DEF Known, RowsFit, AddedKnown
  <1>5. ASSUME NEW p \in Procs, Elsewhere(p)
        PROVE  Known'
    <2>1. /\ \A q \in Procs : q # p => go'[q] = go[q]
          /\ go'[p].pc # "alter" /\ columns' = columns /\ tables' = tables
      BY <1>5, ElsewhereQuiet
    <2>2. ColumnsKnown' /\ AddedKnown'
      BY <1>1, <2>1 DEF Known, ColumnsKnown
    <2>3. RowsFit'
      <3>1. CASE ~Insert(p)
        BY <1>5, <3>1, <2>1, <1>2, ElsewhereStores
      <3>2. CASE Insert(p)
        BY <3>2, <2>1, InsertStep DEF Known, RowsFit
      <3> QED BY <3>1, <3>2
    <2> QED BY <2>2, <2>3 DEF Known
  <1>6. ASSUME NEW p \in Procs, LockTable(p)
        PROVE  Known'
    <2>1. mu = None
      BY <1>6 DEF LockTable, Lock, Free
    <2>2. AddedKnown'
      BY <1>1, <1>6, <2>1, LockTableStep
    <2>3. RowsFit' /\ ColumnsKnown'
      BY <1>6, LockTableStep DEF Known, RowsFit, ColumnsKnown
    <2> QED BY <2>2, <2>3 DEF Known
  <1>7. ASSUME NEW p \in Procs, NEW c \in Columns, RegisterColumn(p, c)
        PROVE  Known'
    <2>1. go[p].pc \in Holding /\ tables[TableOf(p)] # None
      BY <1>7, RegisterColumnStep, InTable
    <2>2. AddedKnown'
      <3>1. /\ go[p].existed => go'[p].adding = c
            /\ ~go[p].existed => go'[p].pc = "column"
            /\ TableOf(p)' = TableOf(p) /\ tables'[TableOf(p)] = tables[TableOf(p)] \cup {c}
            /\ \A q \in Procs : q # p => go'[q] = go[q]
        BY <1>7, RegisterColumnStep
      <3>2. go'[p].pc = "alter" => go'[p].adding \in tables'[TableOf(p)']
        BY <3>1
      <3> QED BY <1>1, <2>1, <3>1, <3>2
    <2>3. RowsFit'
      BY <1>7, RegisterColumnStep DEF Known, RowsFit
    <2>4. ColumnsKnown'
      <3>1. /\ columns' = columns /\ tables'[TableOf(p)] = tables[TableOf(p)] \cup {c}
            /\ \A t \in Tables : t # TableOf(p) => tables'[t] = tables[t]
            /\ go[p].pc = "column"
        BY <1>7, RegisterColumnStep
      <3>2. tables[TableOf(p)] \cup {c} \in SUBSET Columns
        BY <3>1, InTable
      <3>3. tables[TableOf(p)] \cup {c} # None
        BY <3>2, NoneAssumption
      <3> QED BY <3>1, <3>3 DEF Known, ColumnsKnown
    <2> QED BY <2>2, <2>3, <2>4 DEF Known
  <1>8. ASSUME NEW p \in Procs, AddColumn(p)
        PROVE  Known'
    <2>1. AddedKnown'
      BY <1>1, <1>8, AddColumnStep
    <2>2. go[p].adding \in tables[TableOf(p)] /\ tables[TableOf(p)] # None
      BY <1>8, AddColumnStep, InTable DEF Known, AddedKnown
    <2>3. ColumnsKnown'
      BY <1>8, <2>2, AddColumnStep DEF Known, ColumnsKnown
    <2>4. RowsFit'
      <3>1. /\ stored' = stored
            /\ \A t \in Tables : columns[t] # None => columns'[t] \in {columns[t], columns[t] \cup {go[p].adding}}
        BY <1>8, AddColumnStep
      <3>2. \A t \in Tables : columns[t] # None => columns[t] \in SUBSET Columns
        BY DEF Base, TypeOK
      <3>3. go[p].adding \in Columns
        BY <1>8, AddColumnStep, InTable
      <3>4. \A t \in Tables : columns[t] # None => columns'[t] # None /\ columns[t] \subseteq columns'[t]
        BY <3>1, <3>2, <3>3, NoneAssumption
      <3> QED BY <3>1, <3>4, <1>r DEF Known, RowsFit
    <2> QED BY <2>1, <2>3, <2>4 DEF Known
  <1>9. ASSUME NEW p \in Procs, CreateTable(p)
        PROVE  Known'
    <2>1. AddedKnown'
      BY <1>1, <1>9, CreateTableStep
    <2>2. tables[TableOf(p)] # None
      BY <1>9, CreateTableStep, InTable
    <2>3. ColumnsKnown'
      BY <1>9, <2>2, CreateTableStep DEF Known, ColumnsKnown
    <2>4. RowsFit'
      BY <1>9, <1>r, CreateTableStep DEF Known, RowsFit
    <2> QED BY <2>1, <2>3, <2>4 DEF Known
  <1>10. ASSUME NEW p \in Procs, NEW gone \in SUBSET Tables, DropTables(gone),
                \A q \in Procs : q # p => go'[q] = go[q], go'[p].pc # "alter", tables' = tables
         PROVE  Known'
    <2>1. AddedKnown'
      BY <1>1, <1>10
    <2>2. RowsFit'
      BY <1>2, <1>10, <1>r, DroppedRows
    <2>3. ColumnsKnown'
      BY <1>10, DroppedRows DEF Known, ColumnsKnown
    <2> QED BY <2>1, <2>2, <2>3 DEF Known
  <1>11. ASSUME NEW p \in Procs, \A q \in Procs : q # p => go'[q] = go[q], go'[p].pc # "alter",
                UNCHANGED <<tables, columns, stored>>
         PROVE  Known'
    BY <1>1, <1>2, <1>11 DEF Known, ColumnsKnown
  <1>12. ASSUME NEW p \in Procs, DropDatabaseSchema(p)
         PROVE  Known'
    <2>1. /\ \A q \in Procs : q # p => go'[q] = go[q]
          /\ go'[p].pc # "alter" /\ tables' = tables
      BY <1>12, DropSchemaStep
    <2>2. DropTables(TablesOf(DbOf(p))) \/ UNCHANGED <<columns, stored>>
      BY <1>12 DEF DropDatabaseSchema
    <2> QED BY <1>10, <1>11, <2>1, <2>2 DEF TablesOf
  <1>13. ASSUME NEW p \in Procs, DropDatabaseMeta(p)
         PROVE  Known'
    <2>1. /\ go[p].pc = "dropMeta" /\ \A q \in Procs : q # p => go'[q] = go[q]
          /\ go'[p].pc \in {"policies", "idle"}
          /\ \A t \in Tables : tables'[t] = IF t \in TablesOf(DbOf(p)) THEN None ELSE tables[t]
          /\ UNCHANGED <<columns, stored>>
      BY <1>13, DropMetaStep
    <2>2. \A t \in TablesOf(DbOf(p)) : columns[t] = None
      BY <2>1 DEF DroppedHasNone
    <2>3. AddedKnown'
      BY <1>1, <2>1 DEF Holding
    <2>4. RowsFit' /\ ColumnsKnown'
      BY <2>1, <2>2 DEF Known, RowsFit, ColumnsKnown
    <2> QED BY <2>3, <2>4 DEF Known
  <1>14. ASSUME NEW p \in Procs, DropMeasurementTable(p) \/ DropMeasurementMeta(p)
         PROVE  Known'
    <2>1. /\ \A q \in Procs : q # p => go'[q] = go[q]
          /\ go'[p].pc # "alter" /\ tables' = tables
      BY <1>14, DropMeasurementStep
    <2>2. DropTables({TableOf(p)} \cap Tables) \/ UNCHANGED <<columns, stored>>
      <3>1. DropTables({TableOf(p)}) \/ UNCHANGED <<columns, stored>>
        BY <1>14 DEF DropMeasurementTable, DropMeasurementMeta
      <3>2. TableOf(p) \in Tables
        BY <1>14, DroppedTable
      <3> QED BY <3>1, <3>2
    <2> QED BY <1>10, <1>11, <2>1, <2>2
  <1> QED
    BY <1>3, <1>4, <1>5, <1>6, <1>7, <1>8, <1>9, <1>12, <1>13, <1>14, Cases

-----------------------------------------------------------------------------
(* Which databases are served.                                              *)

\* The database goroutine p is making, if it is.
Making(p) == IF go[p].pc \in Creating THEN {DbOf(p)} ELSE {}

\* The databases served before and after a step of p differ by those in the cache and by
\* the one p is making.
LEMMA ServedBy ==
    ASSUME NEW p \in Procs, \A q \in Procs : q # p => go'[q] = go[q]
    PROVE  \E others : /\ Served = databases \cup others \cup Making(p)
                       /\ Served' = databases' \cup others \cup Making(p)'
  <1> DEFINE others == {DbOf(q) : q \in {r \in Procs \ {p} : go[r].pc \in Creating}}
  <1>1. ASSUME NEW x
        PROVE  x \in Served <=> x \in databases \cup others \cup Making(p)
    BY DEF Served, Making
  <1>2. ASSUME NEW x
        PROVE  x \in Served' <=> x \in databases' \cup others \cup Making(p)'
    BY DEF Served, Making, DbOf
  <1>3. Served = databases \cup others \cup Making(p)
    BY <1>1
  <1>4. Served' = databases' \cup others \cup Making(p)'
    BY <1>2
  <1> HIDE DEF others
  <1> QED BY <1>3, <1>4

\* A database is served from the step that creates its schema on, until DROP DATABASE has
\* cleaned the caches.
LEMMA ServedStep ==
    ASSUME "dbRowFails" \notin Faults, Base, NEW p \in Procs
    PROVE  /\ CreateSchema(p) \/ CreateDatabaseSchema(p)
                 => /\ DbOf(p) \in Dbs
                    /\ \/ Served' = Served \cup {DbOf(p)}
                       \/ Served' = Served /\ schemas' = schemas
           /\ DropDatabaseMeta(p)
                 => DbOf(p) \in Dbs /\ Served' \in {Served, Served \ {DbOf(p)}}
           /\ Elsewhere(p) /\ ~CreateSchema(p) /\ ~CreateDatabaseSchema(p) => Served' = Served
           /\ (\/ LockTable(p) \/ (\E c \in Columns : RegisterColumn(p, c))
               \/ AddColumn(p) \/ CreateTable(p) \/ DropDatabaseSchema(p)
               \/ DropMeasurementTable(p) \/ DropMeasurementMeta(p))
                 => Served' = Served
  <1> DEFINE Quiet == \A q \in Procs : q # p => go'[q] = go[q]
  <1>1. Quiet /\ databases' = databases /\ Making(p)' = Making(p) => Served' = Served
    BY ServedBy
  <1>2. Quiet /\ databases' = databases /\ go[p].pc \notin Creating /\ go'[p].pc \notin Creating
           => Served' = Served
    BY <1>1 DEF Making
  <1>3. go[p].pc \in PCs => DbOf(p) \in Dbs
    BY RunningAt, RequestFields DEF Base, DbOf, Running
  <1>4. ASSUME CreateSchema(p) \/ CreateDatabaseSchema(p)
        PROVE  /\ DbOf(p) \in Dbs
               /\ \/ Served' = Served \cup {DbOf(p)}
                  \/ Served' = Served /\ schemas' = schemas
    <2>1. /\ Quiet /\ go[p].pc \in {"schema", "createSchema"}
          /\ go'[p].pc \in {"dbRow", "createRow", "idle"}
          /\ go'[p].pc # "idle" => DbOf(p)' = DbOf(p)
      BY <1>4, Moves DEF Moved, DbOf
    <2>2. databases' = databases
      BY <1>4 DEF CreateSchema, CreateDatabaseSchema, memory
    <2>3. CASE go'[p].pc = "idle"
      <3>1. schemas' = schemas
        BY <1>4, <2>3 DEF CreateSchema, CreateDatabaseSchema, Goto, Base, TypeOK, Running, Idle, At
      <3> QED BY <1>2, <1>3, <2>1, <2>2, <2>3, <3>1 DEF Creating, PCs, Holding
    <2>4. CASE go'[p].pc # "idle"
      <3>1. Making(p) = {} /\ Making(p)' = {DbOf(p)}
        BY <2>1, <2>4 DEF Making, Creating
      <3>2. Served' = Served \cup {DbOf(p)}
        BY <2>1, <2>2, <3>1, ServedBy
      <3> QED BY <1>3, <2>1, <3>2 DEF PCs, Holding
    <2> QED BY <2>3, <2>4
  <1>5. ASSUME DropDatabaseMeta(p)
        PROVE  DbOf(p) \in Dbs /\ Served' \in {Served, Served \ {DbOf(p)}}
    <2>1. Quiet /\ go[p].pc = "dropMeta" /\ go'[p].pc \in {"policies", "idle"}
      BY <1>5, DropMetaStep
    <2>2. databases' = databases \ {DbOf(p)} /\ Making(p) = {} /\ Making(p)' = {}
      BY <1>5, <2>1 DEF DropDatabaseMeta, Making, Creating
    <2>3. PICK others : /\ Served = databases \cup others
                        /\ Served' = (databases \ {DbOf(p)}) \cup others
      BY <2>1, <2>2, ServedBy
    <2>4. CASE DbOf(p) \in others
      BY <1>3, <2>1, <2>3, <2>4 DEF PCs, Holding
    <2>5. CASE DbOf(p) \notin others
      BY <1>3, <2>1, <2>3, <2>5 DEF PCs, Holding
    <2> QED BY <2>4, <2>5
  <1>6. ASSUME Elsewhere(p), ~CreateSchema(p), ~CreateDatabaseSchema(p)
        PROVE  Served' = Served
    <2>1. CASE \E r \in Requests : Receive(p, r)
      BY <1>2, <2>1, Arrives DEF Creating, memory, Receive, At
    <2>2. CASE InsertDbRow(p)
      <3>1. Quiet /\ go[p].pc = "dbRow" /\ go[p] \in Running
        BY <2>2, Moves DEF Moved
      <3>2. go'[p].pc = "cacheDb" /\ go'[p].req = go[p].req /\ databases' = databases
        BY <2>2, <3>1 DEF InsertDbRow, Goto, memory, Base, TypeOK, Running
      <3>3. Making(p)' = Making(p)
        BY <3>1, <3>2 DEF Making, Creating, DbOf
      <3> QED BY <1>1, <3>1, <3>2, <3>3
    <2>3. CASE CacheDatabase(p)
      <3>1. Quiet /\ go[p].pc = "cacheDb" /\ go'[p].pc \in {"policies", "idle"}
        BY <2>3, Moves DEF Moved
      <3>2. databases' = databases \cup {DbOf(p)} /\ Making(p) = {DbOf(p)} /\ Making(p)' = {}
        BY <2>3, <3>1 DEF CacheDatabase, Making, Creating
      <3> QED BY <3>1, <3>2, ServedBy
    <2>4. CASE CreateDatabaseRow(p)
      <3>1. Quiet /\ go[p].pc = "createRow" /\ go'[p].pc \in {"policies", "idle"}
        BY <2>4, Moves DEF Moved
      <3>2. databases' = databases \cup {DbOf(p)} /\ Making(p) = {DbOf(p)} /\ Making(p)' = {}
        BY <2>4, <3>1 DEF CreateDatabaseRow, May, Making, Creating
      <3> QED BY <3>1, <3>2, ServedBy
    <2>5. CASE \/ CheckDatabase(p) \/ PickMeasurement(p) \/ CreateHypertable(p)
               \/ EnsureDatabasePolicies(p) \/ SetChunks(p)
      BY <1>2, <2>5, Moves
      DEF Moved, CheckDatabase, PickMeasurement, CreateHypertable, EnsureDatabasePolicies, SetChunks,
          memory, Creating
    <2>6. CASE LookupSchema(p) \/ ListColumns(p) \/ Insert(p)
      BY <1>2, <2>6, Moves DEF Moved, LookupSchema, ListColumns, Insert, memory, Creating
    <2>7. CASE LockCreate(p) \/ LockDrop(p) \/ DropDatabaseRow(p)
      BY <1>2, <2>7, Moves DEF Moved, LockCreate, LockDrop, DropDatabaseRow, memory, Creating
    <2> QED BY <1>6, <2>1, <2>2, <2>3, <2>4, <2>5, <2>6, <2>7 DEF Elsewhere
  <1>7. ASSUME \/ LockTable(p) \/ (\E c \in Columns : RegisterColumn(p, c))
               \/ AddColumn(p) \/ CreateTable(p)
        PROVE  Served' = Served
    <2>1. Quiet /\ go[p].pc \notin Creating /\ go'[p].pc \notin Creating
      BY <1>7, Moves DEF Moved, Creating
    <2>2. databases' = databases
      BY <1>7 DEF LockTable, RegisterColumn, AddColumn, CreateTable, memory
    <2> QED BY <1>2, <2>1, <2>2
  <1>8. CASE DropDatabaseSchema(p) \/ DropMeasurementTable(p) \/ DropMeasurementMeta(p)
    BY <1>2, <1>8, Moves
    DEF Moved, DropDatabaseSchema, DropMeasurementTable, DropMeasurementMeta, memory, Creating
  <1> QED BY <1>4, <1>5, <1>6, <1>7, <1>8

-----------------------------------------------------------------------------
(* While the process lives.                                                 *)

\* A schema that exists is that of a cached database which no DROP DATABASE is about to
\* forget, or of one that is being made: what is made again between DROP SCHEMA and the
\* cleaning of the caches counts as being made for as long as m.mu is held.
SchemasServed ==
    \A d \in schemas :
        \/ d \in databases /\ \A p \in Procs : go[p].pc = "dropMeta" => DbOf(p) # d
        \/ \E p \in Procs : go[p].pc \in Creating /\ DbOf(p) = d
TablesInSchemas == \A t \in Tables : columns[t] # None => t[1] \in schemas
Housed == SchemasServed /\ TablesInSchemas

LEMMA HousedIsServed == Housed => TablesServed
  BY DEF Housed, SchemasServed, TablesInSchemas, TablesServed, Served

\* Where the steps that touch neither columns nor schemas lead.
LEMMA QuietHousing ==
    ASSUME Base, Housed, NEW p \in Procs, \A q \in Procs : q # p => go'[q] = go[q],
           UNCHANGED <<schemas, databases>>,
           \A t \in Tables : columns'[t] # None => columns[t] # None,
           go'[p].pc # "dropMeta",
           go[p].pc \in Creating => go'[p].pc \in Creating /\ DbOf(p)' = DbOf(p)
    PROVE  Housed'
  <1>1. ASSUME NEW d \in schemas
        PROVE  \/ d \in databases /\ \A q \in Procs : go'[q].pc = "dropMeta" => DbOf(q)' # d
               \/ \E q \in Procs : go'[q].pc \in Creating /\ DbOf(q)' = d
    <2>1. CASE d \in databases /\ \A q \in Procs : go[q].pc = "dropMeta" => DbOf(q) # d
      BY <2>1 DEF DbOf
    <2>2. CASE \E q \in Procs : go[q].pc \in Creating /\ DbOf(q) = d
      BY <2>2 DEF DbOf
    <2> QED BY <2>1, <2>2 DEF Housed, SchemasServed
  <1> QED BY <1>1 DEF Housed, SchemasServed, TablesInSchemas

LEMMA HousedStep ==
    ASSUME Faults \cap {"crash", "dbRowFails"} = {}, Ground, Housed, [Next]_vars
    PROVE  Housed'
  <1> USE DEF Ground
  <1>1. CASE UNCHANGED vars
    BY <1>1 DEF vars, pg, memory, Housed, SchemasServed, TablesInSchemas, DbOf
  <1>2. CASE CrashRestart
    BY <1>2 DEF CrashRestart
  <1>3. ASSUME NEW p \in Procs, \E r \in Requests : Receive(p, r)
        PROVE  Housed'
    <2>1. /\ \A q \in Procs : q # p => go'[q] = go[q]
          /\ go'[p].pc # "dropMeta" /\ go[p].pc \notin Creating
          /\ UNCHANGED <<schemas, databases, columns>>
      BY <1>3, Arrives DEF Receive, At, Creating, pg, memory
    <2> QED BY <2>1, QuietHousing
  <1>4. ASSUME NEW p \in Procs,
               \/ CheckDatabase(p) \/ PickMeasurement(p) \/ CreateHypertable(p)
               \/ EnsureDatabasePolicies(p) \/ SetChunks(p)
               \/ LookupSchema(p) \/ ListColumns(p) \/ Insert(p)
        PROVE  Housed'
    <2>1. /\ \A q \in Procs : q # p => go'[q] = go[q]
          /\ go'[p].pc # "dropMeta" /\ go[p].pc \notin Creating
      BY <1>4, Moves DEF Moved, Creating
    <2>2. UNCHANGED <<schemas, databases, columns>>
      BY <1>4
      DEF CheckDatabase, PickMeasurement, CreateHypertable, EnsureDatabasePolicies, SetChunks,
          LookupSchema, ListColumns, Insert, pg, memory
    <2> QED BY <2>1, <2>2, QuietHousing
  <1>5. ASSUME NEW p \in Procs,
               \/ LockCreate(p) \/ LockDrop(p) \/ DropDatabaseRow(p)
               \/ LockTable(p) \/ \E c \in Columns : RegisterColumn(p, c)
        PROVE  Housed'
    <2>1. /\ \A q \in Procs : q # p => go'[q] = go[q]
          /\ go'[p].pc # "dropMeta" /\ go[p].pc \notin Creating
      BY <1>5, Moves DEF Moved, Creating
    <2>2. UNCHANGED <<schemas, databases, columns>>
      BY <1>5 DEF LockCreate, LockDrop, DropDatabaseRow, LockTable, RegisterColumn, pg, memory
    <2> QED BY <2>1, <2>2, QuietHousing
  <1>6. ASSUME NEW p \in Procs, InsertDbRow(p)
        PROVE  Housed'
    <2>1. /\ \A q \in Procs : q # p => go'[q] = go[q]
          /\ go[p].pc = "dbRow" /\ go[p] \in Running
          /\ UNCHANGED <<schemas, databases, columns>>
      BY <1>6, Moves DEF Moved, InsertDbRow, memory
    <2>2. go'[p].pc = "cacheDb" /\ DbOf(p)' = DbOf(p)
      BY <1>6, <2>1 DEF InsertDbRow, Goto, Base, TypeOK, Running, DbOf
    <2> QED BY <2>1, <2>2, QuietHousing DEF Creating
  <1>7. ASSUME NEW p \in Procs, AddColumn(p)
        PROVE  Housed'
    <2>1. UNCHANGED <<schemas, databases>>
      BY <1>7 DEF AddColumn, memory
    <2>2. \A t \in Tables : columns'[t] # None => columns[t] # None
      BY <1>7, AddColumnStep
    <2> QED BY <1>7, <2>1, <2>2, AddColumnStep, QuietHousing DEF Creating
  <1>8. ASSUME NEW p \in Procs, DropMeasurementTable(p) \/ DropMeasurementMeta(p)
        PROVE  Housed'
    <2>1. UNCHANGED <<schemas, databases>>
      BY <1>8 DEF DropMeasurementTable, DropMeasurementMeta, memory
    <2>2. \A t \in Tables : columns'[t] # None => columns[t] # None
      BY <1>8, DropMeasurementStep
    <2> QED BY <1>8, <2>1, <2>2, DropMeasurementStep, QuietHousing DEF Creating
  \* The steps that create a schema or make its database known, or a table in it.
  <1>9. ASSUME NEW p \in Procs, CreateSchema(p) \/ CreateDatabaseSchema(p)
        PROVE  Housed'
    <2>1. /\ \A q \in Procs : q # p => go'[q] = go[q]
          /\ go[p].pc \in {"schema", "createSchema"} /\ go[p] \in Running
          /\ go'[p].pc # "dropMeta"
          /\ UNCHANGED <<databases, columns>>
      BY <1>9, Moves DEF Moved, CreateSchema, CreateDatabaseSchema, memory
    <2>2. CASE schemas' = schemas
      BY <2>1, <2>2, QuietHousing DEF Creating
    <2>3. CASE schemas' # schemas
      <3>1. schemas' = schemas \cup {DbOf(p)} /\ go'[p].pc \in Creating /\ DbOf(p)' = DbOf(p)
        BY <1>9, <2>1, <2>3
        DEF CreateSchema, CreateDatabaseSchema, Goto, Base, TypeOK, Running, DbOf, Creating
      <3>2. ASSUME NEW d \in schemas
            PROVE  \/ d \in databases /\ \A q \in Procs : go'[q].pc = "dropMeta" => DbOf(q)' # d
                   \/ \E q \in Procs : go'[q].pc \in Creating /\ DbOf(q)' = d
        <4>1. CASE d \in databases /\ \A q \in Procs : go[q].pc = "dropMeta" => DbOf(q) # d
          BY <2>1, <4>1 DEF DbOf
        <4>2. CASE \E q \in Procs : go[q].pc \in Creating /\ DbOf(q) = d
          BY <2>1, <4>2 DEF DbOf, Creating
        <4> QED BY <4>1, <4>2 DEF Housed, SchemasServed
      <3>3. SchemasServed'
        BY <2>1, <3>1, <3>2 DEF SchemasServed
      <3>4. TablesInSchemas'
        BY <2>1, <3>1 DEF Housed, TablesInSchemas
      <3> QED BY <3>3, <3>4 DEF Housed
    <2> QED BY <2>2, <2>3
  <1>10. ASSUME NEW p \in Procs, CacheDatabase(p) \/ CreateDatabaseRow(p)
         PROVE  Housed'
    <2>1. /\ \A q \in Procs : q # p => go'[q] = go[q]
          /\ go[p].pc \in {"cacheDb", "createRow"}
          /\ go'[p].pc \in {"policies", "idle"}
      BY <1>10, Moves DEF Moved
    <2>2. databases' = databases \cup {DbOf(p)} /\ UNCHANGED <<schemas, columns>>
      BY <1>10 DEF CacheDatabase, CreateDatabaseRow, May, pg
    <2>3. ASSUME NEW q \in Procs, go[q].pc = "dropMeta"
          PROVE  FALSE
      <3>1. CASE CacheDatabase(p)
        BY <2>3, <3>1, NoneAssumption DEF CacheDatabase, Free, Base, MutexHeld, Holding
      <3>2. CASE CreateDatabaseRow(p)
        BY <2>3, <3>2, OneHolder DEF CreateDatabaseRow, At, Holding
      <3> QED BY <1>10, <3>1, <3>2
    <2>4. ASSUME NEW d \in schemas
          PROVE  \/ d \in databases' /\ \A q \in Procs : go'[q].pc = "dropMeta" => DbOf(q)' # d
                 \/ \E q \in Procs : go'[q].pc \in Creating /\ DbOf(q)' = d
      <3>1. \A q \in Procs : go'[q].pc # "dropMeta"
        BY <2>1, <2>3
      <3>2. CASE d \in databases \/ d = DbOf(p)
        BY <2>2, <3>1, <3>2
      <3>3. ASSUME NEW q \in Procs, q # p, go[q].pc \in Creating, DbOf(q) = d
            PROVE  go'[q].pc \in Creating /\ DbOf(q)' = d
        BY <2>1, <3>3 DEF DbOf
      <3> QED BY <3>2, <3>3 DEF Housed, SchemasServed
    <2> QED BY <2>2, <2>4 DEF Housed, SchemasServed, TablesInSchemas
  <1>11. ASSUME NEW p \in Procs, CreateTable(p)
         PROVE  Housed'
    <2>1. UNCHANGED <<schemas, databases>>
      BY <1>11 DEF CreateTable
    <2>2. /\ \A q \in Procs : q # p => go'[q] = go[q]
          /\ go[p].pc = "column" /\ go'[p].pc \in {"hypertable", "idle"}
      BY <1>11, CreateTableStep
    <2>3. CASE columns' = columns
      BY <2>1, <2>2, <2>3, QuietHousing DEF Creating
    <2>4. CASE columns' # columns
      <3>1. DbOf(p) \in schemas
        BY <1>11, <2>4 DEF CreateTable
      <3>2. ASSUME NEW t \in Tables, columns'[t] # None
            PROVE  t[1] \in schemas
        <4>1. CASE t = TableOf(p)
          BY <3>1, <4>1 DEF TableOf, DbOf
        <4>2. CASE t # TableOf(p)
          <5>1. columns'[t] = columns[t]
            BY <1>11, <4>2, CreateTableStep
          <5> QED BY <3>2, <5>1 DEF Housed, TablesInSchemas
        <4> QED BY <4>1, <4>2
      <3>3. SchemasServed'
        <4>1. ASSUME NEW d \in schemas
              PROVE  \/ d \in databases /\ \A q \in Procs : go'[q].pc = "dropMeta" => DbOf(q)' # d
                     \/ \E q \in Procs : go'[q].pc \in Creating /\ DbOf(q)' = d
          <5>1. CASE d \in databases /\ \A q \in Procs : go[q].pc = "dropMeta" => DbOf(q) # d
            BY <2>2, <5>1 DEF DbOf
          <5>2. CASE \E q \in Procs : go[q].pc \in Creating /\ DbOf(q) = d
            BY <2>2, <5>2 DEF DbOf, Creating
          <5> QED BY <5>1, <5>2 DEF Housed, SchemasServed
        <4> QED BY <2>1, <4>1 DEF SchemasServed
      <3> QED BY <2>1, <3>2, <3>3 DEF Housed, TablesInSchemas
    <2> QED BY <2>3, <2>4
  \* DROP DATABASE.
  <1>12. ASSUME NEW p \in Procs, DropDatabaseSchema(p)
         PROVE  Housed'
    <2>1. /\ go[p].pc = "dropSchema" /\ \A q \in Procs : q # p => go'[q] = go[q]
          /\ go'[p].pc \in {"dropMeta", "idle"} /\ databases' = databases
      BY <1>12, DropSchemaStep DEF DropDatabaseSchema
    <2>2. CASE Return(p) /\ UNCHANGED <<schemas, columns>>
      <3>1. go'[p].pc = "idle"
        BY <2>2 DEF Return, Idle, Base, TypeOK
      <3> QED BY <2>1, <2>2, <3>1, QuietHousing DEF Creating
    <2>3. CASE schemas' = schemas \ {DbOf(p)} /\ DropTables(TablesOf(DbOf(p))) /\ Goto(p, "dropMeta")
      <3>1. go'[p].pc = "dropMeta" /\ DbOf(p)' = DbOf(p)
        BY <1>12, <2>1, <2>3, Moves DEF Moved, DbOf, Goto, Base, TypeOK, Running
      <3>2. ASSUME NEW d \in schemas'
            PROVE  \/ d \in databases /\ \A q \in Procs : go'[q].pc = "dropMeta" => DbOf(q)' # d
                   \/ \E q \in Procs : go'[q].pc \in Creating /\ DbOf(q)' = d
        <4>1. d \in schemas /\ d # DbOf(p)
          BY <2>3
        <4>2. CASE d \in databases /\ \A q \in Procs : go[q].pc = "dropMeta" => DbOf(q) # d
          BY <2>1, <3>1, <4>1, <4>2 DEF DbOf
        <4>3. CASE \E q \in Procs : go[q].pc \in Creating /\ DbOf(q) = d
          BY <2>1, <4>3 DEF DbOf, Creating
        <4> QED BY <4>1, <4>2, <4>3 DEF Housed, SchemasServed
      <3>3. SchemasServed'
        BY <2>1, <3>2 DEF SchemasServed
      <3>4. TablesInSchemas'
        BY <2>3 DEF Housed, TablesInSchemas, DropTables, TablesOf
      <3> QED BY <3>3, <3>4 DEF Housed
    <2> QED BY <1>12, <2>2, <2>3 DEF DropDatabaseSchema
  <1>13. ASSUME NEW p \in Procs, DropDatabaseMeta(p)
         PROVE  Housed'
    <2>1. /\ go[p].pc = "dropMeta" /\ \A q \in Procs : q # p => go'[q] = go[q]
          /\ go'[p].pc \in {"policies", "idle"} /\ columns' = columns
      BY <1>13, DropMetaStep
    <2>2. databases' = databases \ {DbOf(p)} /\ schemas' = schemas
      BY <1>13 DEF DropDatabaseMeta
    <2>3. ASSUME NEW d \in schemas
          PROVE  \/ d \in databases' /\ \A q \in Procs : go'[q].pc = "dropMeta" => DbOf(q)' # d
                 \/ \E q \in Procs : go'[q].pc \in Creating /\ DbOf(q)' = d
      <3>1. CASE d \in databases /\ \A q \in Procs : go[q].pc = "dropMeta" => DbOf(q) # d
        BY <2>1, <2>2, <3>1 DEF DbOf
      <3>2. CASE \E q \in Procs : go[q].pc \in Creating /\ DbOf(q) = d
        BY <2>1, <3>2 DEF DbOf, Creating
      <3> QED BY <3>1, <3>2 DEF Housed, SchemasServed
    <2> QED BY <2>1, <2>2, <2>3 DEF Housed, SchemasServed, TablesInSchemas
  <1> QED
    BY <1>1, <1>2, <1>3, <1>4, <1>5, <1>6, <1>7, <1>8, <1>9, <1>10, <1>11, <1>12, <1>13, Cases
    DEF Elsewhere

-----------------------------------------------------------------------------
(* The steps of the store are those of the catalog.                         *)

seen == <<Served, Schema, stored>>

LEMMA SchemaKept == tables' = tables => Schema' = Schema
  BY DEF Schema

\* Where no statement on _influx_databases fails, a step of a goroutine is one of the catalog,
\* or none.
LEMMA CatalogStep ==
    ASSUME "dbRowFails" \notin Faults, Ground, Known, TablesServed, NEW p \in Procs,
           \/ Elsewhere(p)
           \/ LockTable(p) \/ (\E c \in Columns : RegisterColumn(p, c))
           \/ AddColumn(p) \/ CreateTable(p)
           \/ DropDatabaseSchema(p) \/ DropDatabaseMeta(p)
           \/ DropMeasurementTable(p) \/ DropMeasurementMeta(p)
    PROVE  Catalog!Next \/ UNCHANGED seen
  <1> USE DEF Ground
  <1>t. Catalog!Tables = Tables /\ \A db : Catalog!TablesIn(db) = TablesOf(db)
    BY DEF Catalog!Tables, Catalog!TablesIn, Tables, TablesOf
  <1>1. CASE Elsewhere(p) /\ ~Insert(p)
    <2>1. Schema' = Schema /\ stored' = stored
      BY <1>1, ElsewhereQuiet, ElsewhereStores, SchemaKept
    <2>2. CASE CreateSchema(p) \/ CreateDatabaseSchema(p)
      <3>1. DbOf(p) \in Dbs /\ Served' \in {Served, Served \cup {DbOf(p)}}
        BY <2>2, ServedStep
      <3>2. Catalog!Serve(DbOf(p)) \/ UNCHANGED seen
        BY <2>1, <3>1 DEF Catalog!Serve, seen
      <3> QED BY <3>1, <3>2 DEF Catalog!Next
    <2>3. CASE ~CreateSchema(p) /\ ~CreateDatabaseSchema(p)
      BY <1>1, <2>1, <2>3, ServedStep DEF seen
    <2> QED BY <2>2, <2>3
  <1>2. CASE Insert(p)
    <2> DEFINE t == TableOf(p)
    <2>1. Elsewhere(p) /\ ~CreateSchema(p) /\ ~CreateDatabaseSchema(p)
      BY <1>2 DEF Elsewhere, Insert, CreateSchema, CreateDatabaseSchema, At
    <2>2. Served' = Served /\ Schema' = Schema /\ t \in Tables
      BY <1>2, <2>1, ServedStep, InsertStep, SchemaKept
    <2>3. CASE stored' = stored
      BY <2>2, <2>3 DEF seen
    <2>4. ASSUME columns[t] # None, NEW new \in SUBSET [table : {t}, cols : SUBSET columns[t]],
                 stored' = stored \cup new
          PROVE  Catalog!Next
      <3>1. columns[t] \subseteq Schema[t]
        BY <2>2, <2>4 DEF Known, ColumnsKnown, Schema
      <3>2. new \in SUBSET [table : {t}, cols : SUBSET Schema[t]]
        BY <2>4, <3>1
      <3>3. t[1] \in Served
        BY <2>2, <2>4 DEF TablesServed
      <3>4. Catalog!Store(t, new)
        BY <2>2, <2>4, <3>3 DEF Catalog!Store
      <3> QED BY <1>t, <2>2, <3>2, <3>4 DEF Catalog!Next
    <2> QED BY <1>2, <2>3, <2>4, InsertStep
  <1>3. CASE LockTable(p)
    <2>1. Served' = Served /\ stored' = stored
      BY <1>3, ServedStep, LockTableStep
    <2>2. \A t \in Tables : Schema'[t] = Schema[t]
      BY <1>3, LockTableStep DEF Schema
    <2>3. Schema' = Schema
      BY <2>2 DEF Schema
    <2> QED BY <2>1, <2>3 DEF seen
  <1>4. ASSUME NEW c \in Columns, RegisterColumn(p, c)
        PROVE  Catalog!Next
    <2> DEFINE t == TableOf(p)
    <2>1. /\ go[p].pc = "column" /\ t \in Tables /\ tables'[t] = tables[t] \cup {c}
          /\ \A u \in Tables : u # t => tables'[u] = tables[u]
          /\ stored' = stored
      BY <1>4, RegisterColumnStep
    <2>2. tables[t] \in SUBSET Columns /\ tables[t] # None
      BY <2>1, InTable
    <2>3. tables'[t] # None
      BY <2>1, <2>2, NoneAssumption
    <2>4. Schema'[t] = Schema[t] \cup {c} /\ \A u \in Tables : u # t => Schema'[u] = Schema[u]
      BY <2>1, <2>2, <2>3 DEF Schema
    <2>5. Schema' = [Schema EXCEPT ![t] = Schema[t] \cup {c}]
      BY <2>1, <2>4 DEF Schema
    <2>6. Served' = Served
      BY <1>4, ServedStep
    <2>7. Catalog!Describe(t, c)
      BY <2>1, <2>5, <2>6 DEF Catalog!Describe
    <2> QED BY <1>t, <2>1, <2>7 DEF Catalog!Next
  <1>5. CASE AddColumn(p) \/ CreateTable(p)
    <2>1. Served' = Served
      BY <1>5, ServedStep
    <2>2. stored' = stored /\ Schema' = Schema
      BY <1>5, AddColumnStep, CreateTableStep, SchemaKept
    <2> QED BY <2>1, <2>2 DEF seen
  <1>6. CASE DropDatabaseSchema(p)
    <2>1. Served' = Served /\ Schema' = Schema
      BY <1>6, ServedStep, DropSchemaStep, SchemaKept
    <2>2. CASE stored' = stored
      BY <2>1, <2>2 DEF seen
    <2>3. CASE DropTables(TablesOf(DbOf(p)))
      <3>1. Catalog!Clear(Catalog!TablesIn(DbOf(p)))
        BY <1>t, <2>1, <2>3, DroppedRows DEF Catalog!Clear, Catalog!PointsOf, TablesOf
      <3>2. DbOf(p) \in Dbs
        BY <1>6, RunningAt, RequestFields
        DEF DropDatabaseSchema, At, Base, DbOf, Running, PCs, Holding
      <3> QED BY <3>1, <3>2 DEF Catalog!Next
    <2> QED BY <1>6, <2>2, <2>3 DEF DropDatabaseSchema
  <1>7. CASE DropDatabaseMeta(p)
    <2> DEFINE db == DbOf(p)
    <2>1. /\ go[p].pc = "dropMeta" /\ UNCHANGED <<columns, stored>>
          /\ \A t \in Tables : tables'[t] = IF t \in TablesOf(db) THEN None ELSE tables[t]
      BY <1>7, DropMetaStep
    <2>2. Catalog!PointsOf(TablesOf(db)) = {}
      BY <2>1 DEF Catalog!PointsOf, DroppedHasNone, Known, RowsFit
    <2>3. Schema' = [t \in Tables |-> IF t \in TablesOf(db) THEN {} ELSE Schema[t]]
      BY <2>1 DEF Schema
    <2>4. db \in Dbs /\ Served' \in {Served, Served \ {db}}
      BY <1>7, ServedStep
    <2>5. Catalog!Forget(db)
      BY <1>t, <2>1, <2>2, <2>3, <2>4 DEF Catalog!Forget
    <2> QED BY <2>4, <2>5 DEF Catalog!Next
  <1>8. CASE DropMeasurementTable(p) \/ DropMeasurementMeta(p)
    <2>1. Served' = Served /\ Schema' = Schema
      BY <1>8, ServedStep, DropMeasurementStep, SchemaKept
    <2>2. CASE stored' = stored
      BY <2>1, <2>2 DEF seen
    <2>3. CASE DropTables({TableOf(p)})
      <3>1. TableOf(p) \in Tables
        BY <1>8, DroppedTable
      <3>2. Catalog!Clear({TableOf(p)})
        BY <2>1, <2>3, <3>1, DroppedRows DEF Catalog!Clear, Catalog!PointsOf
      <3> QED BY <1>t, <3>1, <3>2 DEF Catalog!Next
    <2> QED BY <1>8, <2>2, <2>3 DEF DropMeasurementTable, DropMeasurementMeta
  <1> QED BY <1>1, <1>2, <1>3, <1>4, <1>5, <1>6, <1>7, <1>8

LEMMA CatalogInit == Init => Catalog!Init
  <1> SUFFICES ASSUME Init PROVE Catalog!Init
    OBVIOUS
  <1>1. Served = {}
    BY DEF Init, Served, Idle, Creating
  <1>2. Schema = [t \in Tables |-> {}]
    BY DEF Init, Schema
  <1> QED BY <1>1, <1>2 DEF Init, Catalog!Init, Catalog!Tables, Tables

LEMMA SeenOnly == UNCHANGED vars => UNCHANGED seen
  BY DEF vars, pg, memory, seen, Served, Schema, DbOf

LEMMA KnownInit == Init => Known /\ Housed
  BY DEF Init, Known, RowsFit, ColumnsKnown, AddedKnown, Housed, SchemasServed, TablesInSchemas, Idle

Alive == Faults \cap {"crash", "dbRowFails"} = {}

LEMMA HousedAlways ==
    ASSUME Alive
    PROVE  Spec => [](Ground /\ Known /\ Housed)
  <1>1. Init => Known /\ Housed
    BY KnownInit
  <1>2. Ground /\ Known /\ [Next]_vars => Known'
    BY KnownStep DEF Alive
  <1>3. Ground /\ Housed /\ [Next]_vars => Housed'
    BY HousedStep DEF Alive
  <1> QED BY <1>1, <1>2, <1>3, GroundAlways, PTL DEF Spec

\* While the process lives and _influx_databases can be written, the store is the catalog of
\* MeasurementCatalog under every request, however they interleave and whatever else fails:
\* a write that passed EnsureDatabase before a DROP DATABASE stores its points in a database
\* that is being made again, or nowhere, and DROP DATABASE forgets nothing that has points.
THEOREM CatalogWhileRunning ==
    ASSUME Alive
    PROVE  Spec => ImplementsCatalog
  <1> DEFINE Inv == Ground /\ Known /\ Housed
  <1>1. Inv /\ [Next]_vars => [Catalog!Next]_<<Served, Schema, stored>>
    <2> SUFFICES ASSUME Inv, [Next]_vars
                 PROVE  Catalog!Next \/ UNCHANGED seen
      BY DEF seen
    <2>1. CASE UNCHANGED vars
      BY <2>1, SeenOnly
    <2>2. CASE CrashRestart
      BY <2>2 DEF CrashRestart, Alive
    <2> QED BY <2>1, <2>2, Cases, CatalogStep, HousedIsServed DEF Alive
  <1> QED BY <1>1, HousedAlways, CatalogInit, PTL DEF Spec, ImplementsCatalog, Catalog!Spec

-----------------------------------------------------------------------------
(* Through restarts, where nothing is dropped.                              *)

\* What the next start will load: the databases a goroutine works in, and those that have
\* tables, have their row; a row is that of a database served now; a recorded column is
\* cached.
RowsOfServed ==
    /\ databases \subseteq dbRows /\ dbRows \subseteq Served
    /\ \A p \in Procs : /\ go[p].pc = "cacheDb" => DbOf(p) \in dbRows
                        /\ go[p].pc \in {"policies", "pick"} \cup TableLabels => DbOf(p) \in databases
TablesHaveRows ==
    \A t \in Tables : tables[t] # None \/ columns[t] # None => t[1] \in databases
MetaCached ==
    \A r \in metaRows : tables[r[1]] # None /\ r[2] \in tables[r[1]]
Loadable == RowsOfServed /\ TablesHaveRows /\ MetaCached

LEMMA LoadableStep ==
    ASSUME Ops \cap {"dropDb", "dropMeasurement"} = {}, "dbRowFails" \notin Faults,
           Ground, Loadable, [Next]_vars
    PROVE  Loadable'
  <1> USE DEF Ground
  <1>m. \A r \in metaRows : r[1] \in Tables
    BY DEF Base, TypeOK
  <1>1. ASSUME NEW p \in Procs, \A q \in Procs : q # p => go'[q] = go[q],
               databases \subseteq databases', dbRows \subseteq dbRows',
               databases' \subseteq dbRows', dbRows' \subseteq Served',
               go'[p].pc = "cacheDb" => DbOf(p)' \in dbRows',
               go'[p].pc \in {"policies", "pick"} \cup TableLabels => DbOf(p)' \in databases'
        PROVE  RowsOfServed'
    <2>1. ASSUME NEW q \in Procs, q # p
          PROVE  /\ go'[q].pc = "cacheDb" => DbOf(q)' \in dbRows'
                 /\ go'[q].pc \in {"policies", "pick"} \cup TableLabels => DbOf(q)' \in databases'
      BY <1>1, <2>1 DEF Loadable, RowsOfServed, DbOf
    <2> QED BY <1>1, <2>1 DEF RowsOfServed
  <1>2. ASSUME NEW p \in Procs, \A q \in Procs : q # p => go'[q] = go[q],
               UNCHANGED <<databases, dbRows>>, Served' = Served,
               go'[p].pc # "cacheDb",
               go'[p].pc \in {"policies", "pick"} \cup TableLabels
                  => go[p].pc \in {"policies", "pick"} \cup TableLabels /\ DbOf(p)' = DbOf(p)
        PROVE  RowsOfServed'
    BY <1>1, <1>2 DEF Loadable, RowsOfServed
  <1>3. ASSUME UNCHANGED <<columns, tables, metaRows>>, databases \subseteq databases'
        PROVE  TablesHaveRows' /\ MetaCached'
    BY <1>3 DEF Loadable, TablesHaveRows, MetaCached
  <1>4. CASE UNCHANGED vars
    <2>1. Served' = Served
      BY <1>4, SeenOnly DEF seen
    <2>2. RowsOfServed'
      BY <1>4, <2>1 DEF vars, pg, memory, Loadable, RowsOfServed, DbOf
    <2>3. TablesHaveRows' /\ MetaCached'
      BY <1>3, <1>4 DEF vars, pg, memory
    <2> QED BY <2>2, <2>3 DEF Loadable
  <1>5. CASE CrashRestart
    <2>1. /\ \A p \in Procs : go'[p].pc = "idle"
          /\ databases' = dbRows /\ UNCHANGED <<dbRows, metaRows, columns>>
      BY <1>5 DEF CrashRestart, Idle, pg
    <2>2. Served' = dbRows
      BY <2>1 DEF Served, Creating
    <2>3. RowsOfServed'
      BY <2>1, <2>2 DEF RowsOfServed, TableLabels
    <2>4. ASSUME NEW t \in Tables
          PROVE  LET loaded == {c \in Columns : <<t, c>> \in metaRows}
                 IN  tables'[t] = IF loaded = {} THEN None ELSE loaded
      BY <1>5 DEF CrashRestart
    <2>5. TablesHaveRows'
      <3>1. ASSUME NEW t \in Tables, tables'[t] # None
            PROVE  t[1] \in databases
        <4>1. PICK c \in Columns : <<t, c>> \in metaRows
          BY <2>4, <3>1
        <4> QED BY <4>1 DEF Loadable, MetaCached, TablesHaveRows
      <3> QED BY <2>1, <3>1 DEF Loadable, TablesHaveRows, RowsOfServed
    <2>6. MetaCached'
      <3> SUFFICES ASSUME NEW r \in metaRows
                   PROVE  tables'[r[1]] # None /\ r[2] \in tables'[r[1]]
        BY <2>1 DEF MetaCached
      <3> DEFINE loaded == {c \in Columns : <<r[1], c>> \in metaRows}
      <3>1. r[1] \in Tables /\ r[2] \in Columns /\ r = <<r[1], r[2]>>
        BY DEF Base, TypeOK
      <3>2. r[2] \in loaded /\ loaded \in SUBSET Columns
        BY <3>1
      <3>3. loaded # None
        BY <3>2, NoneAssumption
      <3> QED BY <2>4, <3>1, <3>2, <3>3
    <2> QED BY <2>3, <2>5, <2>6 DEF Loadable
  <1>6. ASSUME NEW p \in Procs, Elsewhere(p)
        PROVE  Loadable'
    <2>1. /\ \A q \in Procs : q # p => go'[q] = go[q]
          /\ UNCHANGED <<columns, tables, metaRows>>
      BY <1>6, ElsewhereQuiet
    <2>2. CASE \E r \in Requests : Receive(p, r)
      <3>1. Served' = Served
        BY <1>6, <2>2, ServedStep DEF Receive, CreateSchema, CreateDatabaseSchema, At
      <3>2. UNCHANGED <<databases, dbRows>> /\ go'[p].pc \notin {"cacheDb", "policies", "pick"} \cup TableLabels
        BY <2>2, Arrives DEF pg, memory, TableLabels
      <3> QED BY <1>2, <1>3, <2>1, <3>1, <3>2 DEF Loadable
    <2>3. CASE CheckDatabase(p)
      <3>1. Served' = Served
        BY <1>6, <2>3, ServedStep DEF CheckDatabase, CreateSchema, CreateDatabaseSchema, At
      <3>2. UNCHANGED <<databases, dbRows>> /\ go'[p].pc \in {"policies", "schema", "idle"}
        BY <2>3, Moves DEF Moved, CheckDatabase, pg, memory
      <3>3. go'[p].pc = "policies" => DbOf(p)' \in databases
        <4>1. go[p] \in Running /\ (go'[p].pc = "policies" => DbOf(p)' = DbOf(p))
          BY <2>3, Moves DEF Moved, DbOf
        <4>2. go'[p].pc = IF DbOf(p) \in databases THEN "policies" ELSE "schema"
          BY <2>3, <4>1 DEF CheckDatabase, Goto, Base, TypeOK, Running
        <4> QED BY <4>1, <4>2
      <3>4. RowsOfServed'
        BY <1>1, <2>1, <3>1, <3>2, <3>3 DEF Loadable, RowsOfServed, TableLabels
      <3> QED BY <1>3, <2>1, <3>2, <3>4 DEF Loadable
    <2>4. CASE CreateSchema(p) \/ CreateDatabaseSchema(p)
      <3>1. Served \subseteq Served'
        BY <2>4, ServedStep
      <3>2. /\ UNCHANGED <<databases, dbRows>>
            /\ go'[p].pc \notin {"cacheDb", "policies", "pick"} \cup TableLabels
        BY <2>4, Moves DEF Moved, CreateSchema, CreateDatabaseSchema, pg, memory, TableLabels
      <3>3. RowsOfServed'
        BY <1>1, <2>1, <3>1, <3>2 DEF Loadable, RowsOfServed
      <3> QED BY <1>3, <2>1, <3>2, <3>3 DEF Loadable
    <2>5. CASE InsertDbRow(p)
      <3>1. Served' = Served
        BY <1>6, <2>5, ServedStep DEF InsertDbRow, CreateSchema, CreateDatabaseSchema, At
      <3>2. databases' = databases /\ dbRows' = dbRows \cup {DbOf(p)}
        BY <2>5 DEF InsertDbRow, May, memory
      <3>3. go[p].pc = "dbRow" /\ go'[p].pc = "cacheDb" /\ DbOf(p)' = DbOf(p)
        <4>1. go[p].pc = "dbRow" /\ go[p] \in Running
          BY <2>5, Moves DEF Moved
        <4>2. go'[p].pc = "cacheDb" /\ go'[p].req = go[p].req
          BY <2>5, <4>1 DEF InsertDbRow, Goto, Base, TypeOK, Running
        <4> QED BY <4>1, <4>2 DEF DbOf
      <3>4. DbOf(p) \in Served
        BY <3>3 DEF Served, Creating
      <3>5. RowsOfServed'
        BY <1>1, <2>1, <3>1, <3>2, <3>3, <3>4 DEF Loadable, RowsOfServed, TableLabels
      <3> QED BY <1>3, <2>1, <3>2, <3>5 DEF Loadable
    <2>6. CASE CacheDatabase(p)
      <3>1. Served' = Served
        BY <1>6, <2>6, ServedStep DEF CacheDatabase, CreateSchema, CreateDatabaseSchema, At
      <3>2. databases' = databases \cup {DbOf(p)} /\ dbRows' = dbRows
        BY <2>6 DEF CacheDatabase, pg
      <3>3. /\ go[p].pc = "cacheDb" /\ go'[p].pc \in {"policies", "idle"}
            /\ go'[p].pc = "policies" => DbOf(p)' = DbOf(p)
        BY <2>6, Moves DEF Moved, DbOf
      <3>4. RowsOfServed'
        BY <1>1, <2>1, <3>1, <3>2, <3>3 DEF Loadable, RowsOfServed, TableLabels
      <3> QED BY <1>3, <2>1, <3>2, <3>4 DEF Loadable
    <2>7. CASE \/ PickMeasurement(p) \/ CreateHypertable(p)
               \/ EnsureDatabasePolicies(p) \/ SetChunks(p)
               \/ LookupSchema(p) \/ ListColumns(p) \/ Insert(p)
      <3>1. Served' = Served
        BY <1>6, <2>7, ServedStep
        DEF PickMeasurement, CreateHypertable, LookupSchema, ListColumns, Insert,
            EnsureDatabasePolicies, SetChunks, CreateSchema, CreateDatabaseSchema, At
      <3>2. UNCHANGED <<databases, dbRows>>
        BY <2>7
        DEF PickMeasurement, CreateHypertable, LookupSchema, ListColumns, Insert,
            EnsureDatabasePolicies, SetChunks, pg, memory
      <3>3. /\ go[p].pc \in {"policies", "pick"} \cup TableLabels /\ go'[p].pc # "cacheDb"
            /\ go'[p].pc \in {"policies", "pick"} \cup TableLabels => DbOf(p)' = DbOf(p)
        BY <2>7, Moves DEF Moved, TableLabels, DbOf
      <3> QED BY <1>2, <1>3, <2>1, <3>1, <3>2, <3>3 DEF Loadable
    <2>8. CASE LockCreate(p)
      <3>1. Served' = Served
        BY <1>6, <2>8, ServedStep DEF LockCreate, CreateSchema, CreateDatabaseSchema, At
      <3>2. /\ UNCHANGED <<databases, dbRows>>
            /\ go'[p].pc \in {"createSchema", "policies", "idle"} /\ go[p] \in Running
            /\ go'[p].pc # "idle" => DbOf(p)' = DbOf(p)
        BY <2>8, Moves DEF Moved, LockCreate, pg, DbOf
      <3>3. go'[p].pc = "policies" => DbOf(p) \in databases
        BY <2>8, <3>2 DEF LockCreate, Goto, Base, TypeOK, Running
      <3>4. RowsOfServed'
        BY <1>1, <2>1, <3>1, <3>2, <3>3 DEF Loadable, RowsOfServed, TableLabels
      <3> QED BY <1>3, <2>1, <3>2, <3>4 DEF Loadable
    <2>9. CASE CreateDatabaseRow(p)
      <3>1. Served' = Served
        BY <1>6, <2>9, ServedStep DEF CreateDatabaseRow, CreateSchema, CreateDatabaseSchema, At
      <3>2. databases' = databases \cup {DbOf(p)} /\ dbRows' = dbRows \cup {DbOf(p)}
        BY <2>9 DEF CreateDatabaseRow, May
      <3>3. /\ go[p].pc = "createRow" /\ go'[p].pc \in {"policies", "idle"}
            /\ go'[p].pc = "policies" => DbOf(p)' = DbOf(p)
        BY <2>9, Moves DEF Moved, DbOf
      <3>4. DbOf(p) \in Served
        BY <3>3 DEF Served, Creating
      <3>5. RowsOfServed'
        BY <1>1, <2>1, <3>1, <3>2, <3>3, <3>4 DEF Loadable, RowsOfServed, TableLabels
      <3> QED BY <1>3, <2>1, <3>2, <3>5 DEF Loadable
    <2>10. CASE LockDrop(p) \/ DropDatabaseRow(p)
      BY <2>10, DropSteps, Moves DEF Moved, DropLabels
    <2> QED BY <1>6, <2>2, <2>3, <2>4, <2>5, <2>6, <2>7, <2>8, <2>9, <2>10 DEF Elsewhere
  <1>7. ASSUME NEW p \in Procs,
               \/ LockTable(p) \/ (\E c \in Columns : RegisterColumn(p, c))
               \/ AddColumn(p) \/ CreateTable(p)
        PROVE  Loadable'
    <2>1. UNCHANGED <<databases, dbRows>> /\ Served' = Served
      BY <1>7, ServedStep DEF LockTable, RegisterColumn, AddColumn, CreateTable, pg, memory
    <2>2. /\ \A q \in Procs : q # p => go'[q] = go[q]
          /\ go[p].pc \in TableLabels /\ go'[p].pc # "cacheDb"
          /\ go'[p].pc \in {"policies", "pick"} \cup TableLabels => DbOf(p)' = DbOf(p)
      BY <1>7, Moves DEF Moved, TableLabels, DbOf
    <2>3. RowsOfServed'
      BY <1>2, <2>1, <2>2
    <2>4. DbOf(p) \in databases /\ TableOf(p)[1] = DbOf(p)
      BY <2>2 DEF Loadable, RowsOfServed, TableOf, DbOf
    <2>5. TablesHaveRows'
      <3>1. ASSUME NEW t \in Tables, t # TableOf(p)
            PROVE  tables'[t] = tables[t] /\ columns'[t] = columns[t]
        BY <1>7, <3>1, LockTableStep, RegisterColumnStep, AddColumnStep, CreateTableStep
      <3> QED BY <2>1, <2>4, <3>1 DEF Loadable, TablesHaveRows
    <2>6. MetaCached'
      <3>1. CASE LockTable(p) \/ AddColumn(p) \/ CreateTable(p)
        <4>1. metaRows' = metaRows /\ \A t \in Tables : tables[t] # None => tables'[t] = tables[t]
          BY <3>1, LockTableStep, AddColumnStep, CreateTableStep
        <4> QED BY <1>m, <4>1 DEF Loadable, MetaCached
      <3>2. ASSUME NEW c \in Columns, RegisterColumn(p, c)
            PROVE  MetaCached'
        <4> DEFINE t == TableOf(p)
        <4>1. /\ go[p].pc = "column" /\ t \in Tables /\ tables'[t] = tables[t] \cup {c}
              /\ \A u \in Tables : u # t => tables'[u] = tables[u]
          BY <3>2, RegisterColumnStep
        <4>2. metaRows' \subseteq metaRows \cup {<<t, c>>}
          BY <3>2 DEF RegisterColumn, May
        <4>3. tables[t] \cup {c} \in SUBSET Columns
          BY <4>1, InTable
        <4>4. tables'[t] # None /\ c \in tables'[t]
          BY <4>1, <4>3, NoneAssumption
        <4> HIDE DEF t
        <4>5. ASSUME NEW r \in metaRows
              PROVE  tables'[r[1]] # None /\ r[2] \in tables'[r[1]]
          BY <1>m, <4>1, <4>4 DEF Loadable, MetaCached
        <4> QED BY <4>2, <4>4, <4>5 DEF MetaCached
      <3> QED BY <1>7, <3>1, <3>2
    <2> QED BY <2>3, <2>5, <2>6 DEF Loadable
  <1>8. ASSUME NEW p \in Procs,
               \/ DropDatabaseSchema(p) \/ DropDatabaseMeta(p)
               \/ DropMeasurementTable(p) \/ DropMeasurementMeta(p)
        PROVE  FALSE
    BY <1>8, DropSteps, Moves DEF Moved, DropLabels
  <1> QED BY <1>4, <1>5, <1>6, <1>7, <1>8, Cases

LEMMA LoadableIsServed == Loadable => TablesServed
  BY DEF Loadable, RowsOfServed, TablesHaveRows, TablesServed

\* A restart finds in Postgres what the process knew, but for databases without a column.
LEMMA RestartStep ==
    ASSUME Ground, Recorded, Loadable, CrashRestart
    PROVE  Catalog!Restart
  <1> USE DEF Ground
  <1>1. Served' = dbRows
    BY DEF CrashRestart, Served, Idle, Creating
  <1>2. ASSUME NEW t \in Tables
        PROVE  Schema'[t] = Schema[t]
    <2> DEFINE loaded == {c \in Columns : <<t, c>> \in metaRows}
    <2>1. tables'[t] = IF loaded = {} THEN None ELSE loaded
      BY DEF CrashRestart
    <2>2. Schema'[t] = loaded
      <3>1. loaded \in SUBSET Columns
        OBVIOUS
      <3>2. loaded # None
        BY <3>1, NoneAssumption
      <3> QED BY <2>1, <3>2 DEF Schema
    <2>3. Schema[t] \subseteq loaded
      BY DEF Schema, Base, TypeOK, Recorded, CachedRecorded
    <2>4. loaded \subseteq Schema[t]
      BY DEF Schema, Loadable, MetaCached
    <2> QED BY <2>2, <2>3, <2>4
  <1>3. Schema' = Schema
    BY <1>2 DEF Schema
  <1>4. \A t \in Tables : Schema[t] # {} => t[1] \in dbRows
    BY DEF Schema, Loadable, TablesHaveRows, RowsOfServed
  <1>5. stored' = stored /\ dbRows \subseteq Served
    BY DEF CrashRestart, pg, Loadable, RowsOfServed
  <1>6. Catalog!Tables = Tables
    BY DEF Catalog!Tables, Tables
  <1> QED BY <1>1, <1>3, <1>4, <1>5, <1>6 DEF Catalog!Restart

NothingDropped ==
    /\ Ops \cap {"dropDb", "dropMeasurement"} = {}
    /\ Faults \cap {"metaFails", "dbRowFails"} = {}

LEMMA LoadableAlways ==
    ASSUME NothingDropped
    PROVE  Spec => [](Ground /\ Recorded /\ Known /\ Loadable)
  <1>1. Init => Recorded /\ Known /\ Loadable
    <2> SUFFICES ASSUME Init PROVE Recorded /\ Known /\ Loadable
      OBVIOUS
    <2>1. Recorded /\ Known
      BY KnownInit DEF Init, Recorded, ColumnsRecorded, CachedRecorded, AddedRecorded, Idle
    <2>2. Loadable
      BY DEF Init, Loadable, RowsOfServed, TablesHaveRows, MetaCached, Idle, TableLabels
    <2> QED BY <2>1, <2>2
  <1>2. Ground /\ Recorded /\ [Next]_vars => Recorded'
    BY RecordedStep DEF NothingDropped
  <1>3. Ground /\ Recorded /\ Known /\ [Next]_vars => Known'
    BY KnownStep DEF Recorded
  <1>4. Ground /\ Loadable /\ [Next]_vars => Loadable'
    BY LoadableStep DEF NothingDropped
  <1> QED BY <1>1, <1>2, <1>3, <1>4, GroundAlways, PTL DEF Spec

\* Where nothing is dropped and the metadata can be written, the store is the catalog through
\* restarts as well, wherever the process dies and whatever else fails: the next process serves
\* the databases that have tables and knows every column the last one knew.
THEOREM CatalogThroughRestarts ==
    ASSUME NothingDropped
    PROVE  Spec => ImplementsCatalog
  <1> DEFINE Inv == Ground /\ Recorded /\ Known /\ Loadable
  <1>1. Inv /\ [Next]_vars => [Catalog!Next]_<<Served, Schema, stored>>
    <2> SUFFICES ASSUME Inv, [Next]_vars
                 PROVE  Catalog!Next \/ UNCHANGED seen
      BY DEF seen
    <2>1. CASE UNCHANGED vars
      BY <2>1, SeenOnly
    <2>2. CASE CrashRestart
      BY <2>2, RestartStep DEF Catalog!Next
    <2> QED BY <2>1, <2>2, Cases, CatalogStep, LoadableIsServed DEF NothingDropped
  <1> QED BY <1>1, LoadableAlways, CatalogInit, PTL DEF Spec, ImplementsCatalog, Catalog!Spec

\* No point is orphaned, in either case: its database is served and each of its columns is one
\* the proxy knows, so that a query for it finds both.
NoOrphans == \A r \in stored : r.table[1] \in Served /\ r.cols \subseteq Schema[r.table]

THEOREM PointsCanBeAskedFor ==
    ASSUME Alive \/ NothingDropped
    PROVE  Spec => []NoOrphans
  <1>1. Ground /\ Known /\ TablesServed => NoOrphans
    <2> SUFFICES ASSUME Ground, Known, TablesServed, NEW r \in stored
                 PROVE  r.table[1] \in Served /\ r.cols \subseteq Schema[r.table]
      BY DEF NoOrphans
    <2>1. r.table \in Tables
      BY DEF Ground, Base, TypeOK
    <2>2. columns[r.table] # None /\ r.cols \subseteq columns[r.table]
      BY DEF Known, RowsFit
    <2>3. columns[r.table] \subseteq Schema[r.table]
      BY <2>1, <2>2 DEF Known, ColumnsKnown, Schema
    <2> QED BY <2>1, <2>2, <2>3 DEF TablesServed
  <1>2. CASE Alive
    <2>1. Ground /\ Known /\ Housed => NoOrphans
      BY <1>1, HousedIsServed
    <2> QED BY <1>2, <2>1, HousedAlways, PTL
  <1>3. CASE NothingDropped
    <2>1. Ground /\ Recorded /\ Known /\ Loadable => NoOrphans
      BY <1>1, LoadableIsServed
    <2> QED BY <1>3, <2>1, LoadableAlways, PTL
  <1> QED BY <1>2, <1>3

=============================================================================
