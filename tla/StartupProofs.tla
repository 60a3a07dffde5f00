---------------------------- MODULE StartupProofs ----------------------------
(***************************************************************************)
(* Proofs about Startup, for any databases, measurements and columns, any  *)
(* number of starts and writes, and faults at every step but those a       *)
(* theorem names: KeyIsReplaced, InsertsWork, PolicyKeyIsReplaced,         *)
(* MigrationIsWhole, ColumnsAreAdded.  PublicIsApart is about the names of *)
(* databases.                                                              *)
(***************************************************************************)
EXTENDS Startup, TLAPS

\* The statements that replace the key of _influx_meta are neither refused nor cut short (no
\* later start repeats them), and the second loadSchemas works (its error leaves empty caches).
KeyIsReplaced ==
    /\ MayFail \cap {<<"meta", "dropKey">>, <<"meta", "addKey">>, <<"main", "reload">>} = {}
    /\ MayDie \cap {<<"meta", "dropKey">>, <<"meta", "addKey">>} = {}

\* The INSERTs of databases and columns whose errors are ignored work: what they failed to
\* store is cached all the same.
InsertsWork ==
    MayFail \cap {<<"main", "ensureRow">>, <<"write", "dbRow">>, <<"write", "record">>} = {}

\* Before the caches are loaded, and between the UPDATE of _influx_meta and the second load.
Unloaded == {Down, <<"meta", "addDb">>, <<"meta", "dropKey">>, <<"meta", "addKey">>,
             <<"meta", "load">>, <<"main", "reload">>}

\* The key of _influx_meta at each step of main, of this start or a later one.
KeyInv ==
    /\ layout["meta"].named
    /\ step \notin {Down, <<"meta", "addDb">>} => layout["meta"].dbName
    /\ step = <<"meta", "addKey">> => layout["meta"].key = "none"
    /\ layout["meta"].dbName /\ step \notin {<<"meta", "dropKey">>, <<"meta", "addKey">>}
          => layout["meta"].key = "new"
Layouts == [dbName : BOOLEAN, key : {"old", "none", "new"}, named : BOOLEAN]
LayoutOK == layout \in [meta : Layouts, policy : Layouts]

\* Once they are loaded, the caches are what the next start would load.
LoadedInv == step \notin Unloaded => cache = Loaded /\ databases \subseteq dbRows

Inv == LayoutOK /\ KeyInv /\ LoadedInv

\* No client writes to a database called like the public schema.
PublicIsApart == Public \notin Databases

\* What the process holds in its memory.
Writes == [key : Databases \X Measurements, columns : Shapes,
           was : (SUBSET Columns) \cup {NoTable}, adding : SUBSET Columns]
MemoryOK ==
    /\ cache \in [Keys -> (SUBSET Columns) \cup {NoTable}]
    /\ step \in WriteSteps => write \in Writes

\* The columns of a key are columns, and so not NoTable.
LEMMA SomeColumns ==
    ASSUME NEW k
    PROVE  ColumnsOf(k) \in SUBSET Columns /\ ColumnsOf(k) # NoTable
  BY StartupAssumption DEF ColumnsOf

\* The names of schemas, and the keys.
LEMMA SchemaParts ==
    /\ Default \in Databases /\ Unassigned \notin Databases /\ Unassigned # Public
    /\ Databases \subseteq Schemas /\ Public \in Schemas
    /\ \A k \in Databases \X Measurements : k \in Keys /\ k \in Schemas \X Measurements
    /\ \A m \in Measurements : <<Unassigned, m>> \in Keys
  BY StartupAssumption DEF Schemas, Keys

\* Only the column to be added changes in a write.
LEMMA WriteUpdated ==
    ASSUME NEW w \in Writes, NEW cs \in SUBSET Columns
    PROVE  /\ [w EXCEPT !.adding = cs] \in Writes
           /\ [w EXCEPT !.adding = cs].key = w.key
           /\ [w EXCEPT !.adding = cs].columns = w.columns
           /\ [w EXCEPT !.adding = cs].was = w.was
           /\ [w EXCEPT !.adding = cs].adding = cs
  BY DEF Writes

\* No step of main is a step of a write.
LEMMA StepNames ==
    /\ \A s \in WriteSteps : s[1] = "write"
    /\ Up \notin WriteSteps /\ Down \notin WriteSteps
    /\ Up \notin Unloaded /\ WriteSteps \cap Unloaded = {}
  BY DEF WriteSteps, Up, Down, Unloaded

\* The steps a write takes.
LEMMA AfterColumnsStep ==
    ASSUME NEW known
    PROVE  AfterColumns(known) \in {<<"write", "create">>, <<"write", "record">>}
  BY DEF AfterColumns

\* A step of main that leaves _influx_meta and the caches alone.
LEMMA Unaffected ==
    ASSUME Inv, LayoutOK', layout'["meta"] = layout["meta"],
           UNCHANGED <<metaRows, dbRows, databases, cache>>,
           step \notin Unloaded, step' \notin Unloaded
    PROVE  Inv'
  BY DEF Inv, KeyInv, LoadedInv, Loaded, ColumnsOf, Unloaded, Down

\* The process ends, for whatever reason, and not while the key is replaced.
LEMMA Ends ==
    ASSUME Inv, step' = Down, UNCHANGED layout,
           step \notin {<<"meta", "dropKey">>, <<"meta", "addKey">>}
    PROVE  Inv'
  BY DEF Inv, LayoutOK, KeyInv, LoadedInv, Unloaded, Down

\* One field of the layout of a catalog changes.
LEMMA LayoutKeeps ==
    ASSUME LayoutOK, NEW c \in Catalogs,
           \/ layout' = layout
           \/ layout' = [layout EXCEPT ![c].dbName = TRUE]
           \/ layout' = [layout EXCEPT ![c].named = TRUE]
           \/ \E key \in {"none", "new"} : layout' = [layout EXCEPT ![c].key = key]
    PROVE  LayoutOK' /\ \A d \in Catalogs : d # c => layout'[d] = layout[d]
  <1>1. /\ layout["meta"] \in Layouts /\ layout["policy"] \in Layouts
        /\ layout = [meta |-> layout["meta"], policy |-> layout["policy"]]
    BY DEF LayoutOK
  <1>2. \A l \in Layouts : /\ [l EXCEPT !.dbName = TRUE] \in Layouts
                           /\ [l EXCEPT !.named = TRUE] \in Layouts
                           /\ \A key \in {"none", "new"} : [l EXCEPT !.key = key] \in Layouts
    BY DEF Layouts
  <1>3. \/ layout' = layout
        \/ \E l \in Layouts : layout' = [layout EXCEPT ![c] = l]
    BY <1>1, <1>2 DEF Catalogs
  <1>4. ASSUME NEW l \in Layouts, layout' = [layout EXCEPT ![c] = l]
        PROVE  LayoutOK' /\ \A d \in Catalogs : d # c => layout'[d] = layout[d]
    BY <1>4 DEF LayoutOK, Catalogs
  <1> QED BY <1>3, <1>4 DEF LayoutOK

\* The migration of _influx_meta ends with the new key.
LEMMA MetaMigrates ==
    ASSUME KeyIsReplaced, Inv, AddDbName("meta") \/ DropKey("meta") \/ AddKey("meta")
    PROVE  Inv'
  <1> DEFINE L == layout["meta"]
  <1>1. "meta" \in Catalogs /\ LayoutOK
    BY DEF Catalogs, Inv
  <1>2. LayoutOK'
    BY <1>1, LayoutKeeps DEF AddDbName, DropKey, AddKey, Exits
  <1>3. L \in Layouts
    BY <1>1 DEF LayoutOK
  <1>4. CASE AddDbName("meta")
    <2>1. CASE step' = Down /\ layout' = layout
      BY <1>4, <2>1, Ends DEF AddDbName
    <2>2. CASE /\ layout' = [layout EXCEPT !["meta"].dbName = TRUE]
               /\ step' = IF ~L.dbName THEN <<"meta", "dropKey">> ELSE <<"meta", "load">>
      <3>1. layout'["meta"] = [L EXCEPT !.dbName = TRUE]
        BY <1>1, <2>2 DEF LayoutOK
      <3>2. /\ layout'["meta"].dbName /\ layout'["meta"].key = L.key
            /\ layout'["meta"].named = L.named
        BY <1>3, <3>1 DEF Layouts
      <3>3. step = <<"meta", "addDb">>
        BY <1>4 DEF AddDbName
      <3>4. L.named /\ (L.dbName => L.key = "new")
        BY <3>3 DEF Inv, KeyInv
      <3>5. \/ step' = <<"meta", "dropKey">>
            \/ step' = <<"meta", "load">> /\ L.key = "new"
        BY <2>2, <3>4, Zenon
      <3> QED BY <1>2, <3>2, <3>4, <3>5 DEF Inv, KeyInv, LoadedInv, Unloaded, Down
    <2> QED BY <1>4, <2>1, <2>2 DEF AddDbName, Exits
  <1>5. CASE DropKey("meta")
    <2>1. step = <<"meta", "dropKey">> /\ step' = <<"meta", "addKey">>
      BY <1>5 DEF DropKey
    <2>2. layout' = [layout EXCEPT !["meta"].key = "none"]
      BY <1>5, <2>1 DEF DropKey, Fails, KeyIsReplaced
    <2>3. layout'["meta"] = [L EXCEPT !.key = "none"]
      BY <1>1, <2>2 DEF LayoutOK
    <2>4. /\ layout'["meta"].key = "none" /\ layout'["meta"].dbName = L.dbName
          /\ layout'["meta"].named = L.named
      BY <1>3, <2>3 DEF Layouts
    <2>5. L.named /\ L.dbName
      BY <2>1 DEF Inv, KeyInv, Down
    <2> QED BY <1>2, <2>1, <2>4, <2>5 DEF Inv, KeyInv, LoadedInv, Unloaded, Down
  <1>6. CASE AddKey("meta")
    <2>1. step = <<"meta", "addKey">> /\ step' = <<"meta", "load">>
      BY <1>6 DEF AddKey
    <2>2. L.named /\ L.dbName /\ L.key = "none"
      BY <2>1 DEF Inv, KeyInv, Down
    <2>3. layout' = [layout EXCEPT !["meta"].key = "new"]
      BY <1>6, <2>1, <2>2 DEF AddKey, Fails, KeyIsReplaced
    <2>4. layout'["meta"] = [L EXCEPT !.key = "new"]
      BY <1>1, <2>3 DEF LayoutOK
    <2>5. /\ layout'["meta"].key = "new" /\ layout'["meta"].dbName = L.dbName
          /\ layout'["meta"].named = L.named
      BY <1>3, <2>4 DEF Layouts
    <2> QED BY <1>2, <2>1, <2>2, <2>5 DEF Inv, KeyInv, LoadedInv, Unloaded, Down
  <1> QED BY <1>4, <1>5, <1>6

\* The migration of _retention_policy, whatever becomes of it.
LEMMA PolicyMigrates ==
    ASSUME Inv,
           AddDbName("policy") \/ DropKey("policy") \/ AddKey("policy") \/ RenameColumn
    PROVE  Inv'
  <1>1. "policy" \in Catalogs /\ "meta" \in Catalogs /\ LayoutOK
    BY DEF Catalogs, Inv
  <1>2. LayoutOK' /\ layout'["meta"] = layout["meta"]
    BY <1>1, LayoutKeeps DEF AddDbName, DropKey, AddKey, RenameColumn, Exits
  <1>3. step \notin Unloaded
    BY DEF AddDbName, DropKey, AddKey, RenameColumn, Unloaded, Down
  <1>4. \/ step' = Down /\ layout' = layout
        \/ step' \notin Unloaded /\ UNCHANGED <<metaRows, dbRows, databases, cache>>
    BY DEF AddDbName, DropKey, AddKey, RenameColumn, Exits, memory, Unloaded, Down
  <1>5. step \notin {<<"meta", "dropKey">>, <<"meta", "addKey">>}
    BY <1>3 DEF Unloaded
  <1> QED BY <1>2, <1>3, <1>4, <1>5, Ends, Unaffected

\* The caches are loaded, and EnsureDatabase adds the default database to them.
LEMMA LoadingKeeps ==
    ASSUME KeyIsReplaced, InsertsWork, Inv,
           Start \/ LoadSchemas \/ EnsureDefault \/ RegisterDefault \/ Reload
    PROVE  Inv'
  <1>1. step \notin {<<"meta", "dropKey">>, <<"meta", "addKey">>} /\ layout' = layout
    BY DEF Start, LoadSchemas, EnsureDefault, RegisterDefault, RegisterDatabase, Reload, postgres,
           Down
  <1>2. CASE step' = Down
    BY <1>1, <1>2, Ends
  <1>3. CASE Start
    BY <1>1, <1>3 DEF Start, Inv, LayoutOK, KeyInv, LoadedInv, Unloaded, Down
  <1>4. CASE LoadSchemas /\ step' # Down
    <2>1. /\ step = <<"meta", "load">> /\ step' = <<"main", "ensureDb">>
          /\ cache' = Loaded /\ databases' = dbRows /\ UNCHANGED <<metaRows, dbRows>>
      BY <1>4 DEF LoadSchemas, Exits, postgres
    <2>2. cache' = Loaded' /\ databases' \subseteq dbRows'
      BY <2>1 DEF Loaded, ColumnsOf
    <2> QED BY <1>1, <2>1, <2>2 DEF Inv, LayoutOK, KeyInv, LoadedInv, Down
  <1>5. CASE EnsureDefault /\ step' # Down
    <2>1. /\ step = <<"main", "ensureDb">>
          /\ step' \in {<<"main", "list">>, <<"main", "ensureRow">>}
          /\ UNCHANGED <<metaRows, cache, dbRows, databases>>
      BY <1>5 DEF EnsureDefault, Exits, postgres, memory
    <2>2. LayoutOK'
      BY <1>1 DEF Inv, LayoutOK
    <2>3. step \notin Unloaded /\ step' \notin Unloaded
      BY <2>1 DEF Unloaded, Down
    <2> QED BY <1>1, <2>1, <2>2, <2>3, Unaffected
  <1>7. CASE RegisterDefault
    <2>1. /\ step = <<"main", "ensureRow">> /\ step' = <<"main", "list">>
          /\ dbRows' = dbRows \cup {Default} /\ databases' = databases \cup {Default}
          /\ UNCHANGED <<metaRows, cache>>
      BY <1>7 DEF RegisterDefault, RegisterDatabase, Fails, InsertsWork
    <2>2. cache = Loaded /\ databases \subseteq dbRows
      BY <2>1 DEF Inv, LoadedInv, Unloaded, Down
    <2>3. cache' = Loaded' /\ databases' \subseteq dbRows'
      BY <2>1, <2>2 DEF Loaded, ColumnsOf
    <2> QED BY <1>1, <2>1, <2>3 DEF Inv, LayoutOK, KeyInv, LoadedInv, Down
  <1>6. CASE Reload
    <2>1. /\ step = <<"main", "reload">> /\ step' = <<"policy", "rename">>
          /\ cache' = Loaded /\ databases' = dbRows /\ UNCHANGED <<metaRows, dbRows>>
      BY <1>6 DEF Reload, Fails, KeyIsReplaced, postgres
    <2>2. cache' = Loaded' /\ databases' \subseteq dbRows'
      BY <2>1 DEF Loaded, ColumnsOf
    <2> QED BY <1>1, <2>1, <2>2 DEF Inv, LayoutOK, KeyInv, LoadedInv, Down
  <1> QED BY <1>2, <1>3, <1>4, <1>5, <1>6, <1>7

\* The tables are moved and the policies loaded: the caches stay; the metadata of the moved
\* tables gets its database, and then the caches are loaded again.
LEMMA RestOfMainKeeps ==
    ASSUME Inv,
           \/ ListPublic \/ (\E m \in Measurements : MoveTable(m)) \/ AssignMetadata
           \/ LoadPolicies \/ EnsureDefaultPolicies
    PROVE  Inv'
  <1>1. /\ step \notin Unloaded /\ layout' = layout
        /\ step \notin {<<"meta", "dropKey">>, <<"meta", "addKey">>}
    <2>1. /\ step \in {<<"main", "list">>, <<"main", "move">>, <<"main", "assign">>,
                       <<"policy", "load">>, <<"main", "ensurePolicies">>}
          /\ layout' = layout
      BY DEF ListPublic, MoveTable, AssignMetadata, LoadPolicies, EnsureDefaultPolicies,
             EnsurePolicies, postgres
    <2> QED BY <2>1 DEF Unloaded, Down
  <1>2. CASE AssignMetadata
    BY <1>1, <1>2 DEF AssignMetadata, Inv, LayoutOK, KeyInv, LoadedInv, Unloaded, Down
  <1>3. CASE step' = Down
    BY <1>1, <1>3, Ends
  <1>4. CASE ~AssignMetadata /\ step' # Down
    <2>1. UNCHANGED <<metaRows, dbRows, databases, cache>> /\ step' \notin Unloaded
      <3>1. CASE ListPublic
        <4>1. step' \in {<<"policy", "rename">>, <<"main", "move">>}
          BY <3>1 DEF ListPublic
        <4> QED BY <3>1, <4>1 DEF ListPublic, postgres, Unloaded, Down
      <3>2. ASSUME NEW m \in Measurements, MoveTable(m)
            PROVE  <2>1
        <4>1. step' \in {<<"main", "assign">>, <<"main", "move">>}
          BY <3>2 DEF MoveTable
        <4> QED BY <3>2, <4>1 DEF MoveTable, Unloaded, Down
      <3>3. CASE LoadPolicies
        BY <1>4, <3>3 DEF LoadPolicies, Exits, postgres, memory, Unloaded, Down
      <3>4. CASE EnsureDefaultPolicies
        BY <3>4 DEF EnsureDefaultPolicies, EnsurePolicies, Unloaded, Down, Up
      <3> QED BY <1>4, <3>1, <3>2, <3>3, <3>4
    <2>2. LayoutOK'
      BY <1>1 DEF Inv, LayoutOK
    <2> QED BY <1>1, <2>1, <2>2, Unaffected
  <1> QED BY <1>2, <1>3, <1>4

\* A column that is recorded with the new key is one the next start loads.
LEMMA RecordKeeps ==
    ASSUME KeyIsReplaced, InsertsWork, Inv, MemoryOK, NEW c \in Columns, RecordColumn(c)
    PROVE  /\ cache' = Loaded'
           /\ metaRows' = metaRows \cup {<<write.key[1], write.key[2], c>>}
           /\ \A j \in Keys : cache'[j] = IF j = write.key THEN Known(j) \cup {c} ELSE cache[j]
           /\ cache'[write.key] = Known(write.key) \cup {c}
           /\ cache'[write.key] \in SUBSET Columns
  <1> DEFINE k == write.key
  <1>1. step = <<"write", "record">> /\ step \in WriteSteps /\ step \notin Unloaded
    BY StepNames DEF RecordColumn, WriteSteps
  <1>2. k \in Databases \X Measurements /\ k \in Keys
    BY <1>1 DEF MemoryOK, Writes, Keys
  <1>3. layout["meta"].key = "new"
    BY <1>1 DEF Inv, KeyInv, Down
  <1>4. metaRows' = metaRows \cup {<<k[1], k[2], c>>}
    BY <1>1, <1>3 DEF RecordColumn, Fails, InsertsWork, Recorded
  <1>5. cache = Loaded /\ DOMAIN cache = Keys
    BY <1>1 DEF Inv, LoadedInv, Loaded
  <1>6. cache' = [cache EXCEPT ![k] = Known(k) \cup {c}]
    BY DEF RecordColumn
  <1>7. cache[k] = IF ColumnsOf(k) = {} THEN NoTable ELSE ColumnsOf(k)
    BY <1>2, <1>5 DEF Loaded
  <1>8. Known(k) = ColumnsOf(k)
    BY <1>7, SomeColumns DEF Known
  <1>9. \A j \in Keys : ColumnsOf(j)' = IF j = k THEN ColumnsOf(k) \cup {c} ELSE ColumnsOf(j)
    <2>1. \A j \in Keys, d \in Columns :
             <<j[1], j[2], d>> \in metaRows'
                <=> <<j[1], j[2], d>> \in metaRows \/ (j = k /\ d = c)
      BY <1>2, <1>4 DEF Keys
    <2> QED BY <2>1 DEF ColumnsOf
  <1>10. cache' = Loaded'
    <2>1. ColumnsOf(k) \cup {c} # {}
      OBVIOUS
    <2> QED BY <1>2, <1>5, <1>6, <1>8, <1>9, <2>1 DEF Loaded
  <1>11. \A j \in Keys : cache'[j] = IF j = k THEN Known(j) \cup {c} ELSE cache[j]
    BY <1>2, <1>5, <1>6
  <1>12. cache'[k] = Known(k) \cup {c} /\ Known(k) \in SUBSET Columns
    BY <1>2, <1>8, <1>11, SomeColumns
  <1> QED BY <1>4, <1>10, <1>11, <1>12

\* A write leaves what the next start would load as it caches it.
LEMMA WriteKeeps ==
    ASSUME KeyIsReplaced, InsertsWork, Inv, MemoryOK, WriteStep
    PROVE  Inv'
  <1>1. ASSUME NEW db \in Databases, NEW m \in Measurements, NEW columns \in Shapes,
               BeginWrite(db, m, columns)
        PROVE  Inv'
    <2>1. /\ step = Up /\ step' \in {<<"write", "policies">>, <<"write", "schema">>}
          /\ UNCHANGED <<layout, metaRows, dbRows, databases, cache>>
      BY <1>1 DEF BeginWrite, postgres
    <2> QED BY <2>1, StepNames, Unaffected DEF Inv, LayoutOK, WriteSteps
  <1>2. CASE CreateSchema \/ EnsureWritePolicies \/ AddColumn \/ CreateTable \/ InsertBatch
    <2>1. step \in WriteSteps /\ UNCHANGED <<layout, metaRows, dbRows, databases, cache>>
      BY <1>2 DEF CreateSchema, EnsureWritePolicies, EnsurePolicies, AddColumn, CreateTable,
                  InsertBatch, postgres, WriteSteps
    <2>2. step' \in WriteSteps \cup {Up}
      BY <1>2, AfterColumnsStep DEF CreateSchema, EnsureWritePolicies, AddColumn, CreateTable,
                  InsertBatch, Answered, WriteSteps
    <2> QED BY <2>1, <2>2, StepNames, Unaffected DEF Inv, LayoutOK
  <1>3. CASE InsertDatabase
    <2>1. /\ step = <<"write", "dbRow">> /\ step' = <<"write", "policies">>
          /\ dbRows' = dbRows \cup {write.key[1]} /\ databases' = databases \cup {write.key[1]}
          /\ UNCHANGED <<layout, metaRows, cache>>
      BY <1>3 DEF InsertDatabase, RegisterDatabase, Fails, InsertsWork
    <2>2. cache = Loaded /\ databases \subseteq dbRows /\ layout["meta"].key = "new"
      BY <2>1 DEF Inv, LoadedInv, KeyInv, Unloaded, Down
    <2>3. cache' = Loaded' /\ databases' \subseteq dbRows'
      BY <2>1, <2>2 DEF Loaded, ColumnsOf
    <2> QED BY <2>1, <2>2, <2>3 DEF Inv, LayoutOK, KeyInv, LoadedInv, Down
  <1>4. ASSUME NEW c \in Columns, RecordColumn(c)
        PROVE  Inv'
    <2>1. /\ step = <<"write", "record">> /\ step' \in WriteSteps
          /\ UNCHANGED <<layout, dbRows, databases>>
      BY <1>4, AfterColumnsStep DEF RecordColumn, WriteSteps
    <2>2. databases \subseteq dbRows /\ layout["meta"].key = "new"
      BY <2>1 DEF Inv, LoadedInv, KeyInv, Unloaded, Down
    <2>3. cache' = Loaded'
      BY <1>4, RecordKeeps
    <2>4. step' \notin {Down, <<"meta", "addDb">>, <<"meta", "dropKey">>, <<"meta", "addKey">>}
      BY <2>1 DEF WriteSteps, Down
    <2>5. layout["meta"].named /\ layout["meta"].dbName
      BY <2>1 DEF Inv, KeyInv, Down
    <2> QED BY <2>1, <2>2, <2>3, <2>4, <2>5 DEF Inv, LayoutOK, KeyInv, LoadedInv
  <1> QED BY <1>1, <1>2, <1>3, <1>4 DEF WriteStep

\* A step of main, and the end of the process, are not followed by a step of a write.
LEMMA NotWriting ==
    ASSUME MainStep \/ Die
    PROVE  step' \notin WriteSteps
  <1>1. CASE Die \/ Start \/ RenameColumn \/ LoadSchemas \/ EnsureDefault \/ RegisterDefault
    BY <1>1, StepNames DEF Die, Start, RenameColumn, LoadSchemas, EnsureDefault,
              RegisterDefault, Exits, Down
  <1>2. ASSUME NEW c \in Catalogs, AddDbName(c) \/ DropKey(c) \/ AddKey(c)
        PROVE  step' \notin WriteSteps
    BY <1>2, StepNames DEF AddDbName, DropKey, AddKey, Exits, Catalogs
  <1>3. ASSUME NEW m \in Measurements, MoveTable(m)
        PROVE  step' \notin WriteSteps
    BY <1>3, StepNames DEF MoveTable
  <1>4. CASE ListPublic \/ AssignMetadata \/ Reload \/ LoadPolicies \/ EnsureDefaultPolicies
    BY <1>4, StepNames DEF ListPublic, AssignMetadata, Reload, LoadPolicies,
              EnsureDefaultPolicies, Exits
  <1> QED BY <1>1, <1>2, <1>3, <1>4 DEF MainStep

\* What is cached of a key, and of a write what is known of it, keep their types.
LEMMA MemoryStep ==
    ASSUME MemoryOK, [Next]_vars
    PROVE  MemoryOK'
  <1>0. /\ Loaded \in [Keys -> (SUBSET Columns) \cup {NoTable}]
        /\ NothingCached \in [Keys -> (SUBSET Columns) \cup {NoTable}]
    BY SomeColumns DEF Loaded, NothingCached
  <1>1. CASE UNCHANGED vars
    BY <1>1 DEF vars, memory, MemoryOK
  <1>2. CASE MainStep \/ Die
    <2>1. cache' \in {cache, Loaded, NothingCached}
      BY <1>2 DEF MainStep, Die, Start, AddDbName, DropKey, AddKey, RenameColumn, LoadSchemas,
                  EnsureDefault, RegisterDefault, RegisterDatabase, ListPublic, MoveTable,
                  AssignMetadata, Reload, LoadPolicies, EnsureDefaultPolicies, EnsurePolicies,
                  Exits, Forgotten, memory
    <2>2. step' \notin WriteSteps
      BY <1>2, NotWriting
    <2> QED BY <1>0, <2>1, <2>2 DEF MemoryOK
  <1>3. ASSUME NEW db \in Databases, NEW m \in Measurements, NEW columns \in Shapes,
               BeginWrite(db, m, columns)
        PROVE  MemoryOK'
    <2>1. <<db, m>> \in Keys
      BY DEF Keys
    <2>2. write' \in Writes
      BY <1>3, <2>1 DEF BeginWrite, Opened, Writes, MemoryOK
    <2> QED BY <1>3, <2>2 DEF BeginWrite, MemoryOK
  <1>4. CASE CreateSchema \/ InsertDatabase \/ EnsureWritePolicies \/ CreateTable \/ InsertBatch
    <2>1. step \in WriteSteps /\ cache' = cache
      BY <1>4 DEF CreateSchema, InsertDatabase, RegisterDatabase, EnsureWritePolicies,
                  EnsurePolicies, CreateTable, InsertBatch, WriteSteps
    <2>2. write' = write \/ step' = Up
      BY <1>4 DEF CreateSchema, InsertDatabase, RegisterDatabase, EnsureWritePolicies,
                  CreateTable, InsertBatch, Answered
    <2> QED BY <2>1, <2>2, StepNames DEF MemoryOK
  <1>5. ASSUME NEW c \in Columns, RecordColumn(c)
        PROVE  MemoryOK'
    <2>1. step \in WriteSteps /\ write \in Writes
      BY <1>5 DEF RecordColumn, WriteSteps, MemoryOK
    <2>2. write' \in Writes
      BY <1>5, <2>1, WriteUpdated DEF RecordColumn
    <2>3. Known(write.key) \cup {c} \in SUBSET Columns
      BY <2>1 DEF Known, Writes, Keys, MemoryOK
    <2>4. cache' \in [Keys -> (SUBSET Columns) \cup {NoTable}]
      BY <1>5, <2>3 DEF RecordColumn, MemoryOK
    <2> QED BY <2>2, <2>4 DEF MemoryOK
  <1>6. CASE AddColumn
    <2>1. step \in WriteSteps /\ write \in Writes
      BY <1>6 DEF AddColumn, WriteSteps, MemoryOK
    <2>2. write' \in Writes /\ cache' = cache
      BY <1>6, <2>1, WriteUpdated DEF AddColumn
    <2> QED BY <2>2 DEF MemoryOK
  <1> QED BY <1>1, <1>2, <1>3, <1>4, <1>5, <1>6 DEF Next, WriteStep

LEMMA InvStep ==
    ASSUME KeyIsReplaced, InsertsWork, Inv, MemoryOK, [Next]_vars
    PROVE  Inv'
  <1>1. CASE UNCHANGED vars
    BY <1>1 DEF vars, postgres, memory, Inv, LayoutOK, KeyInv, LoadedInv, Loaded, ColumnsOf
  <1>2. CASE MainStep
    BY <1>2, MetaMigrates, PolicyMigrates, LoadingKeeps, RestOfMainKeeps
    DEF MainStep, Catalogs
  <1>3. CASE WriteStep
    BY <1>3, WriteKeeps
  <1>4. CASE Die
    BY <1>4, Ends DEF Die, KeyIsReplaced, postgres
  <1> QED BY <1>1, <1>2, <1>3, <1>4 DEF Next

\* The layout before the first start.
LEMMA FirstLayout ==
    ASSUME Init
    PROVE  /\ LayoutOK /\ layout["meta"].named
           /\ ~layout["meta"].dbName /\ ~layout["policy"].dbName
  <1>1. PICK named \in BOOLEAN :
           layout = [meta |-> [dbName |-> FALSE, key |-> "old", named |-> TRUE],
                     policy |-> [dbName |-> FALSE, key |-> "old", named |-> named]]
    <2>1. layout \in [meta : {[dbName |-> FALSE, key |-> "old", named |-> TRUE]},
                      policy : [dbName : {FALSE}, key : {"old"}, named : BOOLEAN]]
      BY DEF Init
    <2>2. layout = [meta |-> layout.meta, policy |-> layout.policy]
      BY <2>1
    <2>3. layout.policy = [dbName |-> FALSE, key |-> "old", named |-> layout.policy.named]
      BY <2>1
    <2> QED BY <2>1, <2>2, <2>3
  <1> QED BY <1>1 DEF LayoutOK, Layouts, Catalogs

LEMMA FirstInv == ASSUME Init PROVE Inv /\ MemoryOK
  <1>1. KeyInv /\ LoadedInv
    BY FirstLayout DEF Init, KeyInv, LoadedInv, Unloaded, Down
  <1>2. MemoryOK
    BY StepNames DEF Init, MemoryOK, NothingCached
  <1> QED BY <1>1, <1>2, FirstLayout DEF Inv

\* The next start finds the schemas and databases this one serves, in whatever statement of a
\* write the process dies, if the replacement of the metadata's key is not cut short and the
\* INSERTs whose errors the code ignores work; whatever the old version left, wherever else a
\* start fails or dies, and however many starts there are.  Until the process is up its caches
\* may be behind; LoadedInv says from which step on they are not, and the key is part of the
\* invariant because with the old one a write records nothing for a second database.
THEOREM NothingIsForgotten ==
    ASSUME KeyIsReplaced, InsertsWork
    PROVE  Spec => []RestartForgetsNothing
  <1>1. Init => Inv /\ MemoryOK
    BY FirstInv
  <1>2. Inv /\ MemoryOK /\ [Next]_vars => (Inv /\ MemoryOK)'
    BY InvStep, MemoryStep
  <1>3. Inv => RestartForgetsNothing
    BY StepNames DEF Inv, LoadedInv, RestartForgetsNothing, Serving
  <1> QED BY <1>1, <1>2, <1>3, PTL DEF Spec

-----------------------------------------------------------------------------
(* The policies of each database.                                           *)

\* The statements that give _retention_policy its columns and its key are neither refused
\* nor cut short, and the INSERTs of the databases' policies, whose errors are only logged,
\* work.
PolicyKeyIsReplaced ==
    /\ MayFail \cap {<<"policy", "rename">>, <<"policy", "dropKey">>, <<"policy", "addKey">>,
                     <<"main", "ensurePolicies">>, <<"write", "policies">>} = {}
    /\ MayDie \cap {<<"policy", "dropKey">>, <<"policy", "addKey">>} = {}

PolicyKeySteps == {<<"policy", "addDb">>, <<"policy", "dropKey">>, <<"policy", "addKey">>}
PolicyKeyDone == {<<"policy", "load">>, <<"main", "ensurePolicies">>} \cup Serving

\* The key of _retention_policy at each step of main; the rename comes before the rest.
PolicyKeyInv ==
    LET policy == layout["policy"] IN
    /\ policy.dbName \/ step = <<"policy", "addDb">> => policy.named
    /\ step \in {<<"policy", "dropKey">>, <<"policy", "addKey">>} \cup PolicyKeyDone
          => policy.dbName
    /\ step = <<"policy", "addKey">> => policy.key = "none"
    /\ policy.dbName /\ step \notin {<<"policy", "dropKey">>, <<"policy", "addKey">>}
          => policy.key = "new"

\* The steps of a write after EnsureDatabase.
EnsuringTable == {<<"write", "record">>, <<"write", "alter">>, <<"write", "create">>,
                  <<"write", "insert">>}

\* Every database that has a table has its policies, but for the default one, which gets
\* tables of the old version before; and the database of a write that has come to its table.
HavePolicies ==
    /\ DOMAIN tables = Schemas \X Measurements
    /\ \A k \in Databases \X Measurements :
          tables[k] # NoTable => k[1] \in policyRows \cup {Default}
    /\ step \in Serving => Default \in policyRows
    /\ step \in EnsuringTable => write.key[1] \in policyRows

\* None of the steps before the server is up is a step of serving.
LEMMA ServingNames ==
    /\ \A s \in Serving : s = Up \/ s[1] = "write"
    /\ EnsuringTable \subseteq WriteSteps /\ WriteSteps \subseteq Serving
    /\ Up \notin EnsuringTable /\ Up \in Serving /\ Down \notin Serving /\ Up[1] = "main"
    /\ \A s \in Serving : s \notin PolicyKeySteps
    /\ WriteSteps \cap {<<"policy", "dropKey">>, <<"policy", "addKey">>} = {}
  BY DEF Serving, WriteSteps, EnsuringTable, PolicyKeySteps, Up, Down

\* A step that leaves the layout of _retention_policy alone, and leads to a step after its
\* migration from one after it only.
LEMMA PolicyKeyKept ==
    ASSUME PolicyKeyInv, layout'["policy"] = layout["policy"],
           step \notin {<<"policy", "dropKey">>, <<"policy", "addKey">>},
           step' \notin PolicyKeySteps,
           step' \in PolicyKeyDone => step \in PolicyKeyDone
    PROVE  PolicyKeyInv'
  BY DEF PolicyKeyInv, PolicyKeySteps

\* The migration of _retention_policy ends with the new key.
LEMMA PolicyKeyMigrates ==
    ASSUME PolicyKeyIsReplaced, LayoutOK, PolicyKeyInv,
           AddDbName("policy") \/ DropKey("policy") \/ AddKey("policy") \/ RenameColumn
    PROVE  PolicyKeyInv'
  <1> DEFINE P == layout["policy"]
  <1>1. "policy" \in Catalogs /\ P \in Layouts
    BY DEF Catalogs, LayoutOK
  <1>2. CASE AddDbName("policy")
    <2>1. step = <<"policy", "addDb">>
      BY <1>2 DEF AddDbName
    <2>2. P.named /\ (P.dbName => P.key = "new")
      BY <2>1 DEF PolicyKeyInv
    <2>3. CASE step' = Down /\ layout' = layout
      <3>1. step' \notin PolicyKeySteps \cup PolicyKeyDone
        BY <2>3, ServingNames DEF PolicyKeySteps, PolicyKeyDone, Down
      <3> QED BY <2>1, <2>3, <3>1, PolicyKeyKept
    <2>4. CASE /\ layout' = [layout EXCEPT !["policy"].dbName = TRUE]
               /\ step' = IF ~P.dbName THEN <<"policy", "dropKey">> ELSE <<"policy", "load">>
      <3>1. layout'["policy"] = [P EXCEPT !.dbName = TRUE]
        BY <2>4 DEF LayoutOK
      <3>2. /\ layout'["policy"].dbName /\ layout'["policy"].key = P.key
            /\ layout'["policy"].named = P.named
        BY <1>1, <3>1 DEF Layouts
      <3>3. \/ step' = <<"policy", "dropKey">>
            \/ step' = <<"policy", "load">> /\ P.key = "new"
        BY <2>2, <2>4, Zenon
      <3> QED BY <2>2, <3>2, <3>3 DEF PolicyKeyInv
    <2> QED BY <1>2, <2>3, <2>4 DEF AddDbName, Exits
  <1>3. CASE DropKey("policy")
    <2>1. step = <<"policy", "dropKey">> /\ step' = <<"policy", "addKey">>
      BY <1>3 DEF DropKey
    <2>2. layout' = [layout EXCEPT !["policy"].key = "none"]
      BY <1>3, <2>1 DEF DropKey, Fails, PolicyKeyIsReplaced
    <2>3. layout'["policy"] = [P EXCEPT !.key = "none"]
      BY <2>2 DEF LayoutOK
    <2>4. /\ layout'["policy"].key = "none" /\ layout'["policy"].dbName = P.dbName
          /\ layout'["policy"].named = P.named
      BY <1>1, <2>3 DEF Layouts
    <2>5. P.named /\ P.dbName
      BY <2>1 DEF PolicyKeyInv
    <2> QED BY <2>1, <2>4, <2>5 DEF PolicyKeyInv
  <1>4. CASE AddKey("policy")
    <2>1. step = <<"policy", "addKey">> /\ step' = <<"policy", "load">>
      BY <1>4 DEF AddKey
    <2>2. P.named /\ P.dbName /\ P.key = "none"
      BY <2>1 DEF PolicyKeyInv
    <2>3. layout' = [layout EXCEPT !["policy"].key = "new"]
      BY <1>4, <2>1, <2>2 DEF AddKey, Fails, PolicyKeyIsReplaced
    <2>4. layout'["policy"] = [P EXCEPT !.key = "new"]
      BY <2>3 DEF LayoutOK
    <2>5. /\ layout'["policy"].key = "new" /\ layout'["policy"].dbName = P.dbName
          /\ layout'["policy"].named = P.named
      BY <1>1, <2>4 DEF Layouts
    <2> QED BY <2>1, <2>2, <2>5 DEF PolicyKeyInv
  <1>5. CASE RenameColumn
    <2>1. step = <<"policy", "rename">> /\ step' = <<"policy", "addDb">>
      BY <1>5 DEF RenameColumn, Exits, Fails, PolicyKeyIsReplaced
    <2>2. layout' = [layout EXCEPT !["policy"].named = TRUE]
      BY <1>5, <2>1 DEF RenameColumn, Exits, Fails, PolicyKeyIsReplaced
    <2>3. layout'["policy"] = [P EXCEPT !.named = TRUE]
      BY <2>2 DEF LayoutOK
    <2>4. /\ layout'["policy"].named /\ layout'["policy"].key = P.key
          /\ layout'["policy"].dbName = P.dbName
      BY <1>1, <2>3 DEF Layouts
    <2>5. P.dbName => P.key = "new"
      BY <2>1 DEF PolicyKeyInv
    <2>6. step' \notin PolicyKeyDone
      BY <2>1, ServingNames DEF PolicyKeyDone, PolicyKeySteps
    <2> QED BY <2>1, <2>4, <2>5, <2>6 DEF PolicyKeyInv
  <1> QED BY <1>2, <1>3, <1>4, <1>5

\* Every other step leaves the layout of _retention_policy alone.
LEMMA PolicyKeyStep ==
    ASSUME PolicyKeyIsReplaced, LayoutOK, PolicyKeyInv, [Next]_vars
    PROVE  LayoutOK' /\ PolicyKeyInv'
  <1>1. CASE UNCHANGED vars
    BY <1>1 DEF vars, postgres, LayoutOK, PolicyKeyInv
  <1>2. "meta" \in Catalogs /\ "policy" \in Catalogs /\ Catalogs = {"meta", "policy"}
    BY DEF Catalogs
  <1>3. CASE AddDbName("policy") \/ DropKey("policy") \/ AddKey("policy") \/ RenameColumn
    BY <1>2, <1>3, LayoutKeeps, PolicyKeyMigrates
    DEF AddDbName, DropKey, AddKey, RenameColumn, Exits
  <1>4. CASE AddDbName("meta") \/ DropKey("meta") \/ AddKey("meta")
    <2>1. LayoutOK' /\ layout'["policy"] = layout["policy"]
      BY <1>2, <1>4, LayoutKeeps DEF AddDbName, DropKey, AddKey, Exits
    <2>2. /\ step \notin {<<"policy", "dropKey">>, <<"policy", "addKey">>}
          /\ step' \notin PolicyKeySteps \cup PolicyKeyDone
      BY <1>4, ServingNames DEF AddDbName, DropKey, AddKey, Exits, PolicyKeySteps, PolicyKeyDone,
                                Down, Up
    <2> QED BY <2>1, <2>2, PolicyKeyKept
  <1>5. CASE \/ Start \/ LoadSchemas \/ EnsureDefault \/ RegisterDefault \/ ListPublic
             \/ AssignMetadata \/ Reload
    <2>1. layout' = layout
      BY <1>5 DEF Start, LoadSchemas, EnsureDefault, RegisterDefault, RegisterDatabase, ListPublic,
                  AssignMetadata, Reload, postgres
    <2>2. step \in {Down, <<"meta", "load">>, <<"main", "ensureDb">>, <<"main", "ensureRow">>,
                    <<"main", "list">>, <<"main", "assign">>, <<"main", "reload">>}
      BY <1>5 DEF Start, LoadSchemas, EnsureDefault, RegisterDefault, ListPublic, AssignMetadata,
                  Reload
    <2>3. step' \in {Down, <<"meta", "addDb">>, <<"policy", "rename">>, <<"main", "ensureDb">>,
                     <<"main", "ensureRow">>, <<"main", "list">>, <<"main", "move">>,
                     <<"main", "reload">>}
      <3>1. CASE Start \/ AssignMetadata \/ Reload \/ RegisterDefault
        BY <3>1 DEF Start, AssignMetadata, Reload, RegisterDefault
      <3>2. CASE LoadSchemas \/ EnsureDefault
        BY <3>2 DEF LoadSchemas, EnsureDefault, Exits
      <3>3. CASE ListPublic
        BY <3>3 DEF ListPublic
      <3> QED BY <1>5, <3>1, <3>2, <3>3
    <2>4. /\ step \notin {<<"policy", "dropKey">>, <<"policy", "addKey">>}
          /\ step' \notin PolicyKeySteps \cup PolicyKeyDone
      BY <2>2, <2>3, ServingNames DEF PolicyKeySteps, PolicyKeyDone, Down, Up
    <2> QED BY <2>1, <2>4, PolicyKeyKept DEF LayoutOK
  <1>6. ASSUME NEW m \in Measurements, MoveTable(m)
        PROVE  LayoutOK' /\ PolicyKeyInv'
    <2>1. layout' = layout /\ step = <<"main", "move">>
      BY <1>6 DEF MoveTable
    <2>2. step' \in {<<"main", "move">>, <<"main", "assign">>}
      BY <1>6 DEF MoveTable
    <2>3. /\ step \notin {<<"policy", "dropKey">>, <<"policy", "addKey">>}
          /\ step' \notin PolicyKeySteps \cup PolicyKeyDone
      BY <2>1, <2>2, ServingNames DEF PolicyKeySteps, PolicyKeyDone, Up
    <2> QED BY <2>1, <2>3, PolicyKeyKept DEF LayoutOK
  <1>7. CASE LoadPolicies \/ EnsureDefaultPolicies
    <2>1. layout' = layout /\ step \in {<<"policy", "load">>, <<"main", "ensurePolicies">>}
      BY <1>7 DEF LoadPolicies, EnsureDefaultPolicies, EnsurePolicies, postgres
    <2>2. step' \in {<<"main", "ensurePolicies">>, Up, Down}
      BY <1>7 DEF LoadPolicies, EnsureDefaultPolicies, Exits
    <2>3. /\ step \notin {<<"policy", "dropKey">>, <<"policy", "addKey">>}
          /\ step \in PolicyKeyDone /\ step' \notin PolicyKeySteps
      BY <2>1, <2>2 DEF PolicyKeySteps, PolicyKeyDone, Down, Up
    <2> QED BY <2>1, <2>3, PolicyKeyKept DEF LayoutOK
  <1>8. CASE WriteStep
    <2>1. layout' = layout /\ step \in Serving /\ step' \in Serving
      <3>1. ASSUME NEW db \in Databases, NEW m \in Measurements, NEW columns \in Shapes,
                   BeginWrite(db, m, columns)
            PROVE  <2>1
        BY <3>1 DEF BeginWrite, postgres, Serving, WriteSteps
      <3>2. CASE CreateSchema \/ InsertDatabase \/ EnsureWritePolicies
        BY <3>2, AfterColumnsStep DEF CreateSchema, InsertDatabase, RegisterDatabase,
                 EnsureWritePolicies, EnsurePolicies, Answered, postgres, Serving, WriteSteps
      <3>3. ASSUME NEW c \in Columns, RecordColumn(c)
            PROVE  <2>1
        BY <3>3, AfterColumnsStep DEF RecordColumn, Serving, WriteSteps
      <3>4. CASE AddColumn \/ CreateTable \/ InsertBatch
        BY <3>4, AfterColumnsStep DEF AddColumn, CreateTable, InsertBatch, Answered, postgres,
                 Serving, WriteSteps
      <3> QED BY <1>8, <3>1, <3>2, <3>3, <3>4 DEF WriteStep
    <2>2. /\ step \notin {<<"policy", "dropKey">>, <<"policy", "addKey">>}
          /\ step \in PolicyKeyDone /\ step' \notin PolicyKeySteps
      BY <2>1, ServingNames DEF PolicyKeyDone, PolicyKeySteps
    <2> QED BY <2>1, <2>2, PolicyKeyKept DEF LayoutOK
  <1>9. CASE Die
    <2>1. /\ layout' = layout /\ step' = Down
          /\ step \notin {<<"policy", "dropKey">>, <<"policy", "addKey">>}
      BY <1>9 DEF Die, postgres, PolicyKeyIsReplaced
    <2>2. step' \notin PolicyKeySteps \cup PolicyKeyDone
      BY <2>1, ServingNames DEF PolicyKeySteps, PolicyKeyDone, Down
    <2> QED BY <2>1, <2>2, PolicyKeyKept DEF LayoutOK
  <1> QED BY <1>1, <1>2, <1>3, <1>4, <1>5, <1>6, <1>7, <1>8, <1>9 DEF Next, MainStep

\* A step that changes neither a table nor a policy, and does not come to serve.
LEMMA HavePoliciesKept ==
    ASSUME HavePolicies, UNCHANGED <<tables, policyRows>>,
           \/ step' \notin Serving
           \/ step \in Serving /\ step' \in Serving \ EnsuringTable
           \/ step \in EnsuringTable /\ write'.key = write.key
    PROVE  HavePolicies'
  BY ServingNames DEF HavePolicies

\* A database has its policies before it is given a table.
LEMMA HavePoliciesWrite ==
    ASSUME PolicyKeyIsReplaced, PolicyKeyInv, HavePolicies, MemoryOK, WriteStep
    PROVE  HavePolicies'
  <1>1. ASSUME NEW db \in Databases, NEW m \in Measurements, NEW columns \in Shapes,
               BeginWrite(db, m, columns)
        PROVE  HavePolicies'
    <2>1. CASE db \in databases
      <3>1. step \in Serving /\ step' \in Serving \ EnsuringTable
        BY <1>1, <2>1, ServingNames DEF BeginWrite, EnsuringTable, Serving, WriteSteps
      <3> QED BY <1>1, <3>1, HavePoliciesKept DEF BeginWrite, postgres
    <2>2. CASE db \notin databases
      <3>1. step \in Serving /\ step' \in Serving \ EnsuringTable
        BY <1>1, <2>2, ServingNames DEF BeginWrite, EnsuringTable, Serving, WriteSteps
      <3> QED BY <1>1, <3>1, HavePoliciesKept DEF BeginWrite, postgres
    <2> QED BY <2>1, <2>2
  <1>2. CASE CreateSchema \/ InsertDatabase \/ InsertBatch
    <2>1. UNCHANGED <<tables, policyRows>> /\ step \in Serving
      BY <1>2 DEF CreateSchema, InsertDatabase, RegisterDatabase, InsertBatch, postgres, Serving,
                  WriteSteps
    <2>2. step' \in {<<"write", "dbRow">>, <<"write", "policies">>, Up}
      BY <1>2 DEF CreateSchema, InsertDatabase, InsertBatch, Answered
    <2>3. step' \in Serving \ EnsuringTable
      BY <2>2, ServingNames DEF Serving, WriteSteps, EnsuringTable
    <2> QED BY <2>1, <2>3, HavePoliciesKept
  <1>3. CASE EnsureWritePolicies
    <2>1. step = <<"write", "policies">> /\ step \in Serving /\ step \in PolicyKeyDone
      BY <1>3 DEF EnsureWritePolicies, PolicyKeyDone, Serving, WriteSteps
    <2>2. layout["policy"].key = "new"
      BY <2>1 DEF PolicyKeyInv
    <2>3. policyRows' = policyRows \cup {write.key[1]}
      BY <1>3, <2>1, <2>2 DEF EnsureWritePolicies, EnsurePolicies, Fails, WithPolicies,
                              PolicyKeyIsReplaced
    <2>4. tables' = tables /\ write' = write
      BY <1>3 DEF EnsureWritePolicies, EnsurePolicies
    <2> QED BY <2>1, <2>3, <2>4 DEF HavePolicies
  <1>4. ASSUME NEW c \in Columns, RecordColumn(c)
        PROVE  HavePolicies'
    <2>1. step = <<"write", "record">> /\ write \in Writes
      BY <1>4 DEF RecordColumn, MemoryOK, WriteSteps
    <2>2. write' = write \/ write' = [write EXCEPT !.adding = {c}]
      BY <1>4 DEF RecordColumn
    <2>3. write'.key = write.key
      BY <2>1, <2>2 DEF Writes
    <2>4. step \in EnsuringTable
      BY <2>1 DEF EnsuringTable
    <2> QED BY <1>4, <2>3, <2>4, HavePoliciesKept DEF RecordColumn
  <1>5. CASE AddColumn \/ CreateTable
    <2>1. step \in {<<"write", "alter">>, <<"write", "create">>} /\ write \in Writes
      BY <1>5 DEF AddColumn, CreateTable, MemoryOK, WriteSteps
    <2>2. step \in Serving /\ step \in EnsuringTable
      BY <2>1, ServingNames DEF EnsuringTable
    <2>3. write'.key = write.key \/ step' = Up
      <3>1. CASE AddColumn
        <4>1. write' = [write EXCEPT !.adding = {}]
          BY <3>1 DEF AddColumn
        <4> QED BY <2>1, <4>1 DEF Writes
      <3> QED BY <1>5, <3>1 DEF CreateTable, Answered
    <2>4. /\ DOMAIN tables' = Schemas \X Measurements
          /\ \A k \in Databases \X Measurements : k # write.key => tables'[k] = tables[k]
      BY <1>5, SchemaParts DEF AddColumn, CreateTable, HavePolicies
    <2>5. policyRows' = policyRows /\ write.key[1] \in policyRows
      BY <1>5, <2>2 DEF AddColumn, CreateTable, HavePolicies
    <2> QED BY <2>2, <2>3, <2>4, <2>5, ServingNames DEF HavePolicies
  <1> QED BY <1>1, <1>2, <1>3, <1>4, <1>5 DEF WriteStep

\* Until the server is up no database but the default one is given a table.
LEMMA HavePoliciesStep ==
    ASSUME PolicyKeyIsReplaced, PolicyKeyInv, HavePolicies, MemoryOK, [Next]_vars
    PROVE  HavePolicies'
  <1>1. CASE UNCHANGED vars
    BY <1>1 DEF vars, postgres, memory, HavePolicies
  <1>2. CASE Start \/ Die
    BY <1>2, HavePoliciesKept, ServingNames DEF Start, Die, postgres, Down
  <1>3. ASSUME NEW c \in Catalogs, AddDbName(c) \/ DropKey(c) \/ AddKey(c)
        PROVE  HavePolicies'
    <2>1. UNCHANGED <<tables, policyRows>>
      BY <1>3 DEF AddDbName, DropKey, AddKey
    <2>2. step' \notin Serving
      BY <1>3, ServingNames DEF AddDbName, DropKey, AddKey, Exits, Catalogs, Down, Up
    <2> QED BY <2>1, <2>2, HavePoliciesKept
  <1>4. CASE \/ RenameColumn \/ LoadPolicies \/ LoadSchemas \/ Reload \/ EnsureDefault
             \/ RegisterDefault \/ ListPublic \/ AssignMetadata
    <2>1. UNCHANGED <<tables, policyRows>>
      BY <1>4 DEF RenameColumn, LoadPolicies, LoadSchemas, Reload, EnsureDefault, RegisterDefault,
                  RegisterDatabase, ListPublic, AssignMetadata, postgres
    <2>2. step' \in {Down, <<"policy", "addDb">>, <<"main", "ensurePolicies">>,
                     <<"main", "ensureDb">>, <<"policy", "rename">>, <<"main", "list">>,
                     <<"main", "ensureRow">>, <<"main", "move">>, <<"main", "reload">>}
      BY <1>4 DEF RenameColumn, LoadPolicies, LoadSchemas, Reload, EnsureDefault, RegisterDefault,
                  ListPublic, AssignMetadata, Exits
    <2>3. step' \notin Serving
      BY <2>2, ServingNames DEF Down, Up
    <2> QED BY <2>1, <2>3, HavePoliciesKept
  <1>5. ASSUME NEW m \in Measurements, MoveTable(m)
        PROVE  HavePolicies'
    <2>1. step' \in {<<"main", "move">>, <<"main", "assign">>} /\ policyRows' = policyRows
      BY <1>5 DEF MoveTable
    <2>2. step' \notin Serving
      BY <2>1, ServingNames DEF Up
    <2>3. /\ DOMAIN tables' = Schemas \X Measurements
          /\ \A k \in Databases \X Measurements :
                tables'[k] = tables[k] \/ tables'[k] = NoTable \/ k[1] = Default
      <3>1. CASE tables' = tables
        BY <3>1 DEF HavePolicies
      <3>2. CASE tables' = [tables EXCEPT ![<<Default, m>>] = tables[<<Public, m>>],
                                          ![<<Public, m>>] = NoTable]
        BY <3>2, SchemaParts DEF HavePolicies
      <3> QED BY <1>5, <3>1, <3>2 DEF MoveTable
    <2> QED BY <2>1, <2>2, <2>3, ServingNames DEF HavePolicies
  <1>6. CASE EnsureDefaultPolicies
    <2>1. step = <<"main", "ensurePolicies">> /\ step \in PolicyKeyDone
      BY <1>6 DEF EnsureDefaultPolicies, PolicyKeyDone
    <2>2. layout["policy"].key = "new"
      BY <2>1 DEF PolicyKeyInv
    <2>3. policyRows' = policyRows \cup {Default}
      BY <1>6, <2>1, <2>2 DEF EnsureDefaultPolicies, EnsurePolicies, Fails, WithPolicies,
                              PolicyKeyIsReplaced
    <2>4. tables' = tables /\ step' = Up
      BY <1>6 DEF EnsureDefaultPolicies, EnsurePolicies
    <2> QED BY <2>3, <2>4, ServingNames DEF HavePolicies
  <1>7. CASE WriteStep
    BY <1>7, HavePoliciesWrite
  <1> QED BY <1>1, <1>2, <1>3, <1>4, <1>5, <1>6, <1>7 DEF Next, MainStep

\* No data without a policy: every database that has a table has policies of its own, those
\* of other databases of the same names included, wherever a write or a start is cut short but
\* in the replacement of the key: the INSERT needs the key on both columns, which no later
\* start replaces if the first one did not.  A database may lack them before its first table.
THEOREM PoliciesAreStored ==
    ASSUME PolicyKeyIsReplaced, PublicIsApart
    PROVE  Spec => []PoliciesStored
  <1> DEFINE IInv == LayoutOK /\ PolicyKeyInv /\ HavePolicies /\ MemoryOK
  <1>1. Init => IInv
    <2> SUFFICES ASSUME Init PROVE IInv
      OBVIOUS
    <2>1. step = Down /\ DOMAIN tables = Schemas \X Measurements
      BY DEF Init
    <2>2. PolicyKeyInv
      BY <2>1, FirstLayout, ServingNames DEF PolicyKeyInv, PolicyKeyDone, Down
    <2>3. \A k \in Databases \X Measurements : k[1] # Public /\ k \in Schemas \X Measurements
      BY SchemaParts DEF PublicIsApart
    <2>4. \A k \in Databases \X Measurements : tables[k] = NoTable
      BY <2>3 DEF Init
    <2>5. HavePolicies
      BY <2>1, <2>4, ServingNames DEF HavePolicies
    <2> QED BY <2>2, <2>5, FirstLayout, FirstInv
  <1>2. IInv /\ [Next]_vars => IInv'
    BY PolicyKeyStep, HavePoliciesStep, MemoryStep
  <1>3. IInv => PoliciesStored
    BY ServingNames DEF HavePolicies, PoliciesStored
  <1> QED BY <1>1, <1>2, <1>3, PTL DEF Spec

-----------------------------------------------------------------------------
(* The tables of an old version, and the columns of every table.            *)

\* The tables in the public schema are listed, moved, and their metadata assigned, without a
\* statement refused in between, and the process does not die between the last move and the
\* UPDATE (the next start finds nothing to move and leaves the metadata as they are).
MigrationIsWhole ==
    /\ MayFail \cap {<<"main", "list">>, <<"main", "move">>, <<"main", "assign">>} = {}
    /\ <<"main", "assign">> \notin MayDie

\* A column that is recorded is added to the table: the ALTER TABLE, whose error is ignored,
\* works, and the process does not die before it.
ColumnsAreAdded == <<"write", "alter">> \notin MayFail \cup MayDie

Before == {Down, <<"meta", "addDb">>, <<"meta", "dropKey">>, <<"meta", "addKey">>,
           <<"meta", "load">>, <<"main", "ensureDb">>, <<"main", "ensureRow">>,
           <<"main", "list">>, <<"main", "move">>, <<"main", "assign">>}

OldColumns(m) == ColumnsOf(<<Unassigned, m>>)

\* Until the UPDATE: all metadata are those of the old version, and each of its tables is in
\* one of the two schemas, whatever starts there were.  The table of a measurement that
\* has none in either has no metadata.
Unmigrated ==
    /\ \A r \in metaRows : r[1] = Unassigned
    /\ DOMAIN oldData = {m \in Measurements : OldColumns(m) # {}}
    /\ \A m \in DOMAIN oldData : oldData[m] \in {Public, Default}
    /\ \A s \in Schemas, m \in Measurements :
          tables[<<s, m>>] = IF m \in DOMAIN oldData /\ oldData[m] = s
                             THEN OldColumns(m) ELSE NoTable
    /\ step \in Before
    /\ step = <<"main", "assign">> <=> InPublic = {}
    /\ step = <<"main", "move">> => listed = InPublic

\* The columns the metadata say a table has, but for the one that is being added.
Held(k) == IF step = <<"write", "alter">> /\ k = write.key
           THEN Loaded[k] \ write.adding ELSE Loaded[k]

\* Afterwards: a table has the columns its metadata say, if there is one yet, and the tables
\* of the old version are there.
Migrated ==
    /\ \A r \in metaRows : r[1] # Unassigned
    /\ InPublic = {}
    /\ \A m \in DOMAIN oldData :
          m \in Measurements /\ oldData[m] = Default /\ tables[<<Default, m>>] # NoTable
    /\ \A k \in Databases \X Measurements : tables[k] \in {NoTable, Held(k)}
    /\ step \notin {<<"main", "move">>, <<"main", "assign">>}

\* How far the write has come: the key of one that found nothing cached has no table yet.
WriteInv ==
    /\ step \in WriteSteps \ {<<"write", "insert">>} /\ write.was = NoTable
          => tables[write.key] = NoTable
    /\ step = <<"write", "alter">> => write.adding \subseteq Known(write.key)
    /\ step = <<"write", "create">> => write.columns \subseteq Known(write.key)
    /\ step = <<"write", "insert">>
          => write.columns \subseteq Known(write.key) /\ tables[write.key] # NoTable

TypeData ==
    /\ tables \in [Schemas \X Measurements -> (SUBSET Columns) \cup {NoTable}]
    /\ metaRows \subseteq (Databases \cup {Unassigned}) \X Measurements \X Columns

DataInv == TypeData /\ (Unmigrated \/ Migrated)

\* A step that leaves tables and metadata alone.
LEMMA DataKept ==
    ASSUME DataInv, UNCHANGED <<metaRows, tables, oldData>>,
           step \notin {<<"main", "assign">>, <<"write", "alter">>},
           step' \notin {<<"main", "move">>, <<"main", "assign">>, <<"write", "alter">>},
           step \in Before => step' \in Before
    PROVE  DataInv'
  <1>1. /\ InPublic' = InPublic /\ Loaded' = Loaded
        /\ \A m \in Measurements : OldColumns(m)' = OldColumns(m)
    BY DEF InPublic, Loaded, ColumnsOf, OldColumns
  <1>2. CASE Unmigrated
    BY <1>1, <1>2 DEF DataInv, TypeData, Unmigrated
  <1>3. CASE Migrated
    BY <1>1, <1>3 DEF DataInv, TypeData, Migrated, Held
  <1> QED BY <1>2, <1>3 DEF DataInv

\* What the old version left.
LEMMA FirstData ==
    ASSUME Init, PublicIsApart
    PROVE  DataInv
  <1>0. PICK old \in SUBSET Measurements : \E shape \in [old -> Shapes] :
           /\ tables = [k \in Schemas \X Measurements |->
                           IF k[1] = Public /\ k[2] \in old THEN shape[k[2]] ELSE NoTable]
           /\ oldData = [m \in old |-> Public]
           /\ metaRows = {r \in {Unassigned} \X old \X Columns : r[3] \in shape[r[2]]}
    BY DEF Init
  <1>1. PICK shape \in [old -> Shapes] :
           /\ tables = [k \in Schemas \X Measurements |->
                           IF k[1] = Public /\ k[2] \in old THEN shape[k[2]] ELSE NoTable]
           /\ oldData = [m \in old |-> Public]
           /\ metaRows = {r \in {Unassigned} \X old \X Columns : r[3] \in shape[r[2]]}
    BY <1>0
  <1>2. \A m \in old : shape[m] \subseteq Columns /\ shape[m] # {} /\ shape[m] # NoTable
    <2>1. \A s \in Shapes : s \subseteq Columns
      BY DEF Columns
    <2> QED BY <2>1, StartupAssumption
  <1>3. \A k \in Keys : ColumnsOf(k) = IF k[1] = Unassigned /\ k[2] \in old THEN shape[k[2]] ELSE {}
    <2> SUFFICES ASSUME NEW k \in Keys
                 PROVE  ColumnsOf(k) = IF k[1] = Unassigned /\ k[2] \in old THEN shape[k[2]] ELSE {}
      OBVIOUS
    <2>1. \A c \in Columns : <<k[1], k[2], c>> \in metaRows
                                <=> k[1] = Unassigned /\ k[2] \in old /\ c \in shape[k[2]]
      BY <1>1
    <2> QED BY <1>2, <2>1 DEF ColumnsOf
  <1>4. \A m \in Measurements : OldColumns(m) = IF m \in old THEN shape[m] ELSE {}
    BY <1>3, SchemaParts DEF OldColumns
  <1>5. TypeData
    BY <1>1, <1>2 DEF TypeData
  <1>6. step = Down /\ InPublic = old
    BY <1>1, <1>2, SchemaParts DEF Init, InPublic
  <1>7. CASE old = {}
    <2>1. \A k \in Databases \X Measurements : tables[k] = NoTable
      BY <1>1, <1>7, SchemaParts
    <2> QED BY <1>1, <1>5, <1>6, <1>7, <2>1 DEF DataInv, Migrated, Down
  <1>8. CASE old # {}
    <2>1. \A r \in metaRows : r[1] = Unassigned
      BY <1>1
    <2>2. DOMAIN oldData = {m \in Measurements : OldColumns(m) # {}}
      BY <1>1, <1>2, <1>4
    <2>3. \A s \in Schemas, m \in Measurements :
             tables[<<s, m>>] = IF m \in DOMAIN oldData /\ oldData[m] = s
                                THEN OldColumns(m) ELSE NoTable
      BY <1>1, <1>4
    <2> QED BY <1>1, <1>5, <1>6, <1>8, <2>1, <2>2, <2>3 DEF DataInv, Unmigrated, Before, Down
  <1> QED BY <1>7, <1>8

\* The tables that MigrateExistingData lists are those of the public schema.
LEMMA ListKeeps ==
    ASSUME MigrationIsWhole, DataInv, ListPublic
    PROVE  DataInv'
  <1>1. /\ step = <<"main", "list">> /\ listed' = InPublic
        /\ step' = IF InPublic = {} THEN <<"policy", "rename">> ELSE <<"main", "move">>
        /\ UNCHANGED <<metaRows, tables, oldData>>
    BY DEF ListPublic, Fails, MigrationIsWhole, postgres
  <1>2. /\ InPublic' = InPublic /\ Loaded' = Loaded
        /\ \A m \in Measurements : OldColumns(m)' = OldColumns(m)
    BY <1>1 DEF InPublic, Loaded, ColumnsOf, OldColumns
  <1>3. CASE Unmigrated
    <2>1. InPublic # {}
      BY <1>1, <1>3 DEF Unmigrated
    <2> QED BY <1>1, <1>2, <1>3, <2>1 DEF DataInv, TypeData, Unmigrated, Before
  <1>4. CASE Migrated
    BY <1>1, <1>2, <1>4 DEF DataInv, TypeData, Migrated, Held
  <1> QED BY <1>3, <1>4 DEF DataInv

\* A table moves to the schema of the default database, which has none of its name.
LEMMA MoveKeeps ==
    ASSUME PublicIsApart, MigrationIsWhole, DataInv, NEW m \in Measurements, MoveTable(m)
    PROVE  DataInv'
  <1>1. step = <<"main", "move">> /\ m \in listed
    BY DEF MoveTable
  <1>2. Unmigrated /\ listed = InPublic
    BY <1>1 DEF DataInv, Unmigrated, Migrated
  <1>3. /\ \A n \in Measurements : n \in InPublic
                                      <=> n \in DOMAIN oldData /\ oldData[n] = Public
        /\ Public # Default
    BY <1>2, SchemaParts, SomeColumns DEF Unmigrated, InPublic, PublicIsApart, OldColumns
  <1>4. m \in DOMAIN oldData /\ oldData[m] = Public
    BY <1>1, <1>2, <1>3
  <1>5. tables[<<Default, m>>] = NoTable /\ tables[<<Public, m>>] = OldColumns(m)
    BY <1>2, <1>3, <1>4, SchemaParts DEF Unmigrated
  <1>6. /\ tables' = [tables EXCEPT ![<<Default, m>>] = tables[<<Public, m>>],
                                    ![<<Public, m>>] = NoTable]
        /\ oldData' = [n \in DOMAIN oldData |->
                          IF n = m /\ oldData[n] = Public THEN Default ELSE oldData[n]]
        /\ listed' = listed \ {m} /\ metaRows' = metaRows
        /\ step' = IF listed = {m} THEN <<"main", "assign">> ELSE step
    BY <1>1, <1>5 DEF MoveTable, Fails, MigrationIsWhole
  <1>7. \A s \in Schemas, n \in Measurements :
           tables'[<<s, n>>] = IF n = m /\ s = Default THEN OldColumns(m)
                               ELSE IF n = m /\ s = Public THEN NoTable
                               ELSE tables[<<s, n>>]
    BY <1>3, <1>5, <1>6, SchemaParts DEF DataInv, TypeData
  <1>8. /\ \A n \in Measurements : OldColumns(n)' = OldColumns(n)
        /\ DOMAIN oldData' = DOMAIN oldData
        /\ \A n \in DOMAIN oldData : oldData'[n] = IF n = m THEN Default ELSE oldData[n]
    BY <1>4, <1>6 DEF OldColumns, ColumnsOf
  <1>9. \A s \in Schemas, n \in Measurements :
           tables'[<<s, n>>] = IF n \in DOMAIN oldData' /\ oldData'[n] = s
                               THEN OldColumns(n) ELSE NoTable
    <2> SUFFICES ASSUME NEW s \in Schemas, NEW n \in Measurements
                 PROVE  tables'[<<s, n>>] = IF n \in DOMAIN oldData' /\ oldData'[n] = s
                                            THEN OldColumns(n) ELSE NoTable
      OBVIOUS
    <2>1. tables[<<s, n>>] = IF n \in DOMAIN oldData /\ oldData[n] = s
                             THEN OldColumns(n) ELSE NoTable
      BY <1>2 DEF Unmigrated
    <2>2. CASE n = m
      BY <1>3, <1>4, <1>7, <1>8, <2>1, <2>2
    <2>3. CASE n # m
      BY <1>7, <1>8, <2>1, <2>3
    <2> QED BY <2>2, <2>3
  <1>10. InPublic' = InPublic \ {m}
    BY <1>3, <1>7, SchemaParts DEF InPublic
  <1>11. /\ step' \in {<<"main", "move">>, <<"main", "assign">>}
         /\ step' = <<"main", "assign">> <=> InPublic' = {}
         /\ listed' = InPublic'
    BY <1>1, <1>2, <1>6, <1>10
  <1>12. TypeData'
    <2>1. <<Default, m>> \in Schemas \X Measurements /\ <<Public, m>> \in Schemas \X Measurements
      BY SchemaParts
    <2>2. tables[<<Public, m>>] \in (SUBSET Columns) \cup {NoTable}
      BY <2>1 DEF DataInv, TypeData
    <2> QED BY <1>6, <2>1, <2>2 DEF DataInv, TypeData
  <1>13. /\ \A r \in metaRows' : r[1] = Unassigned
         /\ DOMAIN oldData' = {n \in Measurements : OldColumns(n)' # {}}
         /\ \A n \in DOMAIN oldData' : oldData'[n] \in {Public, Default}
    BY <1>2, <1>6, <1>8 DEF Unmigrated
  <1>14. step' \in Before
    BY <1>11 DEF Before
  <1>15. \A s \in Schemas, n \in Measurements :
            tables'[<<s, n>>] = IF n \in DOMAIN oldData' /\ oldData'[n] = s
                                THEN OldColumns(n)' ELSE NoTable
    BY <1>8, <1>9
  <1> QED BY <1>11, <1>12, <1>13, <1>14, <1>15 DEF DataInv, Unmigrated

\* The UPDATE gives all metadata to the default database.
LEMMA AssignKeeps ==
    ASSUME PublicIsApart, MigrationIsWhole, DataInv, AssignMetadata
    PROVE  DataInv'
  <1>1. step = <<"main", "assign">> /\ Unmigrated /\ InPublic = {}
    BY DEF AssignMetadata, DataInv, Unmigrated, Migrated
  <1>2. \A r \in metaRows : r[1] = Unassigned
    BY <1>1 DEF Unmigrated
  <1>3. ~ \E r \in metaRows : <<Default, r[2], r[3]>> \in metaRows
    BY <1>2, SchemaParts
  <1>4. /\ metaRows' = Assigned(metaRows) /\ step' = <<"main", "reload">>
        /\ UNCHANGED <<tables, oldData>>
    BY <1>1, <1>3 DEF AssignMetadata, Fails, MigrationIsWhole
  <1>5. metaRows' = {<<Default, r[2], r[3]>> : r \in metaRows}
    BY <1>2, <1>4 DEF Assigned
  <1>6. \A m \in Measurements : ColumnsOf(<<Default, m>>)' = OldColumns(m)
    <2> SUFFICES ASSUME NEW m \in Measurements
                 PROVE  ColumnsOf(<<Default, m>>)' = OldColumns(m)
      OBVIOUS
    <2>1. \A c \in Columns : <<Default, m, c>> \in metaRows' <=> <<Unassigned, m, c>> \in metaRows
      <3> SUFFICES ASSUME NEW c \in Columns
                   PROVE  <<Default, m, c>> \in metaRows' <=> <<Unassigned, m, c>> \in metaRows
        OBVIOUS
      <3>1. ASSUME <<Default, m, c>> \in metaRows' PROVE <<Unassigned, m, c>> \in metaRows
        <4>1. PICK r \in metaRows : <<Default, m, c>> = <<Default, r[2], r[3]>>
          BY <1>5, <3>1
        <4>2. r = <<r[1], r[2], r[3]>>
          BY DEF DataInv, TypeData
        <4> QED BY <1>2, <4>1, <4>2
      <3>2. ASSUME <<Unassigned, m, c>> \in metaRows PROVE <<Default, m, c>> \in metaRows'
        BY <1>5, <3>2
      <3> QED BY <3>1, <3>2
    <2> QED BY <2>1 DEF ColumnsOf, OldColumns
  <1>7. \A db \in Databases, m \in Measurements :
           db # Default => ColumnsOf(<<db, m>>)' = {}
    BY <1>5 DEF ColumnsOf
  <1>8. \A db \in Databases, m \in Measurements :
           tables[<<db, m>>] = IF ColumnsOf(<<db, m>>)' = {} THEN NoTable
                               ELSE ColumnsOf(<<db, m>>)'
    <2>1. ASSUME NEW m \in Measurements
          PROVE  tables[<<Default, m>>] = IF OldColumns(m) = {} THEN NoTable ELSE OldColumns(m)
      <3>1. m \in DOMAIN oldData <=> OldColumns(m) # {}
        BY <1>1 DEF Unmigrated
      <3>2. \A s \in Schemas : tables[<<s, m>>] = IF m \in DOMAIN oldData /\ oldData[m] = s
                                                 THEN OldColumns(m) ELSE NoTable
        BY <1>1 DEF Unmigrated
      <3>3. tables[<<Public, m>>] = NoTable
        BY <1>1 DEF InPublic
      <3>4. m \in DOMAIN oldData => oldData[m] = Default
        BY <1>1, <3>2, <3>3, SchemaParts, SomeColumns DEF Unmigrated, OldColumns
      <3> QED BY <3>1, <3>2, <3>4, SchemaParts
    <2>2. ASSUME NEW db \in Databases, NEW m \in Measurements, db # Default
          PROVE  tables[<<db, m>>] = NoTable
      <3>1. m \in DOMAIN oldData => oldData[m] # db
        BY <1>1, <2>2 DEF Unmigrated, PublicIsApart
      <3> QED BY <1>1, <3>1, SchemaParts DEF Unmigrated
    <2> QED BY <1>6, <1>7, <2>1, <2>2
  <1>9. \A m \in DOMAIN oldData :
           m \in Measurements /\ oldData[m] = Default /\ tables[<<Default, m>>] # NoTable
    <2> SUFFICES ASSUME NEW m \in DOMAIN oldData
                 PROVE  /\ m \in Measurements /\ oldData[m] = Default
                        /\ tables[<<Default, m>>] # NoTable
      OBVIOUS
    <2>1. m \in Measurements /\ OldColumns(m) # {} /\ oldData[m] \in {Public, Default}
      BY <1>1 DEF Unmigrated
    <2>2. oldData[m] # Public
      <3>1. oldData[m] = Public => tables[<<Public, m>>] = OldColumns(m)
        BY <1>1, <2>1, SchemaParts DEF Unmigrated
      <3> QED BY <1>1, <2>1, <3>1, SomeColumns DEF InPublic, OldColumns
    <2>3. tables[<<Default, m>>] = OldColumns(m)
      BY <1>1, <2>1, <2>2, SchemaParts DEF Unmigrated
    <2>4. tables[<<Default, m>>] # NoTable
      BY <2>3, SomeColumns DEF OldColumns
    <2> QED BY <2>1, <2>2, <2>4
  <1>10. \A k \in Databases \X Measurements : tables'[k] = Loaded'[k]
    BY <1>4, <1>8, SchemaParts DEF Loaded
  <1>11. metaRows' \subseteq Databases \X Measurements \X Columns
    BY <1>5, SchemaParts DEF DataInv, TypeData
  <1>12. \A r \in metaRows' : r[1] # Unassigned
    BY <1>11, SchemaParts
  <1>13. InPublic' = {}
    BY <1>1, <1>4 DEF InPublic
  <1> QED BY <1>4, <1>9, <1>10, <1>11, <1>12, <1>13 DEF DataInv, TypeData, Migrated, Held

\* While the server is up the old data has been migrated, and the caches are those the next
\* start would load.
LEMMA ServingState ==
    ASSUME Inv, DataInv, step \in Serving
    PROVE  Migrated /\ cache = Loaded
  <1>1. step \notin Before /\ step \notin Unloaded
    BY ServingNames, StepNames DEF Serving, Before, WriteSteps, Up, Down
  <1> QED BY <1>1 DEF DataInv, Unmigrated, Inv, LoadedInv

\* A write comes to its CREATE TABLE when it knows all of its columns.
LEMMA AfterColumnsKnows ==
    ASSUME NEW known, AfterColumns(known) = <<"write", "create">>
    PROVE  write.columns \subseteq known
  BY DEF AfterColumns

\* The steps of a write that leave tables and columns alone.
LEMMA BeginKeepsData ==
    ASSUME Inv, DataInv, WriteInv, MemoryOK,
           \/ \E db \in Databases, m \in Measurements, columns \in Shapes : BeginWrite(db, m, columns)
           \/ CreateSchema \/ InsertDatabase \/ EnsureWritePolicies \/ InsertBatch
    PROVE  DataInv' /\ WriteInv'
  <1>1. ASSUME NEW db \in Databases, NEW m \in Measurements, NEW columns \in Shapes,
               BeginWrite(db, m, columns)
        PROVE  DataInv' /\ WriteInv'
    <2>1. /\ step = Up /\ step' \in {<<"write", "policies">>, <<"write", "schema">>}
          /\ UNCHANGED <<metaRows, tables, oldData>>
          /\ write'.key = <<db, m>> /\ write'.was = cache[<<db, m>>]
      BY <1>1 DEF BeginWrite, Opened, postgres
    <2>2. DataInv'
      BY <2>1, DataKept DEF Up, Before, Down
    <2>3. <<db, m>> \in Databases \X Measurements /\ Migrated /\ cache = Loaded
      BY <2>1, ServingState, ServingNames
    <2>4. tables[<<db, m>>] \in {NoTable, cache[<<db, m>>]}
      BY <2>1, <2>3 DEF Migrated, Held, Up
    <2>5. WriteInv'
      BY <2>1, <2>4 DEF WriteInv
    <2> QED BY <2>2, <2>5
  <1>2. CASE CreateSchema \/ InsertDatabase
    <2>1. /\ step \in {<<"write", "schema">>, <<"write", "dbRow">>} /\ step \in WriteSteps
          /\ UNCHANGED <<metaRows, tables, oldData>>
          /\ step' \in {<<"write", "dbRow">>, <<"write", "policies">>, Up}
          /\ step' # Up => write' = write
      BY <1>2 DEF CreateSchema, InsertDatabase, RegisterDatabase, Answered, postgres, WriteSteps
    <2>2. DataInv'
      BY <2>1, DataKept DEF Up, Before, Down
    <2>3. WriteInv'
      BY <2>1, StepNames DEF WriteInv, Up
    <2> QED BY <2>2, <2>3
  <1>3. CASE EnsureWritePolicies
    <2>1. /\ step = <<"write", "policies">> /\ step \in WriteSteps
          /\ step' = AfterColumns(Known(write.key))
          /\ UNCHANGED <<metaRows, tables, oldData, cache, write>>
      BY <1>3 DEF EnsureWritePolicies, EnsurePolicies, WriteSteps
    <2>2. step' \in {<<"write", "create">>, <<"write", "record">>}
      BY <2>1, AfterColumnsStep
    <2>3. step' = <<"write", "create">> => write.columns \subseteq Known(write.key)
      BY <2>1, AfterColumnsKnows
    <2>4. DataInv'
      BY <2>1, <2>2, DataKept DEF Before, Down
    <2>5. WriteInv'
      BY <2>1, <2>2, <2>3 DEF WriteInv, Known
    <2> QED BY <2>4, <2>5
  <1>4. CASE InsertBatch
    <2>1. step = <<"write", "insert">> /\ step' = Up /\ UNCHANGED <<metaRows, tables, oldData>>
      BY <1>4 DEF InsertBatch, Answered, postgres
    <2>2. DataInv'
      BY <2>1, DataKept DEF Up, Before, Down
    <2>3. WriteInv'
      BY <2>1, StepNames DEF WriteInv, Up
    <2> QED BY <2>2, <2>3
  <1> QED BY <1>1, <1>2, <1>3, <1>4

\* A column is recorded before it is added to the table.
LEMMA RecordKeepsData ==
    ASSUME KeyIsReplaced, InsertsWork, Inv, DataInv, WriteInv, MemoryOK,
           NEW c \in Columns, RecordColumn(c)
    PROVE  DataInv' /\ WriteInv'
  <1> DEFINE k == write.key
  <1>1. step = <<"write", "record">> /\ step \in WriteSteps /\ step \in Serving
    BY ServingNames DEF RecordColumn, WriteSteps
  <1>2. Migrated /\ cache = Loaded /\ cache' = Loaded' /\ write \in Writes
    BY <1>1, ServingState, RecordKeeps DEF MemoryOK
  <1>3. k \in Databases \X Measurements
    BY <1>2 DEF Writes
  <1>4. UNCHANGED <<tables, oldData>> /\ c \notin Known(k)
    BY DEF RecordColumn
  <1>5. /\ metaRows' = metaRows \cup {<<k[1], k[2], c>>}
        /\ \A j \in Keys : cache'[j] = IF j = k THEN Known(j) \cup {c} ELSE cache[j]
        /\ cache'[k] = Known(k) \cup {c} /\ cache'[k] \in SUBSET Columns
    BY RecordKeeps
  <1>6. Known(k)' = Known(k) \cup {c} /\ write'.key = k /\ write'.was = write.was
        /\ write'.columns = write.columns
    <2>1. write' = write \/ write' = [write EXCEPT !.adding = {c}]
      BY DEF RecordColumn
    <2>2. write'.key = k /\ write'.was = write.was /\ write'.columns = write.columns
      BY <1>2, <2>1 DEF Writes
    <2>3. cache'[k] # NoTable
      BY <1>5, StartupAssumption
    <2> QED BY <1>5, <2>2, <2>3 DEF Known
  <1>7. TypeData'
    <2>1. <<k[1], k[2], c>> \in (Databases \cup {Unassigned}) \X Measurements \X Columns
      BY <1>3
    <2> QED BY <1>4, <1>5, <2>1 DEF DataInv, TypeData
  <1>8. InPublic' = InPublic
    BY <1>4 DEF InPublic
  <1>9. \A r \in metaRows' : r[1] # Unassigned
    BY <1>2, <1>3, <1>5, SchemaParts DEF Migrated
  <1>10. tables[k] \in {NoTable, cache[k]}
    BY <1>1, <1>2, <1>3 DEF Migrated, Held
  <1>11. \A j \in Databases \X Measurements :
            j # k => tables'[j] \in {NoTable, Loaded'[j]}
    BY <1>1, <1>2, <1>4, <1>5, SchemaParts DEF Migrated, Held
  <1>12. CASE write.was # NoTable
    <2>1. step' = <<"write", "alter">> /\ write' = [write EXCEPT !.adding = {c}]
      BY <1>12 DEF RecordColumn
    <2>2. write'.adding = {c}
      BY <1>2, <2>1 DEF Writes
    <2>3. tables'[k] \in {NoTable, Loaded'[k] \ {c}}
      BY <1>2, <1>4, <1>5, <1>10 DEF Known
    <2>4. Migrated'
      <3>1. \A j \in Databases \X Measurements : tables'[j] \in {NoTable, Held(j)'}
        BY <1>6, <1>11, <2>1, <2>2, <2>3 DEF Held
      <3> QED BY <1>2, <1>4, <1>8, <1>9, <2>1, <3>1 DEF Migrated
    <2>5. WriteInv'
      BY <1>6, <1>12, <2>1, <2>2 DEF WriteInv
    <2> QED BY <1>7, <2>4, <2>5 DEF DataInv
  <1>13. CASE write.was = NoTable
    <2>1. step' = AfterColumns(Known(k) \cup {c}) /\ write' = write
      BY <1>13 DEF RecordColumn
    <2>2. step' \in {<<"write", "create">>, <<"write", "record">>}
      BY <2>1, AfterColumnsStep
    <2>3. tables[k] = NoTable
      BY <1>1, <1>13 DEF WriteInv
    <2>4. Migrated'
      <3>1. \A j \in Databases \X Measurements : tables'[j] \in {NoTable, Held(j)'}
        BY <1>4, <1>11, <2>2, <2>3 DEF Held
      <3> QED BY <1>2, <1>4, <1>8, <1>9, <2>2, <3>1 DEF Migrated
    <2>5. step' = <<"write", "create">> => write.columns \subseteq Known(k)'
      BY <1>6, <2>1, AfterColumnsKnows
    <2>6. WriteInv'
      BY <1>4, <2>1, <2>2, <2>3, <2>5 DEF WriteInv
    <2> QED BY <1>7, <2>4, <2>6 DEF DataInv
  <1> QED BY <1>12, <1>13

\* The table gets the columns it lacks, or is created with all of them.
LEMMA TableKeepsData ==
    ASSUME PublicIsApart, ColumnsAreAdded, Inv, DataInv, WriteInv, MemoryOK,
           AddColumn \/ CreateTable
    PROVE  DataInv' /\ WriteInv'
  <1> DEFINE k == write.key
  <1>1. /\ step \in {<<"write", "alter">>, <<"write", "create">>}
        /\ step \in WriteSteps /\ step \in Serving
    BY ServingNames DEF AddColumn, CreateTable, WriteSteps
  <1>2. Migrated /\ cache = Loaded /\ write \in Writes
    BY <1>1, ServingState DEF MemoryOK
  <1>3. /\ k \in Databases \X Measurements /\ k \in Schemas \X Measurements /\ k \in Keys
        /\ write.adding \subseteq Columns /\ write.columns # {}
    BY <1>2, SchemaParts, StartupAssumption DEF Writes
  <1>4. UNCHANGED <<metaRows, oldData, cache>>
    BY DEF AddColumn, CreateTable
  <1>5. Loaded' = Loaded /\ (\A j : Known(j)' = Known(j))
    BY <1>4 DEF Loaded, ColumnsOf, Known
  <1>6. Known(k) \in SUBSET Columns /\ (Known(k) # {} => Known(k) = Loaded[k])
    BY <1>2, <1>3, SomeColumns DEF Known, Loaded
  <1>9. (AddColumn => step' # Up) /\ (step' = Up => tables' = tables)
    BY <1>1, AfterColumnsStep DEF AddColumn, CreateTable, Up
  <1>7. CASE tables' = tables /\ step' = Up
    <2>1. step = <<"write", "create">>
      BY <1>7, <1>9 DEF CreateTable
    <2>2. DataInv'
      BY <1>4, <1>7, <2>1, DataKept DEF Up, Before, Down
    <2> QED BY <1>7, <2>2, StepNames DEF WriteInv, Up
  <1>8. CASE step' # Up
    <2> DEFINE new == IF tables[k] # NoTable
                      THEN IF step = <<"write", "alter">> THEN tables[k] \cup write.adding
                                                          ELSE tables[k]
                      ELSE IF step = <<"write", "alter">> THEN NoTable ELSE Known(k)
    <2>1. tables' = [tables EXCEPT ![k] = new]
      BY <1>1, <1>8 DEF AddColumn, CreateTable, Answered, Fails, ColumnsAreAdded
    <2>2. new \in {NoTable, Loaded[k]} /\ (step = <<"write", "create">> => new # NoTable)
      <3>1. tables[k] \in {NoTable, Held(k)}
        BY <1>2, <1>3 DEF Migrated
      <3>2. CASE step = <<"write", "alter">>
        <4>1. write.adding \subseteq Known(k)
          BY <3>2 DEF WriteInv
        <4>2. CASE tables[k] = NoTable
          BY <3>2, <4>2
        <4>3. CASE tables[k] # NoTable /\ Loaded[k] # NoTable
          <5>1. tables[k] = Loaded[k] \ write.adding /\ Loaded[k] = Known(k)
            BY <1>2, <3>1, <3>2, <4>3 DEF Held, Known
          <5> QED BY <3>2, <4>1, <4>3, <5>1
        <4>4. CASE tables[k] # NoTable /\ Loaded[k] = NoTable
          <5>1. write.adding = {}
            BY <1>2, <4>1, <4>4 DEF Known
          <5>2. tables[k] \in SUBSET Columns
            BY <1>3, <4>4 DEF DataInv, TypeData
          <5>3. tables[k] = NoTable \ {}
            BY <3>1, <3>2, <4>4, <5>1 DEF Held
          <5>4. NoTable \ {} = NoTable
            OBVIOUS
          <5> QED BY <4>4, <5>3, <5>4
        <4> QED BY <4>2, <4>3, <4>4
      <3>3. CASE step = <<"write", "create">>
        <4>1. Known(k) # {}
          BY <1>3, <3>3 DEF WriteInv
        <4>2. Known(k) = Loaded[k] /\ Known(k) # NoTable
          BY <1>6, <4>1, StartupAssumption
        <4>3. tables[k] \in {NoTable, Loaded[k]}
          BY <3>1, <3>3 DEF Held
        <4> QED BY <3>3, <4>2, <4>3
      <3> QED BY <1>1, <3>2, <3>3
    <2>13. /\ tables[k] # NoTable => new # NoTable
           /\ step = <<"write", "alter">> /\ tables[k] = NoTable => new = NoTable
      <3>1. tables[k] # NoTable => tables[k] \in SUBSET Columns
        BY <1>3 DEF DataInv, TypeData
      <3> QED BY <1>3, <3>1, StartupAssumption
    <2> HIDE DEF new
    <2>3. /\ \A j \in Schemas \X Measurements : j # k => tables'[j] = tables[j]
          /\ tables'[k] = new
      BY <1>3, <2>1 DEF DataInv, TypeData
    <2>4. step' \in {<<"write", "create">>, <<"write", "record">>, <<"write", "insert">>}
      BY <1>1, <1>8, AfterColumnsStep DEF AddColumn, CreateTable, Answered
    <2>5. \A j \in Databases \X Measurements : tables'[j] \in {NoTable, Held(j)'}
      BY <1>2, <1>5, <2>2, <2>3, <2>4, SchemaParts DEF Migrated, Held
    <2>6. InPublic' = InPublic
      <3>1. \A m \in Measurements : <<Public, m>> # k /\ <<Public, m>> \in Schemas \X Measurements
        <4>1. k[1] # Public
          BY <1>3 DEF PublicIsApart
        <4>2. ASSUME NEW m \in Measurements PROVE <<Public, m>>[1] = Public
          OBVIOUS
        <4>3. ASSUME NEW m \in Measurements PROVE <<Public, m>> # k
          BY <4>1, <4>2
        <4>4. ASSUME NEW m \in Measurements PROVE <<Public, m>> \in Schemas \X Measurements
          BY SchemaParts
        <4> QED BY <4>3, <4>4
      <3> QED BY <2>3, <3>1 DEF InPublic
    <2>7. \A m \in DOMAIN oldData : tables'[<<Default, m>>] # NoTable
      <3> SUFFICES ASSUME NEW m \in DOMAIN oldData PROVE tables'[<<Default, m>>] # NoTable
        OBVIOUS
      <3>1. /\ m \in Measurements /\ tables[<<Default, m>>] # NoTable
            /\ <<Default, m>> \in Schemas \X Measurements
        BY <1>2, SchemaParts DEF Migrated
      <3>2. CASE k = <<Default, m>>
        BY <2>3, <2>13, <3>1, <3>2
      <3> QED BY <2>3, <3>1, <3>2
    <2>8. Migrated'
      BY <1>2, <1>4, <2>4, <2>5, <2>6, <2>7 DEF Migrated
    <2>9. TypeData'
      <3>1. Loaded[k] \in (SUBSET Columns) \cup {NoTable}
        BY <1>3, SomeColumns DEF Loaded
      <3> QED BY <1>3, <1>4, <2>1, <2>2, <3>1 DEF DataInv, TypeData
    <2>10. write'.key = k /\ write'.was = write.was /\ write'.columns = write.columns
      <3>1. write' = write \/ write' = [write EXCEPT !.adding = {}]
        BY <1>8 DEF AddColumn, CreateTable, Answered
      <3> QED BY <1>2, <3>1 DEF Writes
    <2>11. WriteInv'
      <3>1. CASE step = <<"write", "alter">>
        <4>1. AddColumn
          BY <3>1 DEF CreateTable
        <4>2. /\ step' = AfterColumns(Known(k))
              /\ step' \in {<<"write", "create">>, <<"write", "record">>}
          BY <4>1, AfterColumnsStep DEF AddColumn
        <4>3. step' = <<"write", "create">> => write.columns \subseteq Known(k)
          BY <4>2, AfterColumnsKnows
        <4>4. write.was = NoTable => tables'[k] = NoTable
          BY <1>1, <2>3, <2>13, <3>1 DEF WriteInv
        <4> QED BY <1>5, <2>10, <4>2, <4>3, <4>4 DEF WriteInv
      <3>2. CASE step = <<"write", "create">>
        <4>1. step' = <<"write", "insert">>
          BY <1>8, <3>2 DEF AddColumn, CreateTable, Answered
        <4>2. write.columns \subseteq Known(k) /\ tables'[k] # NoTable
          BY <2>2, <2>3, <3>2 DEF WriteInv
        <4> QED BY <1>5, <2>10, <4>1, <4>2 DEF WriteInv
      <3> QED BY <1>1, <3>1, <3>2
    <2> QED BY <2>8, <2>9, <2>11 DEF DataInv
  <1> QED BY <1>7, <1>8, <1>9

\* The other steps of main.
LEMMA RestOfMainKeepsData ==
    ASSUME MigrationIsWhole, DataInv,
           \/ Start \/ \E c \in Catalogs : AddDbName(c) \/ DropKey(c) \/ AddKey(c)
           \/ RenameColumn \/ LoadSchemas \/ EnsureDefault \/ RegisterDefault \/ Reload
           \/ LoadPolicies \/ EnsureDefaultPolicies
    PROVE  DataInv'
  <1>1. CASE Start
    BY <1>1, DataKept DEF Start, postgres, Before, Down
  <1>2. ASSUME NEW c \in Catalogs, AddDbName(c) \/ DropKey(c) \/ AddKey(c)
        PROVE  DataInv'
    <2>1. UNCHANGED <<metaRows, tables, oldData>>
      BY <1>2 DEF AddDbName, DropKey, AddKey
    <2>2. /\ step \in {<<c, "addDb">>, <<c, "dropKey">>, <<c, "addKey">>}
          /\ step' \in {Down, <<c, "dropKey">>, <<c, "addKey">>, <<c, "load">>}
      BY <1>2 DEF AddDbName, DropKey, AddKey, Exits
    <2>3. CASE c = "meta"
      BY <2>1, <2>2, <2>3, DataKept DEF Before, Down
    <2>4. CASE c = "policy"
      BY <2>1, <2>2, <2>4, DataKept DEF Before, Down
    <2> QED BY <2>3, <2>4 DEF Catalogs
  <1>3. CASE RenameColumn \/ LoadPolicies \/ EnsureDefaultPolicies
    <2>1. UNCHANGED <<metaRows, tables, oldData>>
      BY <1>3 DEF RenameColumn, LoadPolicies, EnsureDefaultPolicies, EnsurePolicies, postgres
    <2>2. /\ step \in {<<"policy", "rename">>, <<"policy", "load">>, <<"main", "ensurePolicies">>}
          /\ step' \in {Down, Up, <<"policy", "addDb">>, <<"main", "ensurePolicies">>}
      BY <1>3 DEF RenameColumn, LoadPolicies, EnsureDefaultPolicies, Exits
    <2> QED BY <2>1, <2>2, DataKept DEF Before, Down, Up
  <1>4. CASE LoadSchemas \/ EnsureDefault \/ RegisterDefault \/ Reload
    <2>1. UNCHANGED <<metaRows, tables, oldData>>
      BY <1>4 DEF LoadSchemas, EnsureDefault, RegisterDefault, RegisterDatabase, Reload, postgres
    <2>2. \/ /\ step \in {<<"meta", "load">>, <<"main", "ensureDb">>, <<"main", "ensureRow">>}
             /\ step' \in {Down, <<"main", "ensureDb">>, <<"main", "ensureRow">>, <<"main", "list">>}
          \/ step = <<"main", "reload">> /\ step' = <<"policy", "rename">>
      BY <1>4 DEF LoadSchemas, EnsureDefault, RegisterDefault, Reload, Exits
    <2> QED BY <2>1, <2>2, DataKept DEF Before, Down
  <1> QED BY <1>1, <1>2, <1>3, <1>4

LEMMA DataStep ==
    ASSUME KeyIsReplaced, InsertsWork, PublicIsApart, MigrationIsWhole, ColumnsAreAdded,
           Inv, MemoryOK, DataInv, WriteInv, [Next]_vars
    PROVE  DataInv' /\ WriteInv'
  <1>1. CASE UNCHANGED vars
    <2>1. UNCHANGED <<metaRows, tables, oldData, step, listed, cache, write>>
      BY <1>1 DEF vars, postgres, memory
    <2>2. /\ InPublic' = InPublic /\ Loaded' = Loaded
          /\ \A m \in Measurements : OldColumns(m)' = OldColumns(m)
      BY <2>1 DEF InPublic, Loaded, ColumnsOf, OldColumns
    <2>3. Unmigrated => Unmigrated'
      BY <2>1, <2>2 DEF Unmigrated
    <2>4. Migrated => Migrated'
      BY <2>1, <2>2 DEF Migrated, Held
    <2>5. WriteInv'
      BY <2>1 DEF WriteInv, Known
    <2> QED BY <2>1, <2>3, <2>4, <2>5 DEF DataInv, TypeData
  <1>2. CASE MainStep \/ Die
    <2>1. WriteInv'
      BY <1>2, NotWriting DEF WriteInv, WriteSteps
    <2>2. CASE MainStep
      BY <2>1, <2>2, ListKeeps, MoveKeeps, AssignKeeps, RestOfMainKeepsData DEF MainStep
    <2>3. CASE Die
      <3>1. /\ step \notin {<<"main", "assign">>, <<"write", "alter">>} /\ step' = Down
            /\ UNCHANGED <<metaRows, tables, oldData>>
        BY <2>3 DEF Die, postgres, MigrationIsWhole, ColumnsAreAdded
      <3>2. DataInv'
        BY <3>1, DataKept DEF Before, Down
      <3> QED BY <2>1, <3>2
    <2> QED BY <1>2, <2>2, <2>3
  <1>3. CASE WriteStep
    BY <1>3, BeginKeepsData, RecordKeepsData, TableKeepsData DEF WriteStep
  <1> QED BY <1>1, <1>2, <1>3 DEF Next

LEMMA DataAlways ==
    ASSUME KeyIsReplaced, InsertsWork, PublicIsApart, MigrationIsWhole, ColumnsAreAdded
    PROVE  Spec => [](Inv /\ MemoryOK /\ DataInv /\ WriteInv)
  <1>1. Init => Inv /\ MemoryOK /\ DataInv /\ WriteInv
    <2> SUFFICES ASSUME Init PROVE Inv /\ MemoryOK /\ DataInv /\ WriteInv
      OBVIOUS
    <2>1. WriteInv
      BY StepNames DEF Init, WriteInv, Down
    <2> QED BY <2>1, FirstInv, FirstData
  <1>2. Inv /\ MemoryOK /\ DataInv /\ WriteInv /\ [Next]_vars
           => (Inv /\ MemoryOK /\ DataInv /\ WriteInv)'
    BY InvStep, MemoryStep, DataStep
  <1> QED BY <1>1, <1>2, PTL DEF Spec

\* The rows of the old version are in the default database's tables once the server is
\* up, with all of their columns known, however often a start or a write was cut short and at
\* whatever other step.  The starts that went before decide which tables are in which
\* schema (Unmigrated), the UPDATE from when on it no longer matters.
THEOREM OldDataIsServed ==
    ASSUME KeyIsReplaced, InsertsWork, PublicIsApart, MigrationIsWhole, ColumnsAreAdded
    PROVE  Spec => []OldDataServed
  <1>1. Inv /\ DataInv => OldDataServed
    <2> SUFFICES ASSUME Inv, DataInv, step = Up, NEW m \in DOMAIN oldData
                 PROVE  oldData[m] = Default /\ cache[<<Default, m>>] = tables[<<Default, m>>]
      BY DEF OldDataServed
    <2>1. Migrated /\ cache = Loaded
      BY ServingState, ServingNames
    <2>2. /\ m \in Measurements /\ oldData[m] = Default /\ tables[<<Default, m>>] # NoTable
          /\ tables[<<Default, m>>] \in {NoTable, Held(<<Default, m>>)}
      BY <2>1, SchemaParts DEF Migrated
    <2>3. Held(<<Default, m>>) = Loaded[<<Default, m>>]
      BY DEF Held, Up
    <2> QED BY <2>1, <2>2, <2>3
  <1> QED BY <1>1, DataAlways, PTL

\* No record is refused for a column: the columns the proxy believes a table to have are those
\* it has, so that EnsureTable adds every column that is missing, also after a restart in the
\* middle of another EnsureTable.  The one place that is excluded is between the record of a
\* column and its ALTER TABLE (ColumnsAreAdded): there the claim is false of the code.
THEOREM TablesStayWritable ==
    ASSUME KeyIsReplaced, InsertsWork, PublicIsApart, MigrationIsWhole, ColumnsAreAdded
    PROVE  Spec => []Writable
  <1>1. Inv /\ MemoryOK /\ DataInv /\ WriteInv => Writable
    <2> SUFFICES ASSUME Inv, MemoryOK, DataInv, WriteInv, step = <<"write", "insert">>
                 PROVE  /\ write.columns \subseteq Known(write.key)
                        /\ tables[write.key] # NoTable /\ Known(write.key) \subseteq tables[write.key]
      BY DEF Writable
    <2>1. step \in WriteSteps /\ step \in Serving
      BY ServingNames DEF WriteSteps
    <2>2. Migrated /\ cache = Loaded /\ write.key \in Databases \X Measurements
      BY <2>1, ServingState DEF MemoryOK, Writes
    <2>3. /\ write.columns \subseteq Known(write.key) /\ tables[write.key] # NoTable
      BY DEF WriteInv
    <2>4. tables[write.key] = cache[write.key]
      BY <2>2, <2>3 DEF Migrated, Held
    <2> QED BY <2>3, <2>4 DEF Known
  <1> QED BY <1>1, DataAlways, PTL

=============================================================================
