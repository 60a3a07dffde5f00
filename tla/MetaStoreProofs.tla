--------------------------- MODULE MetaStoreProofs ---------------------------
(***************************************************************************)
(* Proofs about MetaStore, for any number of goroutines, databases,        *)
(* measurements and columns: type correctness and m.mu, then the other     *)
(* safety invariants.  Each theorem names the statements and the faults    *)
(* without which its invariant holds: at most those its run leaves out.    *)
(***************************************************************************)
EXTENDS MetaStore, TLAPS

USE OpAssumption, FaultAssumption, BatchAssumption, NoneAssumption

WriteLabels == {"check", "schema", "dbRow", "cacheDb", "pick"}
TableLabels == {"lockTable", "column", "alter", "hypertable", "chunks", "lookup", "list",
                "insert"}
DropLabels == {"lockDrop", "dropRow", "dropSchema", "dropMeta"}
CreateLabels == {"lockCreate", "createSchema", "createRow"}

\* What the local variables of a goroutine hold at each of its steps.
LocalOK(r) ==
    /\ r.pc \in WriteLabels \cup TableLabels =>
          r.req.op = "write" /\ r.todo \subseteq DOMAIN r.req.batch
    /\ r.pc \in TableLabels => r.at \in DOMAIN r.req.batch
    /\ r.pc \in {"dropTable", "dropTableMeta"} =>
          r.req.op = "dropMeasurement" /\ r.at \in Measurements
    /\ r.pc \in DropLabels => r.req.op = "dropDb"
    /\ r.pc \in CreateLabels => r.req.op = "createDb"
    /\ r.pc = "policies" /\ r.req.op = "write" => r.todo \subseteq DOMAIN r.req.batch
    /\ r.pc = "alter" => r.adding \in Columns
LocalsOK == \A p \in Procs : LocalOK(go[p])

-----------------------------------------------------------------------------
\* A goroutine that is at a step of a handler runs.
LEMMA RunningAt ==
    ASSUME TypeOK, NEW p \in Procs, go[p].pc \in PCs
    PROVE  go[p] \in Running
  BY DEF TypeOK, Idle, PCs, Holding

\* A request is a record whose batch, if it has one, is a batch.
LEMMA RequestFields ==
    ASSUME NEW r \in Requests
    PROVE  /\ r.op \in OpKinds /\ r.op \in Ops /\ r.db \in Dbs
           /\ r.op = "write" => r.batch \in Batches
           /\ r.op = "dropMeasurement" => r.m \in Measurements
  BY DEF Requests, OpKinds

\* A request that arrives starts its handler with well-typed locals.
LEMMA StartedRunning ==
    ASSUME NEW r \in Requests
    PROVE  /\ Started(r) \in Running /\ LocalOK(Started(r))
           /\ Started(r).pc \notin Holding
  <1>1. EntryPoint[r.op] \in PCs \ (TableLabels \cup Holding)
    BY RequestFields DEF EntryPoint, PCs, Holding, TableLabels, OpKinds
  <1>2. EntryPoint[r.op] \in WriteLabels <=> r.op = "write"
    BY RequestFields DEF EntryPoint, WriteLabels, OpKinds
  <1>3. EntryPoint[r.op] \in {"dropTable", "dropTableMeta"} <=> r.op = "dropMeasurement"
    BY RequestFields DEF EntryPoint, OpKinds
  <1>7. EntryPoint[r.op] \in DropLabels <=> r.op = "dropDb"
    BY RequestFields DEF EntryPoint, OpKinds, DropLabels
  <1>8. EntryPoint[r.op] \in CreateLabels <=> r.op = "createDb"
    BY RequestFields DEF EntryPoint, OpKinds, CreateLabels
  <1>4. r.op = "write" => DOMAIN r.batch \subseteq Measurements
    BY RequestFields
  <1>5. Started(r) \in Running /\ Started(r).pc = EntryPoint[r.op]
    <2>1. (IF r.op = "write" THEN DOMAIN r.batch ELSE {}) \in SUBSET Measurements
      BY <1>4
    <2>2. (IF r.op = "dropMeasurement" THEN r.m ELSE None) \in Measurements \cup {None}
      BY RequestFields
    <2>3. \A e \in PCs, todo \in SUBSET Measurements, at \in Measurements \cup {None} :
             [pc |-> e, req |-> r, todo |-> todo, at |-> at, existed |-> FALSE,
              missing |-> {}, adding |-> None, listed |-> {}] \in Running
      BY DEF Running
    <2> QED BY <1>1, <2>1, <2>2, <2>3, Zenon DEF Started
  <1>6. LocalOK(Started(r))
    <2>1. /\ Started(r).req = r
          /\ r.op = "write" => Started(r).todo = DOMAIN r.batch
          /\ r.op = "dropMeasurement" => Started(r).at = r.m
      BY DEF Started
    <2>2. Started(r).pc \notin TableLabels /\ Started(r).pc \notin {"alter", "policies"}
      <3>1. EntryPoint[r.op] # "policies"
        BY RequestFields DEF EntryPoint, OpKinds
      <3> QED BY <1>1, <1>5, <3>1 DEF TableLabels
    <2> QED BY <1>2, <1>3, <1>5, <1>7, <1>8, <2>1, <2>2, RequestFields DEF LocalOK
  <1> QED BY <1>1, <1>5, <1>6

\* The table a goroutine works on is a table.
LEMMA TableOfType ==
    ASSUME TypeOK, NEW p \in Procs, go[p].pc \in PCs, go[p].at \in Measurements
    PROVE  TableOf(p) \in Tables /\ DbOf(p) \in Dbs
  BY RunningAt, RequestFields DEF TableOf, DbOf, Tables, Running

LEMMA WritesTable ==
    ASSUME TypeOK, LocalsOK, NEW p \in Procs, go[p].pc \in TableLabels
    PROVE  /\ go[p] \in Running /\ TableOf(p) \in Tables /\ DbOf(p) \in Dbs
           /\ go[p].at \in Measurements
           /\ SchemaRecord(p) \subseteq Columns
           /\ \A r \in Records(p) : r \subseteq Columns
  <1>1. go[p] \in Running
    BY RunningAt DEF PCs, TableLabels, Holding
  <1>2. go[p].req.op = "write" /\ go[p].at \in DOMAIN go[p].req.batch
    BY DEF LocalsOK, LocalOK
  <1>3. go[p].req.batch \in Batches /\ go[p].req.db \in Dbs
    BY <1>1, <1>2, RequestFields DEF Running
  <1>4. go[p].at \in Measurements
    BY <1>2, <1>3
  <1>5. /\ go[p].req.batch[go[p].at] \in Seq(SUBSET Columns)
        /\ go[p].req.batch[go[p].at] # <<>>
    BY <1>2, <1>3
  <1> QED BY <1>1, <1>3, <1>4, <1>5 DEF TableOf, Tables, DbOf, SchemaRecord, Records

\* A step that leaves goroutine p with the locals r, and the others alone.
LEMMA UpdateKeeps ==
    ASSUME TypeOK, LocalsOK, NEW p \in Procs, NEW r \in Running \cup {Idle}, LocalOK(r),
           go' = [go EXCEPT ![p] = r]
    PROVE  /\ go' \in [Procs -> Running \cup {Idle}]
           /\ LocalsOK'
           /\ go'[p] = r
           /\ \A q \in Procs : q # p => go'[q] = go[q]
  <1>1. /\ go' \in [Procs -> Running \cup {Idle}]
        /\ go'[p] = r
        /\ \A q \in Procs : q # p => go'[q] = go[q]
    BY DEF TypeOK
  <1>2. LocalsOK'
    BY <1>1 DEF LocalsOK
  <1> QED BY <1>1, <1>2

\* A step that only changes where goroutine p is, to another step of its handler.
LEMMA MoveKeeps ==
    ASSUME TypeOK, LocalsOK, NEW p \in Procs, go[p].pc \in PCs, NEW label \in PCs,
           \/ label \in WriteLabels \cup TableLabels => go[p].pc \in WriteLabels \cup TableLabels
           \/ label = "pick" /\ go[p].pc = "policies" /\ go[p].req.op = "write",
           label = "policies" => go[p].pc \in WriteLabels \cup DropLabels \cup CreateLabels,
           label \in CreateLabels => go[p].pc \in CreateLabels,
           label \in TableLabels => go[p].pc \in TableLabels,
           label = "dropTableMeta" => go[p].pc = "dropTable",
           label \in DropLabels => go[p].pc \in DropLabels,
           label \notin {"alter", "dropTable"},
           Goto(p, label)
    PROVE  /\ go' \in [Procs -> Running \cup {Idle}]
           /\ LocalsOK'
           /\ go'[p].pc = label /\ go'[p].req = go[p].req /\ go'[p].at = go[p].at
           /\ \A q \in Procs : q # p => go'[q] = go[q]
  <1>1. go[p] \in Running
    BY RunningAt
  <1> DEFINE r == [go[p] EXCEPT !.pc = label]
  <1>2. r \in Running /\ r.pc = label /\ r.req = go[p].req /\ r.at = go[p].at /\ r.todo = go[p].todo
    BY <1>1 DEF Running
  <1>3. go' = [go EXCEPT ![p] = r]
    BY DEF Goto, TypeOK
  <1> HIDE DEF r
  <1>4. LocalOK(r)
    BY <1>2 DEF LocalsOK, LocalOK, WriteLabels, TableLabels, DropLabels, CreateLabels
  <1> QED BY <1>2, <1>3, <1>4, UpdateKeeps

\* A step that ends the request of goroutine p.
LEMMA ReturnKeeps ==
    ASSUME TypeOK, LocalsOK, NEW p \in Procs, Return(p)
    PROVE  /\ go' \in [Procs -> Running \cup {Idle}]
           /\ LocalsOK'
           /\ go'[p] = Idle /\ go'[p].pc = "idle"
           /\ \A q \in Procs : q # p => go'[q] = go[q]
  <1>1. Idle.pc = "idle" /\ LocalOK(Idle)
    BY DEF Idle, LocalOK, WriteLabels, TableLabels, DropLabels, CreateLabels
  <1> QED BY <1>1, UpdateKeeps DEF Return

\* The ways a step of goroutine p treats m.mu: it keeps it or leaves it alone, it
\* takes it free, it frees it.
LEMMA MutexKeeps ==
    ASSUME MutexHeld, NEW p \in Procs, \A q \in Procs : q # p => go'[q] = go[q],
           \/ mu' = mu /\ (go'[p].pc \in Holding <=> go[p].pc \in Holding)
           \/ mu = None /\ mu' = p /\ go'[p].pc \in Holding
           \/ go[p].pc \in Holding /\ mu' = None /\ go'[p].pc \notin Holding
    PROVE  MutexHeld'
  BY DEF MutexHeld

-----------------------------------------------------------------------------
(* Type correctness and the mutex, one lemma per handler.                   *)

\* EnsureTable works on a cached schema, that no other goroutine can evict meanwhile.
CachedHere == \A p \in Procs : go[p].pc \in {"column", "alter"} => tables[TableOf(p)] # None

Base == TypeOK /\ LocalsOK /\ MutexHeld /\ CachedHere

\* A step of goroutine p keeps the mutex and the cached schemas under it, if it treats
\* m.mu in one of the ways above, evicts schemas only while p holds m.mu, and leaves p
\* itself in EnsureTable only with its schema cached.
LEMMA StepKeeps ==
    ASSUME Base, NEW p \in Procs, \A q \in Procs : q # p => go'[q] = go[q],
           \/ mu' = mu /\ (go'[p].pc \in Holding <=> go[p].pc \in Holding)
           \/ mu = None /\ mu' = p /\ go'[p].pc \in Holding
           \/ go[p].pc \in Holding /\ mu' = None /\ go'[p].pc \notin Holding,
           \/ \A t \in Tables : tables[t] # None => tables'[t] # None
           \/ go[p].pc \in Holding,
           go'[p].pc \in {"column", "alter"} => tables'[TableOf(p)'] # None
    PROVE  MutexHeld' /\ CachedHere'
  <1>1. MutexHeld'
    BY MutexKeeps DEF Base
  <1>2. ASSUME NEW q \in Procs, q # p, go'[q].pc \in {"column", "alter"}
        PROVE  tables'[TableOf(q)'] # None
    <2>1. go[q].pc \in {"column", "alter"} /\ TableOf(q)' = TableOf(q)
      BY <1>2 DEF TableOf
    <2>2. TableOf(q) \in Tables /\ tables[TableOf(q)] # None
      BY <2>1, WritesTable DEF TableLabels, Base, CachedHere
    <2>3. mu = q
      BY <2>1 DEF Base, MutexHeld, Holding
    <2>4. go[p].pc \notin Holding
      BY <2>3, <1>2 DEF Base, MutexHeld
    <2> QED BY <2>1, <2>2, <2>4
  <1>3. CachedHere'
    BY <1>2 DEF CachedHere
  <1> QED BY <1>1, <1>3

LEMMA BaseReceive ==
    ASSUME Base, NEW p \in Procs, NEW r \in Requests, Receive(p, r)
    PROVE  Base'
  <1> USE DEF Base
  <1>1. go' = [go EXCEPT ![p] = Started(r)] /\ go[p].pc = "idle" /\ mu' = mu
    BY DEF Receive, At, memory
  <1>2. /\ go' \in [Procs -> Running \cup {Idle}] /\ LocalsOK' /\ go'[p] = Started(r)
        /\ \A q \in Procs : q # p => go'[q] = go[q]
    BY <1>1, StartedRunning, UpdateKeeps
  <1>3. tables' = tables /\ go'[p].pc \notin Holding
    BY <1>2, StartedRunning DEF Receive, memory
  <1>4. MutexHeld' /\ CachedHere'
    BY <1>1, <1>2, <1>3, StepKeeps DEF Holding
  <1> QED BY <1>2, <1>4 DEF Receive, TypeOK, pg, memory

LEMMA BaseEnsureDatabase ==
    ASSUME Base, NEW p \in Procs,
           \/ CheckDatabase(p) \/ CreateSchema(p) \/ InsertDbRow(p) \/ CacheDatabase(p)
           \/ EnsureDatabasePolicies(p)
    PROVE  Base'
  <1> USE DEF Base
  <1> DEFINE Here == {"check", "schema", "dbRow", "cacheDb", "policies"}
             There == {"policies", "schema", "dbRow", "cacheDb"}
  <1>1. /\ go[p].pc \in Here /\ mu' = mu
        /\ \/ Return(p)
           \/ go[p].pc # "policies" /\ \E label \in There : Goto(p, label)
           \/ go[p].pc = "policies" /\ go[p].req.op = "write" /\ Goto(p, "pick")
    BY DEF CheckDatabase, CreateSchema, InsertDbRow, CacheDatabase, EnsureDatabasePolicies, At,
           memory
  <1>2. go[p] \in Running
    BY <1>1, RunningAt DEF PCs
  <1>3. /\ go' \in [Procs -> Running \cup {Idle}] /\ LocalsOK'
        /\ go'[p].pc \in There \cup {"pick", "idle"}
        /\ \A q \in Procs : q # p => go'[q] = go[q]
    BY <1>1, MoveKeeps, ReturnKeeps DEF PCs, WriteLabels, TableLabels, DropLabels, CreateLabels
  <1>4. MutexHeld' /\ CachedHere'
    <2>1. tables' = tables
      BY DEF CheckDatabase, CreateSchema, InsertDbRow, CacheDatabase, EnsureDatabasePolicies, memory
    <2> QED BY <1>1, <1>3, <2>1, StepKeeps DEF Holding
  <1>5. DbOf(p) \in Dbs
    BY <1>2, RequestFields DEF Running, DbOf
  <1> QED
    BY <1>3, <1>4, <1>5
    DEF CheckDatabase, CreateSchema, InsertDbRow, CacheDatabase, EnsureDatabasePolicies, TypeOK,
        pg, memory

LEMMA BasePickMeasurement ==
    ASSUME Base, NEW p \in Procs, PickMeasurement(p)
    PROVE  Base'
  <1> USE DEF Base
  <1>1. go[p].pc = "pick" /\ mu' = mu
    BY DEF PickMeasurement, At, memory
  <1>2. go[p] \in Running /\ LocalOK(go[p])
    BY <1>1, RunningAt DEF PCs, LocalsOK
  <1>3. /\ go' \in [Procs -> Running \cup {Idle}] /\ LocalsOK'
        /\ go'[p].pc \notin Holding
        /\ \A q \in Procs : q # p => go'[q] = go[q]
    <2>1. CASE Return(p)
      BY <2>1, ReturnKeeps DEF Holding
    <2>2. ASSUME NEW m \in go[p].todo,
                 go' = [go EXCEPT ![p].pc = "lockTable", ![p].at = m, ![p].todo = @ \ {m}]
          PROVE  <1>3
      <3> DEFINE r == [go[p] EXCEPT !.pc = "lockTable", !.at = m, !.todo = @ \ {m}]
      <3>1. go' = [go EXCEPT ![p] = r]
        BY <2>2 DEF TypeOK
      <3>2. go[p].req.op = "write" /\ go[p].todo \subseteq DOMAIN go[p].req.batch
        BY <1>1, <1>2 DEF LocalOK, WriteLabels
      <3>3. m \in Measurements /\ m \in DOMAIN go[p].req.batch
        BY <1>2, <3>2 DEF Running
      <3>4. r \in Running /\ r.pc = "lockTable" /\ r.at = m /\ r.req = go[p].req
            /\ r.todo \subseteq go[p].todo
        BY <1>2, <3>3 DEF Running, PCs
      <3> HIDE DEF r
      <3>5. LocalOK(r) /\ r.pc \notin Holding
        BY <3>2, <3>3, <3>4 DEF LocalOK, Holding, DropLabels, CreateLabels
      <3> QED BY <3>1, <3>4, <3>5, UpdateKeeps
    <2> QED BY <2>1, <2>2 DEF PickMeasurement
  <1>4. MutexHeld' /\ CachedHere'
    <2>1. tables' = tables
      BY DEF PickMeasurement, memory
    <2> QED BY <1>1, <1>3, <2>1, StepKeeps DEF Holding
  <1> QED BY <1>3, <1>4 DEF PickMeasurement, TypeOK, pg, memory

\* The locals a goroutine in EnsureTable or InsertBatch moves to: same request, same
\* measurement.
LEMMA TableStep ==
    ASSUME Base, NEW p \in Procs, go[p].pc \in TableLabels, NEW r \in Running,
           r.pc \in TableLabels, r.req = go[p].req, r.at = go[p].at, r.todo = go[p].todo,
           r.pc = "alter" => r.adding \in Columns,
           go' = [go EXCEPT ![p] = r]
    PROVE  /\ go' \in [Procs -> Running \cup {Idle}] /\ LocalsOK' /\ go'[p] = r
           /\ \A q \in Procs : q # p => go'[q] = go[q]
  <1>1. LocalOK(r)
    BY DEF Base, LocalsOK, LocalOK, TableLabels, DropLabels, CreateLabels
  <1> QED BY <1>1, UpdateKeeps DEF Base

LEMMA BaseLockTable ==
    ASSUME Base, NEW p \in Procs, LockTable(p)
    PROVE  Base'
  <1> USE DEF Base
  <1>1. go[p].pc = "lockTable" /\ mu = None /\ mu' = p
    BY DEF LockTable, At, Lock, Free
  <1>2. /\ go[p] \in Running /\ TableOf(p) \in Tables
        /\ SchemaRecord(p) \subseteq Columns
    BY <1>1, WritesTable DEF TableLabels
  <1> DEFINE t == TableOf(p)
             cached == IF tables[t] = None THEN {} ELSE tables[t]
             r == [go[p] EXCEPT !.pc = "column", !.existed = tables[t] # None,
                                !.missing = SchemaRecord(p) \ cached]
  <1>3. go' = [go EXCEPT ![p] = r] /\ tables' = [tables EXCEPT ![t] = cached]
    BY DEF LockTable, TypeOK
  <1>4. r \in Running /\ r.pc = "column" /\ r.req = go[p].req /\ r.at = go[p].at
        /\ r.todo = go[p].todo
    BY <1>2 DEF Running, PCs, Holding
  <1>5. tables' \in [Tables -> (SUBSET Columns) \cup {None}]
    BY <1>2, <1>3 DEF TypeOK
  <1>8. /\ tables'[t] # None
        /\ \A u \in Tables : tables[u] # None => tables'[u] # None
    BY <1>2, <1>3 DEF TypeOK
  <1> HIDE DEF r, cached
  <1>6. /\ go' \in [Procs -> Running \cup {Idle}] /\ LocalsOK' /\ go'[p] = r
        /\ \A q \in Procs : q # p => go'[q] = go[q]
    BY <1>1, <1>3, <1>4, TableStep DEF TableLabels
  <1>9. TableOf(p)' = t
    BY <1>4, <1>6 DEF TableOf
  <1>7. MutexHeld' /\ CachedHere'
    BY <1>1, <1>4, <1>6, <1>8, <1>9, StepKeeps DEF Holding
  <1> QED BY <1>1, <1>5, <1>6, <1>7 DEF LockTable, TypeOK, pg

LEMMA BaseRegisterColumn ==
    ASSUME Base, NEW p \in Procs, NEW c \in Columns, RegisterColumn(p, c)
    PROVE  Base'
  <1> USE DEF Base
  <1>1. go[p].pc = "column" /\ mu' = mu
    BY DEF RegisterColumn, At
  <1>2. go[p] \in Running /\ TableOf(p) \in Tables
    BY <1>1, WritesTable DEF TableLabels
  <1> DEFINE t == TableOf(p)
             r == [go[p] EXCEPT !.missing = @ \ {c},
                                !.pc = IF go[p].existed THEN "alter" ELSE "column",
                                !.adding = IF go[p].existed THEN c ELSE None]
  <1>3. go' = [go EXCEPT ![p] = r] /\ tables' = [tables EXCEPT ![t] = tables[t] \cup {c}]
    BY <1>2 DEF RegisterColumn, TypeOK
  <1>4. r \in Running /\ r.pc \in {"alter", "column"} /\ r.req = go[p].req /\ r.at = go[p].at
        /\ r.todo = go[p].todo /\ (r.pc = "alter" => r.adding \in Columns)
    BY <1>2 DEF Running, PCs, Holding
  <1> HIDE DEF r
  <1>5. /\ go' \in [Procs -> Running \cup {Idle}] /\ LocalsOK' /\ go'[p] = r
        /\ \A q \in Procs : q # p => go'[q] = go[q]
    BY <1>1, <1>3, <1>4, TableStep DEF TableLabels
  <1>6. /\ tables' \in [Tables -> (SUBSET Columns) \cup {None}]
        /\ tables'[t] # None
        /\ \A u \in Tables : tables[u] # None => tables'[u] # None
    <2>1. tables[t] \in SUBSET Columns
      BY <1>1, <1>2 DEF CachedHere, TypeOK
    <2> QED BY <1>2, <1>3, <2>1 DEF TypeOK
  <1>7. TableOf(p)' = t
    BY <1>4, <1>5 DEF TableOf
  <1>8. MutexHeld' /\ CachedHere'
    BY <1>1, <1>4, <1>5, <1>6, <1>7, StepKeeps DEF Holding
  <1>9. metaRows' \subseteq Tables \X Columns
    BY <1>2 DEF RegisterColumn, TypeOK
  <1> QED BY <1>1, <1>5, <1>6, <1>8, <1>9 DEF RegisterColumn, TypeOK

LEMMA BaseAddColumn ==
    ASSUME Base, NEW p \in Procs, AddColumn(p)
    PROVE  Base'
  <1> USE DEF Base
  <1>1. go[p].pc = "alter" /\ mu' = mu /\ tables' = tables
    BY DEF AddColumn, At, memory
  <1>2. go[p] \in Running /\ TableOf(p) \in Tables /\ go[p].adding \in Columns
    BY <1>1, WritesTable DEF TableLabels, LocalsOK, LocalOK
  <1> DEFINE t == TableOf(p)
             r == [go[p] EXCEPT !.pc = "column", !.adding = None]
  <1>3. go' = [go EXCEPT ![p] = r]
    BY DEF AddColumn, TypeOK
  <1>4. r \in Running /\ r.pc = "column" /\ r.req = go[p].req /\ r.at = go[p].at
        /\ r.todo = go[p].todo
    BY <1>2 DEF Running, PCs, Holding
  <1> HIDE DEF r
  <1>5. /\ go' \in [Procs -> Running \cup {Idle}] /\ LocalsOK' /\ go'[p] = r
        /\ \A q \in Procs : q # p => go'[q] = go[q]
    BY <1>1, <1>3, <1>4, TableStep DEF TableLabels
  <1>6. TableOf(p)' = t /\ tables[t] # None
    BY <1>1, <1>4, <1>5 DEF TableOf, CachedHere
  <1>7. MutexHeld' /\ CachedHere'
    BY <1>1, <1>4, <1>5, <1>6, StepKeeps DEF Holding
  <1>8. columns' \in [Tables -> (SUBSET Columns) \cup {None}]
    <2>1. CASE columns' = columns
      BY <2>1 DEF TypeOK
    <2>2. CASE columns[t] # None /\ columns' = [columns EXCEPT ![t] = columns[t] \cup {go[p].adding}]
      <3>1. columns[t] \in SUBSET Columns
        BY <1>2, <2>2 DEF TypeOK
      <3> QED BY <1>2, <2>2, <3>1 DEF TypeOK
    <2> QED BY <1>2, <2>1, <2>2 DEF AddColumn, TypeOK
  <1> QED BY <1>5, <1>7, <1>8 DEF AddColumn, TypeOK, memory

LEMMA BaseCreateTable ==
    ASSUME Base, NEW p \in Procs, CreateTable(p)
    PROVE  Base'
  <1> USE DEF Base
  <1>1. go[p].pc = "column" /\ tables' = tables
    BY DEF CreateTable, At
  <1>2. go[p] \in Running /\ TableOf(p) \in Tables
    BY <1>1, WritesTable DEF TableLabels
  <1>3. CASE Return(p) /\ Unlock(p) /\ columns' = columns
    <2>1. MutexHeld' /\ CachedHere'
      BY <1>1, <1>3, ReturnKeeps, StepKeeps DEF Holding, Unlock
    <2> QED BY <1>3, <2>1, ReturnKeeps DEF CreateTable, TypeOK, Unlock
  <1>4. CASE /\ columns' = NewTable(TableOf(p)) /\ mu' = mu
             /\ go' = [go EXCEPT ![p].pc = "hypertable", ![p].existed = FALSE]
    <2> DEFINE r == [go[p] EXCEPT !.pc = "hypertable", !.existed = FALSE]
    <2>1. go' = [go EXCEPT ![p] = r]
      BY <1>4 DEF TypeOK
    <2>2. r \in Running /\ r.pc = "hypertable" /\ r.req = go[p].req /\ r.at = go[p].at
          /\ r.todo = go[p].todo
      BY <1>2 DEF Running, PCs, Holding
    <2> HIDE DEF r
    <2>3. /\ go' \in [Procs -> Running \cup {Idle}] /\ LocalsOK' /\ go'[p] = r
          /\ \A q \in Procs : q # p => go'[q] = go[q]
      BY <1>1, <2>1, <2>2, TableStep DEF TableLabels
    <2>4. MutexHeld' /\ CachedHere'
      BY <1>1, <1>4, <2>2, <2>3, StepKeeps DEF Holding
    <2>5. tables[TableOf(p)] \in SUBSET Columns
      BY <1>1, <1>2 DEF CachedHere, TypeOK
    <2>6. columns' \in [Tables -> (SUBSET Columns) \cup {None}]
      BY <1>2, <1>4, <2>5 DEF TypeOK, NewTable
    <2> QED BY <1>4, <2>3, <2>4, <2>6 DEF CreateTable, TypeOK
  <1> QED BY <1>3, <1>4 DEF CreateTable

LEMMA BaseCreateHypertable ==
    ASSUME Base, NEW p \in Procs, CreateHypertable(p) \/ SetChunks(p)
    PROVE  Base'
  <1> USE DEF Base
  <1>1. /\ go[p].pc \in {"hypertable", "chunks"} /\ tables' = tables
        /\ \/ mu' = None /\ (Return(p) \/ Goto(p, "lookup"))
           \/ mu' = mu /\ Goto(p, "chunks")
    BY DEF CreateHypertable, SetChunks, At, Unlock
  <1>2. TableOf(p) \in Tables
    BY <1>1, WritesTable DEF TableLabels
  <1>3. /\ go' \in [Procs -> Running \cup {Idle}] /\ LocalsOK'
        /\ \/ go'[p].pc \in {"lookup", "idle"} /\ mu' = None
           \/ go'[p].pc = "chunks" /\ mu' = mu
        /\ \A q \in Procs : q # p => go'[q] = go[q]
    BY <1>1, MoveKeeps, ReturnKeeps DEF PCs, WriteLabels, TableLabels, DropLabels, CreateLabels, Holding
  <1>4. MutexHeld' /\ CachedHere'
    BY <1>1, <1>3, StepKeeps DEF Holding
  <1> QED BY <1>1, <1>2, <1>3, <1>4 DEF CreateHypertable, SetChunks, TypeOK, pg

LEMMA BaseReadSchema ==
    ASSUME Base, NEW p \in Procs, LookupSchema(p) \/ ListColumns(p)
    PROVE  Base'
  <1> USE DEF Base
  <1>1. go[p].pc \in {"lookup", "list"} /\ mu' = mu /\ tables' = tables
    BY DEF LookupSchema, ListColumns, At, memory
  <1>2. go[p] \in Running /\ TableOf(p) \in Tables
    BY <1>1, WritesTable DEF TableLabels
  <1>3. \/ Return(p)
        \/ \E label \in {"list", "insert"}, cols \in SUBSET Columns :
              go' = [go EXCEPT ![p].pc = label, ![p].listed = cols]
    <2>1. CASE LookupSchema(p)
      <3>1. tables[TableOf(p)] # None => tables[TableOf(p)] \in SUBSET Columns
        BY <1>2 DEF TypeOK
      <3> QED BY <2>1, <3>1 DEF LookupSchema
    <2>2. CASE ListColumns(p)
      <3>1. \A cols \in {go[p].listed, tables[TableOf(p)]} \ {None} : cols \in SUBSET Columns
        BY <1>2 DEF TypeOK, Running
      <3> QED BY <2>2, <3>1 DEF ListColumns
    <2> QED BY <2>1, <2>2
  <1>4. /\ go' \in [Procs -> Running \cup {Idle}] /\ LocalsOK'
        /\ go'[p].pc \in {"idle", "list", "insert"}
        /\ \A q \in Procs : q # p => go'[q] = go[q]
    <2>1. ASSUME NEW label \in {"list", "insert"}, NEW cols \in SUBSET Columns,
                 go' = [go EXCEPT ![p].pc = label, ![p].listed = cols]
          PROVE  <1>4
      <3> DEFINE r == [go[p] EXCEPT !.pc = label, !.listed = cols]
      <3>1. go' = [go EXCEPT ![p] = r]
        BY <2>1 DEF TypeOK
      <3>2. r \in Running /\ r.pc = label /\ r.req = go[p].req /\ r.at = go[p].at
            /\ r.todo = go[p].todo
        BY <1>2 DEF Running, PCs
      <3> HIDE DEF r
      <3> QED BY <1>1, <3>1, <3>2, TableStep DEF TableLabels
    <2> QED BY <1>3, <2>1, ReturnKeeps
  <1>5. MutexHeld' /\ CachedHere'
    BY <1>1, <1>4, StepKeeps DEF Holding
  <1> QED BY <1>4, <1>5 DEF LookupSchema, ListColumns, TypeOK, pg, memory

LEMMA BaseInsert ==
    ASSUME Base, NEW p \in Procs, Insert(p)
    PROVE  Base'
  <1> USE DEF Base
  <1>1. go[p].pc = "insert" /\ mu' = mu /\ tables' = tables
    BY DEF Insert, At, memory
  <1>2. /\ go[p] \in Running /\ TableOf(p) \in Tables /\ go[p].listed \subseteq Columns
        /\ \A r \in Records(p) : r \subseteq Columns
    BY <1>1, WritesTable DEF TableLabels, Running
  <1>3. /\ stored' \subseteq [table : Tables, cols : SUBSET Columns]
        /\ acked' \subseteq [table : Tables, cols : SUBSET Columns]
    <2>1. \A cols \in SUBSET Columns :
             Row(TableOf(p), cols) \in [table : Tables, cols : SUBSET Columns]
      BY <1>2 DEF Row
    <2>2. acked' = acked \/ acked' = acked \cup {Row(TableOf(p), r) : r \in Records(p)}
      BY DEF Insert
    <2>3. \/ stored' = stored
          \/ \E place \in [Records(p) -> SUBSET go[p].listed] :
                stored' = stored \cup {Row(TableOf(p), place[r]) : r \in Records(p)}
      BY DEF Insert
    <2> QED BY <1>2, <2>1, <2>2, <2>3 DEF TypeOK
  <1>4. /\ go' \in [Procs -> Running \cup {Idle}] /\ LocalsOK'
        /\ go'[p].pc \in {"idle", "pick"}
        /\ \A q \in Procs : q # p => go'[q] = go[q]
    <2>1. CASE go' = [go EXCEPT ![p].pc = "pick", ![p].at = None, ![p].listed = {}]
      <3> DEFINE r == [go[p] EXCEPT !.pc = "pick", !.at = None, !.listed = {}]
      <3>1. go' = [go EXCEPT ![p] = r]
        BY <2>1 DEF TypeOK
      <3>2. r \in Running /\ r.pc = "pick" /\ r.req = go[p].req /\ r.todo = go[p].todo
        BY <1>2 DEF Running, PCs
      <3> HIDE DEF r
      <3>3. go[p].req.op = "write" /\ go[p].todo \subseteq DOMAIN go[p].req.batch
        BY <1>1 DEF LocalsOK, LocalOK, TableLabels
      <3>4. LocalOK(r)
        BY <3>2, <3>3 DEF LocalOK, TableLabels, DropLabels, CreateLabels
      <3> QED BY <3>1, <3>2, <3>4, UpdateKeeps
    <2> QED BY <2>1, ReturnKeeps DEF Insert
  <1>5. MutexHeld' /\ CachedHere'
    BY <1>1, <1>4, StepKeeps DEF Holding
  <1> QED BY <1>3, <1>4, <1>5 DEF Insert, TypeOK, memory

LEMMA BaseCreateDatabase ==
    ASSUME Base, NEW p \in Procs,
           LockCreate(p) \/ CreateDatabaseSchema(p) \/ CreateDatabaseRow(p)
    PROVE  Base'
  <1> USE DEF Base
  <1> DEFINE Steps == {"lockCreate", "createSchema", "createRow"}
  <1>1. go[p].pc \in Steps /\ tables' = tables
    BY DEF LockCreate, CreateDatabaseSchema, CreateDatabaseRow, At
  <1>2. DbOf(p) \in Dbs
    BY <1>1, RunningAt, RequestFields DEF DbOf, Running, PCs, Holding
  <1>3. Return(p) \/ \E label \in {"createSchema", "createRow", "policies"} : Goto(p, label)
    BY DEF LockCreate, CreateDatabaseSchema, CreateDatabaseRow
  <1>4. /\ go' \in [Procs -> Running \cup {Idle}] /\ LocalsOK'
        /\ go'[p].pc \in {"idle", "policies", "createSchema", "createRow"}
        /\ Return(p) => go'[p].pc = "idle"
        /\ Goto(p, "policies") => go'[p].pc = "policies"
        /\ Goto(p, "createSchema") => go'[p].pc = "createSchema"
        /\ Goto(p, "createRow") => go'[p].pc = "createRow"
        /\ \A q \in Procs : q # p => go'[q] = go[q]
    BY <1>1, <1>3, MoveKeeps, ReturnKeeps DEF PCs, WriteLabels, TableLabels, DropLabels, CreateLabels, Holding
  <1>5. \/ mu' = mu /\ (go'[p].pc \in Holding <=> go[p].pc \in Holding)
        \/ mu = None /\ mu' = p /\ go'[p].pc \in Holding
        \/ go[p].pc \in Holding /\ mu' = None /\ go'[p].pc \notin Holding
    BY <1>1, <1>4
    DEF LockCreate, CreateDatabaseSchema, CreateDatabaseRow, At, Lock, Unlock, Free, Holding
  <1>6. MutexHeld' /\ CachedHere'
    BY <1>1, <1>4, <1>5, StepKeeps
  <1> QED
    BY <1>1, <1>2, <1>4, <1>6
    DEF LockCreate, CreateDatabaseSchema, CreateDatabaseRow, TypeOK, pg, Lock, Unlock

\* DROP TABLE and DROP SCHEMA leave well-typed tables.
LEMMA DropTablesType ==
    ASSUME TypeOK, NEW gone \in SUBSET Tables, DropTables(gone)
    PROVE  /\ columns' \in [Tables -> (SUBSET Columns) \cup {None}]
           /\ hypertables' \subseteq Tables
           /\ stored' \subseteq [table : Tables, cols : SUBSET Columns]
           /\ acked' \subseteq [table : Tables, cols : SUBSET Columns]
  BY DEF DropTables, TypeOK

LEMMA BaseDropDatabase ==
    ASSUME Base, NEW p \in Procs,
           \/ LockDrop(p) \/ DropDatabaseRow(p) \/ DropDatabaseSchema(p) \/ DropDatabaseMeta(p)
    PROVE  Base'
  <1> USE DEF Base
  <1>1. /\ go[p].pc \in {"lockDrop", "dropRow", "dropSchema", "dropMeta"}
        /\ go[p].pc \notin Holding => tables' = tables
    BY DEF LockDrop, DropDatabaseRow, DropDatabaseSchema, DropDatabaseMeta, At, Holding, memory
  <1>3. Return(p) \/ \E label \in {"dropRow", "dropSchema", "dropMeta", "policies"} : Goto(p, label)
    BY DEF LockDrop, DropDatabaseRow, DropDatabaseSchema, DropDatabaseMeta
  <1>4. /\ go' \in [Procs -> Running \cup {Idle}] /\ LocalsOK'
        /\ go'[p].pc \in {"idle", "policies", "dropRow", "dropSchema", "dropMeta"}
        /\ Return(p) => go'[p].pc = "idle"
        /\ \A label \in {"dropRow", "dropSchema", "dropMeta", "policies"} :
              Goto(p, label) => go'[p].pc = label
        /\ \A q \in Procs : q # p => go'[q] = go[q]
    BY <1>1, <1>3, MoveKeeps, ReturnKeeps DEF PCs, WriteLabels, TableLabels, DropLabels, CreateLabels, Holding
  <1>5. \/ mu' = mu /\ (go'[p].pc \in Holding <=> go[p].pc \in Holding)
        \/ mu = None /\ mu' = p /\ go'[p].pc \in Holding
        \/ go[p].pc \in Holding /\ mu' = None /\ go'[p].pc \notin Holding
    BY <1>1, <1>4
    DEF LockDrop, DropDatabaseRow, DropDatabaseSchema, DropDatabaseMeta, At, Lock, Unlock,
        Free, Holding, memory
  <1>6. MutexHeld' /\ CachedHere'
    BY <1>1, <1>4, <1>5, StepKeeps
  <1>7. mu' \in Procs \cup {None}
    BY <1>5 DEF TypeOK
  <1>8. TablesOf(DbOf(p)) \in SUBSET Tables
    BY DEF TablesOf
  <1>9. CASE LockDrop(p)
    BY <1>4, <1>6, <1>7, <1>9 DEF LockDrop, TypeOK, pg
  <1>10. CASE DropDatabaseRow(p)
    BY <1>4, <1>6, <1>7, <1>10 DEF DropDatabaseRow, TypeOK, memory
  <1>11. CASE DropDatabaseSchema(p)
    <2>1. schemas' \subseteq Dbs /\ UNCHANGED <<dbRows, metaRows, databases, tables>>
      BY <1>11 DEF DropDatabaseSchema, TypeOK
    <2>2. /\ columns' \in [Tables -> (SUBSET Columns) \cup {None}]
          /\ hypertables' \subseteq Tables
          /\ stored' \subseteq [table : Tables, cols : SUBSET Columns]
          /\ acked' \subseteq [table : Tables, cols : SUBSET Columns]
      <3>1. \/ DropTables(TablesOf(DbOf(p)))
            \/ UNCHANGED <<columns, hypertables, stored, acked>>
        BY <1>11 DEF DropDatabaseSchema
      <3> QED BY <1>8, <3>1, DropTablesType DEF TypeOK
    <2> QED BY <1>4, <1>6, <1>7, <2>1, <2>2 DEF TypeOK
  <1>12. CASE DropDatabaseMeta(p)
    BY <1>4, <1>6, <1>7, <1>12 DEF DropDatabaseMeta, TypeOK
  <1> QED BY <1>9, <1>10, <1>11, <1>12

LEMMA BaseDropMeasurement ==
    ASSUME Base, NEW p \in Procs, DropMeasurementTable(p) \/ DropMeasurementMeta(p)
    PROVE  Base'
  <1> USE DEF Base
  <1>1. go[p].pc \in {"dropTable", "dropTableMeta"} /\ mu' = mu /\ tables' = tables
    BY DEF DropMeasurementTable, DropMeasurementMeta, At, memory
  <1>2. TableOf(p) \in Tables
    <2>1. go[p].at \in Measurements
      BY <1>1 DEF LocalsOK, LocalOK
    <2> QED BY <1>1, <2>1, TableOfType DEF PCs
  <1>3. /\ go' \in [Procs -> Running \cup {Idle}] /\ LocalsOK'
        /\ go'[p].pc \in {"idle", "dropTableMeta"}
        /\ \A q \in Procs : q # p => go'[q] = go[q]
    <2>1. Return(p) \/ (go[p].pc = "dropTable" /\ Goto(p, "dropTableMeta"))
      BY DEF DropMeasurementTable, DropMeasurementMeta, At
    <2> QED BY <1>1, <2>1, MoveKeeps, ReturnKeeps DEF PCs, WriteLabels, TableLabels, DropLabels, CreateLabels
  <1>4. MutexHeld' /\ CachedHere'
    BY <1>1, <1>3, StepKeeps DEF Holding
  <1>5. /\ columns' \in [Tables -> (SUBSET Columns) \cup {None}]
        /\ hypertables' \subseteq Tables
        /\ stored' \subseteq [table : Tables, cols : SUBSET Columns]
        /\ acked' \subseteq [table : Tables, cols : SUBSET Columns]
    <2>1. DropTables({TableOf(p)}) \/ UNCHANGED <<columns, hypertables, stored, acked>>
      BY DEF DropMeasurementTable, DropMeasurementMeta
    <2> QED BY <1>2, <2>1, DropTablesType DEF TypeOK
  <1> QED
    BY <1>3, <1>4, <1>5 DEF DropMeasurementTable, DropMeasurementMeta, TypeOK, memory

LEMMA BaseCrash ==
    ASSUME Base, CrashRestart
    PROVE  Base'
  <1> USE DEF Base
  <1>1. /\ go' \in [Procs -> Running \cup {Idle}]
        /\ \A p \in Procs : go'[p] = Idle /\ go'[p].pc = "idle"
    BY DEF CrashRestart, Idle
  <1>2. LocalsOK' /\ MutexHeld' /\ CachedHere'
    BY <1>1 DEF LocalsOK, LocalOK, MutexHeld, CachedHere, WriteLabels, TableLabels, DropLabels, CreateLabels, Holding,
                CrashRestart
  <1> QED BY <1>1, <1>2 DEF CrashRestart, TypeOK, pg

\* What holds of types, of the locals and of m.mu holds of every behaviour.
LEMMA BaseAlways == Spec => []Base
  <1>1. Init => Base
    BY DEF Init, Base, TypeOK, LocalsOK, LocalOK, MutexHeld, CachedHere, Idle, WriteLabels,
           TableLabels, DropLabels, CreateLabels, Holding
  <1>2. Base /\ [Next]_vars => Base'
    <2> SUFFICES ASSUME Base, [Next]_vars PROVE Base'
      OBVIOUS
    <2>1. CASE UNCHANGED vars
      BY <2>1 DEF vars, pg, memory, Base, TypeOK, LocalsOK, MutexHeld, CachedHere, TableOf
    <2>2. ASSUME NEW p \in Procs, NEW r \in Requests, Receive(p, r)
          PROVE  Base'
      BY <2>2, BaseReceive
    <2>3. ASSUME NEW p \in Procs, TakeLock(p)
          PROVE  Base'
      BY <2>3, BaseEnsureDatabase, BaseLockTable, BaseReadSchema, BaseCreateDatabase,
         BaseDropDatabase
      DEF TakeLock
    <2>4. ASSUME NEW p \in Procs, Statement(p)
          PROVE  Base'
      BY <2>4, BaseEnsureDatabase, BasePickMeasurement, BaseRegisterColumn, BaseAddColumn,
         BaseCreateTable, BaseCreateHypertable, BaseReadSchema, BaseInsert,
         BaseCreateDatabase, BaseDropDatabase, BaseDropMeasurement
      DEF Statement
    <2>5. CASE CrashRestart
      BY <2>5, BaseCrash
    <2>6. ASSUME NEW p \in Procs, CallRetention(p)
          PROVE  Base'
      BY <2>6, BaseEnsureDatabase, BaseCreateHypertable DEF CallRetention
    <2> QED BY <2>1, <2>2, <2>3, <2>4, <2>5, <2>6 DEF Next
  <1> QED BY <1>1, <1>2, PTL DEF Spec

\* Type correctness: what Postgres and the caches hold, and the locals of the handlers,
\* have the types of TypeOK under every interleaving, failure and crash.
THEOREM TypeCorrect == Spec => []TypeOK
  <1>1. Base => TypeOK
    BY DEF Base
  <1> QED BY <1>1, BaseAlways, PTL

\* m.mu is held exactly by the goroutine inside EnsureTable, CreateDatabase or
\* DropDatabase: at most one is, and every return frees it.
THEOREM MutexAlwaysHeld == Spec => []MutexHeld
  <1>1. Base => MutexHeld
    BY DEF Base
  <1> QED BY <1>1, BaseAlways, PTL

-----------------------------------------------------------------------------
(* The steps of the handlers.                                               *)

\* A step of goroutine p from one step of its handler to another, or to its end; within
\* the work on a measurement it stays on that measurement.
Moved(p, from, to) ==
    /\ go[p].pc = from /\ go[p] \in Running
    /\ \A q \in Procs : q # p => go'[q] = go[q]
    /\ go'[p].pc \in to \cup {"idle"}
    /\ go'[p].pc \in to => go'[p].req = go[p].req
    /\ from \in TableLabels /\ go'[p].pc \in TableLabels => go'[p].at = go[p].at

\* Where each step of a handler leads.
LEMMA Moves ==
    ASSUME Base, NEW p \in Procs
    PROVE  /\ CheckDatabase(p) => Moved(p, "check", {"policies", "schema"})
           /\ CreateSchema(p) => Moved(p, "schema", {"dbRow"})
           /\ InsertDbRow(p) => Moved(p, "dbRow", {"cacheDb"})
           /\ CacheDatabase(p) => Moved(p, "cacheDb", {"policies"})
           /\ EnsureDatabasePolicies(p) => Moved(p, "policies", {"pick"})
           /\ PickMeasurement(p) => Moved(p, "pick", {"lockTable"})
           /\ LockTable(p) => Moved(p, "lockTable", {"column"})
           /\ \A c \in Columns : RegisterColumn(p, c) => Moved(p, "column", {"alter", "column"})
           /\ AddColumn(p) => Moved(p, "alter", {"column"})
           /\ CreateTable(p) => Moved(p, "column", {"hypertable"})
           /\ CreateHypertable(p) => Moved(p, "hypertable", {"chunks"})
           /\ SetChunks(p) => Moved(p, "chunks", {"lookup"})
           /\ LookupSchema(p) => Moved(p, "lookup", {"list"})
           /\ ListColumns(p) => Moved(p, "list", {"insert"})
           /\ Insert(p) => Moved(p, "insert", {"pick"})
           /\ LockCreate(p) => Moved(p, "lockCreate", {"policies", "createSchema"})
           /\ CreateDatabaseSchema(p) => Moved(p, "createSchema", {"createRow"})
           /\ CreateDatabaseRow(p) => Moved(p, "createRow", {"policies"})
           /\ LockDrop(p) => Moved(p, "lockDrop", {"dropRow"})
           /\ DropDatabaseRow(p) => Moved(p, "dropRow", {"dropSchema"})
           /\ DropDatabaseSchema(p) => Moved(p, "dropSchema", {"dropMeta"})
           /\ DropDatabaseMeta(p) => Moved(p, "dropMeta", {"policies"})
           /\ DropMeasurementTable(p) => Moved(p, "dropTable", {"dropTableMeta"})
           /\ DropMeasurementMeta(p) => Moved(p, "dropTableMeta", {})
  <1> DEFINE Type == go \in [Procs -> Running \cup {Idle}]
  <1>1. Type
    BY DEF Base, TypeOK
  <1>2. go[p].pc \in PCs => go[p] \in Running
    BY RunningAt DEF Base
  <1>3. /\ CheckDatabase(p) => Moved(p, "check", {"policies", "schema"})
        /\ CreateSchema(p) => Moved(p, "schema", {"dbRow"})
        /\ InsertDbRow(p) => Moved(p, "dbRow", {"cacheDb"})
        /\ CacheDatabase(p) => Moved(p, "cacheDb", {"policies"})
    <2>1. CheckDatabase(p) => Moved(p, "check", {"policies", "schema"})
      BY <1>1, <1>2 DEF CheckDatabase, At, Goto, Moved, Running, Idle, PCs, TableLabels
    <2>2. CreateSchema(p) => Moved(p, "schema", {"dbRow"})
      BY <1>1, <1>2 DEF CreateSchema, At, Goto, Return, Moved, Running, Idle, PCs, TableLabels
    <2>3. InsertDbRow(p) => Moved(p, "dbRow", {"cacheDb"})
      BY <1>1, <1>2 DEF InsertDbRow, At, Goto, Moved, Running, Idle, PCs, TableLabels
    <2>4. CacheDatabase(p) => Moved(p, "cacheDb", {"policies"})
      BY <1>1, <1>2 DEF CacheDatabase, At, Goto, Moved, Running, Idle, PCs, TableLabels
    <2> QED BY <2>1, <2>2, <2>3, <2>4
  <1>10. EnsureDatabasePolicies(p) => Moved(p, "policies", {"pick"})
    BY <1>1, <1>2
    DEF EnsureDatabasePolicies, At, Goto, Return, Moved, Running, Idle, PCs, TableLabels
  <1>9. PickMeasurement(p) => Moved(p, "pick", {"lockTable"})
    <2> SUFFICES ASSUME PickMeasurement(p) PROVE Moved(p, "pick", {"lockTable"})
      OBVIOUS
    <2>1. go[p].pc = "pick" /\ go[p] \in Running
      BY <1>2 DEF PickMeasurement, At, PCs
    <2>2. CASE Return(p)
      BY <1>1, <2>1, <2>2 DEF Return, Moved, Idle, TableLabels
    <2>3. ASSUME NEW m \in go[p].todo,
                 go' = [go EXCEPT ![p].pc = "lockTable", ![p].at = m, ![p].todo = @ \ {m}]
          PROVE  Moved(p, "pick", {"lockTable"})
      <3>1. /\ \A q \in Procs : q # p => go'[q] = go[q]
            /\ go'[p] = [go[p] EXCEPT !.pc = "lockTable", !.at = m, !.todo = @ \ {m}]
        BY <1>1, <2>3
      <3>2. go'[p].pc = "lockTable" /\ go'[p].req = go[p].req
        BY <2>1, <3>1 DEF Running
      <3> QED BY <2>1, <3>1, <3>2 DEF Moved, TableLabels
    <2> QED BY <2>2, <2>3 DEF PickMeasurement
  <1>4. /\ LockTable(p) => Moved(p, "lockTable", {"column"})
        /\ AddColumn(p) => Moved(p, "alter", {"column"})
        /\ CreateTable(p) => Moved(p, "column", {"hypertable"})
        /\ CreateHypertable(p) => Moved(p, "hypertable", {"chunks"})
        /\ SetChunks(p) => Moved(p, "chunks", {"lookup"})
    BY <1>1, <1>2
    DEF LockTable, AddColumn, CreateTable, CreateHypertable, SetChunks, At, Goto,
        Return, Moved, Running, Idle, PCs, Holding, TableLabels
  <1>5. \A c \in Columns : RegisterColumn(p, c) => Moved(p, "column", {"alter", "column"})
    BY <1>1, <1>2
    DEF RegisterColumn, At, Moved, Running, Idle, PCs, Holding, TableLabels
  <1>6. /\ LookupSchema(p) => Moved(p, "lookup", {"list"})
        /\ ListColumns(p) => Moved(p, "list", {"insert"})
        /\ Insert(p) => Moved(p, "insert", {"pick"})
    BY <1>1, <1>2
    DEF LookupSchema, ListColumns, Insert, At, Goto, Return, Moved, Running, Idle, PCs,
        TableLabels
  <1>7. /\ LockCreate(p) => Moved(p, "lockCreate", {"policies", "createSchema"})
        /\ CreateDatabaseSchema(p) => Moved(p, "createSchema", {"createRow"})
        /\ CreateDatabaseRow(p) => Moved(p, "createRow", {"policies"})
    BY <1>1, <1>2
    DEF LockCreate, CreateDatabaseSchema, CreateDatabaseRow, At, Goto, Return, Moved,
        Running, Idle, PCs, Holding, TableLabels
  <1>8. /\ LockDrop(p) => Moved(p, "lockDrop", {"dropRow"})
        /\ DropDatabaseRow(p) => Moved(p, "dropRow", {"dropSchema"})
        /\ DropDatabaseSchema(p) => Moved(p, "dropSchema", {"dropMeta"})
        /\ DropDatabaseMeta(p) => Moved(p, "dropMeta", {"policies"})
        /\ DropMeasurementTable(p) => Moved(p, "dropTable", {"dropTableMeta"})
        /\ DropMeasurementMeta(p) => Moved(p, "dropTableMeta", {})
    BY <1>1, <1>2
    DEF LockDrop, DropDatabaseRow, DropDatabaseSchema, DropDatabaseMeta,
        DropMeasurementTable, DropMeasurementMeta, At, Goto, Return, Moved, Running, Idle,
        PCs, Holding, TableLabels
  <1> QED BY <1>3, <1>4, <1>5, <1>6, <1>7, <1>8, <1>9, <1>10

\* A handler reaches the statements of DROP only if clients may send them.
LEMMA DropSteps ==
    ASSUME Base, NEW p \in Procs
    PROVE  /\ go[p].pc \in DropLabels => "dropDb" \in Ops
           /\ go[p].pc \in {"dropTable", "dropTableMeta"} => "dropMeasurement" \in Ops
  <1>1. go[p].pc \in PCs => go[p] \in Running
    BY RunningAt DEF Base
  <1> QED BY <1>1, RequestFields
          DEF Base, LocalsOK, LocalOK, DropLabels, PCs, Holding, Running

\* A request that arrives changes nothing but its goroutine, which is then at the entry
\* of its handler.
LEMMA Arrives ==
    ASSUME Base, NEW p \in Procs, NEW r \in Requests, Receive(p, r)
    PROVE  /\ \A q \in Procs : q # p => go'[q] = go[q]
           /\ go'[p].pc \in {"check", "lockCreate", "lockDrop", "dropTable"}
           /\ UNCHANGED <<pg, memory, acked>>
  <1>1. EntryPoint[r.op] \in {"check", "lockCreate", "lockDrop", "dropTable"}
    BY RequestFields DEF EntryPoint, OpKinds
  <1> QED BY <1>1 DEF Receive, Started, Base, TypeOK

-----------------------------------------------------------------------------
(* Known databases have their schema.                                       *)

\* Whoever records or caches a database has created its schema before.
SchemaFirst ==
    /\ databases \cup dbRows \subseteq schemas
    /\ \A p \in Procs : go[p].pc \in {"dbRow", "cacheDb", "createRow"} => DbOf(p) \in schemas

LEMMA SchemaFirstStep ==
    ASSUME "dropDb" \notin Ops, Base, SchemaFirst, [Next]_vars
    PROVE  SchemaFirst'
  <1> DEFINE Labels == {"dbRow", "cacheDb", "createRow"}
  <1>1. ASSUME NEW p \in Procs, \A q \in Procs : q # p => go'[q] = go[q],
               schemas \subseteq schemas', (databases \cup dbRows)' \subseteq schemas',
               go'[p].pc \in Labels => DbOf(p)' \in schemas'
        PROVE  SchemaFirst'
    BY <1>1 DEF SchemaFirst, DbOf
  <1>2. ASSUME NEW p \in Procs, \A q \in Procs : q # p => go'[q] = go[q],
               UNCHANGED <<schemas, databases, dbRows>>, go'[p].pc \notin Labels
        PROVE  SchemaFirst'
    BY <1>1, <1>2 DEF SchemaFirst
  <1>3. CASE UNCHANGED vars
    BY <1>3 DEF vars, pg, memory, SchemaFirst, DbOf
  <1>4. ASSUME NEW p \in Procs, NEW r \in Requests, Receive(p, r)
        PROVE  SchemaFirst'
    BY <1>2, <1>4, Arrives DEF pg, memory
  <1>5. ASSUME NEW p \in Procs,
               CheckDatabase(p) \/ PickMeasurement(p) \/ EnsureDatabasePolicies(p)
        PROVE  SchemaFirst'
    BY <1>2, <1>5, Moves
    DEF Moved, CheckDatabase, PickMeasurement, EnsureDatabasePolicies, pg, memory
  <1>6. ASSUME NEW p \in Procs,
               \/ LockTable(p) \/ AddColumn(p) \/ CreateTable(p) \/ CreateHypertable(p)
               \/ SetChunks(p)
               \/ \E c \in Columns : RegisterColumn(p, c)
        PROVE  SchemaFirst'
    <2>1. (\A q \in Procs : q # p => go'[q] = go[q]) /\ go'[p].pc \notin Labels
      BY <1>6, Moves DEF Moved
    <2>2. UNCHANGED <<schemas, databases, dbRows>>
      BY <1>6
      DEF LockTable, AddColumn, CreateTable, CreateHypertable, SetChunks, RegisterColumn, pg, memory
    <2> QED BY <1>2, <2>1, <2>2
  <1>7. ASSUME NEW p \in Procs, LookupSchema(p) \/ ListColumns(p) \/ Insert(p)
        PROVE  SchemaFirst'
    BY <1>2, <1>7, Moves DEF Moved, LookupSchema, ListColumns, Insert, pg, memory
  <1>8. ASSUME NEW p \in Procs,
               LockCreate(p) \/ DropMeasurementTable(p) \/ DropMeasurementMeta(p)
        PROVE  SchemaFirst'
    BY <1>2, <1>8, Moves
    DEF Moved, LockCreate, DropMeasurementTable, DropMeasurementMeta, pg, memory
  <1>9. ASSUME NEW p \in Procs, CreateSchema(p) \/ CreateDatabaseSchema(p)
        PROVE  SchemaFirst'
    <2>1. /\ \A q \in Procs : q # p => go'[q] = go[q]
          /\ go'[p].pc \in Labels => DbOf(p)' = DbOf(p)
      BY <1>9, Moves DEF Moved, DbOf
    <2>2. \/ schemas' = schemas \cup {DbOf(p)}
          \/ schemas' = schemas /\ go'[p].pc \notin Labels
      BY <1>9 DEF CreateSchema, CreateDatabaseSchema, Return, Idle, Base, TypeOK
    <2>3. UNCHANGED <<databases, dbRows>>
      BY <1>9 DEF CreateSchema, CreateDatabaseSchema, memory
    <2> QED BY <1>1, <2>1, <2>2, <2>3 DEF SchemaFirst
  <1>10. ASSUME NEW p \in Procs, InsertDbRow(p) \/ CacheDatabase(p) \/ CreateDatabaseRow(p)
         PROVE  SchemaFirst'
    <2>1. /\ \A q \in Procs : q # p => go'[q] = go[q]
          /\ go[p].pc \in Labels
          /\ go'[p].pc \in Labels => DbOf(p)' = DbOf(p)
      BY <1>10, Moves DEF Moved, DbOf
    <2>2. /\ schemas' = schemas
          /\ (databases \cup dbRows)' \subseteq databases \cup dbRows \cup {DbOf(p)}
      BY <1>10 DEF InsertDbRow, CacheDatabase, CreateDatabaseRow, pg, memory
    <2> QED BY <1>1, <2>1, <2>2 DEF SchemaFirst
  <1>11. ASSUME NEW p \in Procs,
                \/ LockDrop(p) \/ DropDatabaseRow(p)
                \/ DropDatabaseSchema(p) \/ DropDatabaseMeta(p)
         PROVE  FALSE
    BY <1>11, DropSteps, Moves DEF Moved, DropLabels
  <1>12. CASE CrashRestart
    BY <1>12 DEF CrashRestart, SchemaFirst, Idle, pg
  <1> QED
    BY <1>3, <1>4, <1>5, <1>6, <1>7, <1>8, <1>9, <1>10, <1>11, <1>12
    DEF Next, TakeLock, Statement, CallRetention

\* Where no client drops databases, whatever fails and whenever the process dies, a
\* database the proxy knows now or at its next start has its schema: EnsureDatabase and
\* CREATE DATABASE create the schema before anyone can learn of the database.
THEOREM SchemaOfKnown ==
    ASSUME "dropDb" \notin Ops
    PROVE  Spec => []KnownHasSchema
  <1>1. Init => SchemaFirst
    BY DEF Init, SchemaFirst, Idle
  <1>2. Base /\ SchemaFirst /\ [Next]_vars => SchemaFirst'
    BY SchemaFirstStep
  <1>3. SchemaFirst => KnownHasSchema
    BY DEF SchemaFirst, KnownHasSchema
  <1> QED BY <1>1, <1>2, <1>3, BaseAlways, PTL DEF Spec

-----------------------------------------------------------------------------
(* Rows are in hypertables.                                                 *)

\* Whoever has passed create_hypertable without an error has made its table a hypertable.
HypertableFirst ==
    /\ StoredInHypertables
    /\ \A p \in Procs : go[p].pc \in {"chunks", "lookup", "list", "insert"} => TableOf(p) \in hypertables

LEMMA HypertableFirstStep ==
    ASSUME Ops \cap {"dropDb", "dropMeasurement"} = {}, Base, HypertableFirst, [Next]_vars
    PROVE  HypertableFirst'
  <1> DEFINE Labels == {"chunks", "lookup", "list", "insert"}
  <1>1. ASSUME NEW p \in Procs, \A q \in Procs : q # p => go'[q] = go[q],
               hypertables \subseteq hypertables', StoredInHypertables',
               go'[p].pc \in Labels => TableOf(p)' \in hypertables'
        PROVE  HypertableFirst'
    BY <1>1 DEF HypertableFirst, TableOf
  <1>2. ASSUME NEW p \in Procs, \A q \in Procs : q # p => go'[q] = go[q],
               UNCHANGED <<hypertables, stored>>, go'[p].pc \notin Labels
        PROVE  HypertableFirst'
    BY <1>1, <1>2 DEF HypertableFirst, StoredInHypertables
  <1>3. CASE UNCHANGED vars
    BY <1>3 DEF vars, pg, HypertableFirst, StoredInHypertables, TableOf
  <1>4. ASSUME NEW p \in Procs, NEW r \in Requests, Receive(p, r)
        PROVE  HypertableFirst'
    BY <1>2, <1>4, Arrives DEF pg
  <1>5. ASSUME NEW p \in Procs,
               \/ CheckDatabase(p) \/ CreateSchema(p) \/ InsertDbRow(p) \/ CacheDatabase(p)
               \/ PickMeasurement(p) \/ EnsureDatabasePolicies(p)
        PROVE  HypertableFirst'
    BY <1>2, <1>5, Moves
    DEF Moved, CheckDatabase, CreateSchema, InsertDbRow, CacheDatabase, PickMeasurement,
        EnsureDatabasePolicies, pg
  <1>6. ASSUME NEW p \in Procs,
               \/ LockTable(p) \/ AddColumn(p) \/ CreateTable(p)
               \/ \E c \in Columns : RegisterColumn(p, c)
        PROVE  HypertableFirst'
    <2>1. (\A q \in Procs : q # p => go'[q] = go[q]) /\ go'[p].pc \notin Labels
      BY <1>6, Moves DEF Moved
    <2>2. UNCHANGED <<hypertables, stored>>
      BY <1>6 DEF LockTable, AddColumn, CreateTable, RegisterColumn, pg
    <2> QED BY <1>2, <2>1, <2>2
  <1>7. ASSUME NEW p \in Procs,
               LockCreate(p) \/ CreateDatabaseSchema(p) \/ CreateDatabaseRow(p)
        PROVE  HypertableFirst'
    BY <1>2, <1>7, Moves
    DEF Moved, LockCreate, CreateDatabaseSchema, CreateDatabaseRow, pg
  <1>8. ASSUME NEW p \in Procs, CreateHypertable(p)
        PROVE  HypertableFirst'
    <2>1. /\ \A q \in Procs : q # p => go'[q] = go[q]
          /\ go'[p].pc \in Labels => TableOf(p)' = TableOf(p)
      BY <1>8, Moves DEF Moved, TableOf, TableLabels
    <2>2. \/ hypertables' = hypertables \cup {TableOf(p)}
          \/ hypertables' = hypertables /\ go'[p].pc \notin Labels
      BY <1>8 DEF CreateHypertable, Return, Idle, Base, TypeOK
    <2>3. stored' = stored
      BY <1>8 DEF CreateHypertable
    <2> QED BY <1>1, <2>1, <2>2, <2>3 DEF HypertableFirst, StoredInHypertables
  <1>9. ASSUME NEW p \in Procs, SetChunks(p) \/ LookupSchema(p) \/ ListColumns(p) \/ Insert(p)
        PROVE  HypertableFirst'
    <2>1. /\ \A q \in Procs : q # p => go'[q] = go[q]
          /\ go[p].pc \in Labels
          /\ go'[p].pc \in Labels => TableOf(p)' = TableOf(p)
      BY <1>9, Moves DEF Moved, TableOf, TableLabels
    <2>2. hypertables' = hypertables /\ \A r \in stored' : r \in stored \/ r.table = TableOf(p)
      BY <1>9 DEF SetChunks, LookupSchema, ListColumns, Insert, pg, Row
    <2> QED BY <1>1, <2>1, <2>2 DEF HypertableFirst, StoredInHypertables
  <1>10. ASSUME NEW p \in Procs,
                \/ LockDrop(p) \/ DropDatabaseRow(p)
                \/ DropDatabaseSchema(p) \/ DropDatabaseMeta(p)
                \/ DropMeasurementTable(p) \/ DropMeasurementMeta(p)
         PROVE  FALSE
    BY <1>10, DropSteps, Moves DEF Moved, DropLabels
  <1>11. CASE CrashRestart
    BY <1>11 DEF CrashRestart, HypertableFirst, StoredInHypertables, Idle, pg
  <1> QED
    BY <1>3, <1>4, <1>5, <1>6, <1>7, <1>8, <1>9, <1>10, <1>11
    DEF Next, TakeLock, Statement, CallRetention

\* Where no client drops databases or measurements, no row is stored in a table that has
\* not become a hypertable: EnsureTable returns an error when create_hypertable fails, and
\* every write repeats it.
THEOREM RowsAreInHypertables ==
    ASSUME Ops \cap {"dropDb", "dropMeasurement"} = {}
    PROVE  Spec => []StoredInHypertables
  <1>1. Init => HypertableFirst
    BY DEF Init, HypertableFirst, StoredInHypertables, Idle
  <1>2. Base /\ HypertableFirst /\ [Next]_vars => HypertableFirst'
    BY HypertableFirstStep
  <1>3. HypertableFirst => StoredInHypertables
    BY DEF HypertableFirst
  <1> QED BY <1>1, <1>2, <1>3, BaseAlways, PTL DEF Spec

-----------------------------------------------------------------------------
(* Columns: what Postgres has, what _influx_meta records, what is cached.   *)

\* The steps that change neither tables, nor their metadata, nor the cached schemas.
Elsewhere(p) ==
    \/ \E r \in Requests : Receive(p, r)
    \/ CheckDatabase(p) \/ CreateSchema(p) \/ InsertDbRow(p) \/ CacheDatabase(p)
    \/ EnsureDatabasePolicies(p) \/ PickMeasurement(p)
    \/ CreateHypertable(p) \/ SetChunks(p)
    \/ LookupSchema(p) \/ ListColumns(p) \/ Insert(p)
    \/ LockCreate(p) \/ CreateDatabaseSchema(p) \/ CreateDatabaseRow(p)
    \/ LockDrop(p) \/ DropDatabaseRow(p)

LEMMA ElsewhereQuiet ==
    ASSUME Base, NEW p \in Procs, Elsewhere(p)
    PROVE  /\ \A q \in Procs : q # p => go'[q] = go[q]
           /\ go[p].pc \notin {"column", "alter", "dropMeta"}
           /\ go'[p].pc \notin {"column", "alter", "dropMeta"}
           /\ UNCHANGED <<columns, metaRows, tables>>
  <1>1. ASSUME NEW r \in Requests, Receive(p, r)
        PROVE  /\ \A q \in Procs : q # p => go'[q] = go[q]
               /\ go[p].pc \notin {"column", "alter", "dropMeta"}
               /\ go'[p].pc \notin {"column", "alter", "dropMeta"}
               /\ UNCHANGED <<columns, metaRows, tables>>
    BY <1>1, Arrives DEF Receive, At, pg, memory
  <1>2. CASE CheckDatabase(p) \/ CreateSchema(p) \/ InsertDbRow(p) \/ CacheDatabase(p)
    BY <1>2, Moves
    DEF Moved, CheckDatabase, CreateSchema, InsertDbRow, CacheDatabase, pg, memory
  <1>3. CASE PickMeasurement(p) \/ CreateHypertable(p) \/ CallRetention(p)
    BY <1>3, Moves
    DEF Moved, PickMeasurement, CreateHypertable, CallRetention, EnsureDatabasePolicies, SetChunks,
        pg, memory
  <1>4. CASE LookupSchema(p) \/ ListColumns(p) \/ Insert(p)
    BY <1>4, Moves DEF Moved, LookupSchema, ListColumns, Insert, pg, memory
  <1>5. CASE LockCreate(p) \/ CreateDatabaseSchema(p) \/ CreateDatabaseRow(p)
    BY <1>5, Moves DEF Moved, LockCreate, CreateDatabaseSchema, CreateDatabaseRow, pg
  <1>6. CASE LockDrop(p) \/ DropDatabaseRow(p)
    BY <1>6, Moves DEF Moved, LockDrop, DropDatabaseRow, pg, memory
  <1> QED BY <1>1, <1>2, <1>3, <1>4, <1>5, <1>6 DEF Elsewhere, CallRetention

\* The steps of Next, as the proofs below take them apart.
LEMMA Cases ==
    ASSUME [Next]_vars
    PROVE  \/ UNCHANGED vars
           \/ CrashRestart
           \/ \E p \in Procs :
                 \/ Elsewhere(p)
                 \/ LockTable(p) \/ (\E c \in Columns : RegisterColumn(p, c))
                 \/ AddColumn(p) \/ CreateTable(p)
                 \/ DropDatabaseSchema(p) \/ DropDatabaseMeta(p)
                 \/ DropMeasurementTable(p) \/ DropMeasurementMeta(p)
  BY DEF Next, TakeLock, Statement, CallRetention, Elsewhere

\* At most one goroutine is between two steps that m.mu covers.
LEMMA OneHolder ==
    ASSUME Base, NEW p \in Procs, NEW q \in Procs,
           go[p].pc \in Holding, go[q].pc \in Holding
    PROVE  p = q
  BY DEF Base, MutexHeld

\* The table of a goroutine in EnsureTable, with what it has of it.
LEMMA InTable ==
    ASSUME Base, NEW p \in Procs, go[p].pc \in {"column", "alter"}
    PROVE  /\ TableOf(p) \in Tables /\ tables[TableOf(p)] \in SUBSET Columns
           /\ tables[TableOf(p)] # None
           /\ go[p].pc \in Holding /\ go[p] \in Running
           /\ go[p].pc = "alter" => go[p].adding \in Columns
  <1>1. TableOf(p) \in Tables /\ go[p] \in Running
    BY WritesTable DEF Base, TableLabels
  <1>2. tables[TableOf(p)] # None /\ tables \in [Tables -> (SUBSET Columns) \cup {None}]
    BY DEF Base, CachedHere, TypeOK
  <1>3. go[p].pc = "alter" => go[p].adding \in Columns
    BY DEF Base, LocalsOK, LocalOK
  <1> QED BY <1>1, <1>2, <1>3 DEF Holding

\* What the steps of EnsureTable that take place in a cached schema do.
LEMMA LockTableStep ==
    ASSUME Base, NEW p \in Procs, LockTable(p)
    PROVE  LET t == TableOf(p) IN
           /\ go[p].pc = "lockTable" /\ t \in Tables /\ go[p] \in Running
           /\ \A q \in Procs : q # p => go'[q] = go[q]
           /\ go'[p].pc = "column" /\ TableOf(p)' = t /\ go'[p].req = go[p].req
           /\ go'[p].at = go[p].at
           /\ go'[p].existed <=> tables[t] # None
           /\ tables'[t] = IF tables[t] = None THEN {} ELSE tables[t]
           /\ go'[p].missing = SchemaRecord(p) \ tables'[t]
           /\ \A u \in Tables : u # t => tables'[u] = tables[u]
           /\ UNCHANGED <<columns, metaRows, stored, acked>>
  <1> DEFINE t == TableOf(p)
             cached == IF tables[t] = None THEN {} ELSE tables[t]
  <1>1. go[p].pc = "lockTable" /\ t \in Tables /\ go[p] \in Running
    BY WritesTable DEF Base, TableLabels, LockTable, At
  <1>2. \A q \in Procs : q # p => go'[q] = go[q]
    BY Moves DEF Moved
  <1>3. go'[p] = [go[p] EXCEPT !.pc = "column", !.existed = tables[t] # None,
                               !.missing = SchemaRecord(p) \ cached]
    BY DEF LockTable, Base, TypeOK
  <1>4. /\ go'[p].pc = "column" /\ go'[p].req = go[p].req /\ go'[p].at = go[p].at
        /\ go'[p].existed <=> tables[t] # None
        /\ go'[p].missing = SchemaRecord(p) \ cached
    BY <1>1, <1>3 DEF Running
  <1>5. tables'[t] = cached /\ \A u \in Tables : u # t => tables'[u] = tables[u]
    BY <1>1 DEF LockTable, Base, TypeOK
  <1>6. UNCHANGED <<columns, metaRows, stored, acked>>
    BY DEF LockTable, pg
  <1> QED BY <1>1, <1>2, <1>4, <1>5, <1>6 DEF TableOf

LEMMA RegisterColumnStep ==
    ASSUME Base, NEW p \in Procs, NEW c \in Columns, RegisterColumn(p, c)
    PROVE  LET t == TableOf(p) IN
           /\ go[p].pc = "column" /\ t \in Tables /\ go[p] \in Running
           /\ \A q \in Procs : q # p => go'[q] = go[q]
           /\ TableOf(p)' = t /\ go'[p].req = go[p].req /\ go'[p].at = go[p].at
           /\ go'[p].existed = go[p].existed
           /\ go[p].existed => go'[p].pc = "alter" /\ go'[p].adding = c
           /\ ~go[p].existed => go'[p].pc = "column"
           /\ go'[p].missing = go[p].missing \ {c}
           /\ tables'[t] = tables[t] \cup {c}
           /\ \A u \in Tables : u # t => tables'[u] = tables[u]
           /\ "metaFails" \notin Faults => metaRows' = metaRows \cup {<<t, c>>}
           /\ UNCHANGED <<columns, stored, acked>>
  <1> DEFINE t == TableOf(p)
  <1>1. go[p].pc = "column" /\ t \in Tables /\ go[p] \in Running
    BY InTable DEF RegisterColumn, At
  <1>2. \A q \in Procs : q # p => go'[q] = go[q]
    BY Moves DEF Moved
  <1>3. go'[p] = [go[p] EXCEPT !.missing = go[p].missing \ {c},
                               !.pc = IF go[p].existed THEN "alter" ELSE "column",
                               !.adding = IF go[p].existed THEN c ELSE None]
    BY DEF RegisterColumn, Base, TypeOK
  <1>4. /\ go'[p].req = go[p].req /\ go'[p].at = go[p].at /\ go'[p].existed = go[p].existed
        /\ go[p].existed => go'[p].pc = "alter" /\ go'[p].adding = c
        /\ ~go[p].existed => go'[p].pc = "column"
        /\ go'[p].missing = go[p].missing \ {c}
    BY <1>1, <1>3 DEF Running
  <1>5. tables'[t] = tables[t] \cup {c} /\ \A u \in Tables : u # t => tables'[u] = tables[u]
    BY <1>1 DEF RegisterColumn, Base, TypeOK
  <1>6. UNCHANGED <<columns, stored, acked>>
    BY DEF RegisterColumn
  <1>7. "metaFails" \notin Faults => metaRows' = metaRows \cup {<<t, c>>}
    BY DEF RegisterColumn, May
  <1> QED BY <1>1, <1>2, <1>4, <1>5, <1>6, <1>7 DEF TableOf

LEMMA AddColumnStep ==
    ASSUME Base, NEW p \in Procs, AddColumn(p)
    PROVE  LET t == TableOf(p) IN
           /\ go[p].pc = "alter" /\ t \in Tables /\ go[p] \in Running
           /\ \A q \in Procs : q # p => go'[q] = go[q]
           /\ go'[p].pc = "column" /\ TableOf(p)' = t /\ go'[p].req = go[p].req
           /\ go'[p].at = go[p].at
           /\ go'[p].existed = go[p].existed /\ go'[p].missing = go[p].missing
           /\ \/ columns' = columns
              \/ columns[t] # None /\ columns'[t] = columns[t] \cup {go[p].adding}
           /\ columns[t] # None /\ "alterFails" \notin Faults
                 => columns'[t] = columns[t] \cup {go[p].adding}
           /\ \A u \in Tables : u # t => columns'[u] = columns[u]
           /\ UNCHANGED <<tables, metaRows, stored, acked>>
  <1> DEFINE t == TableOf(p)
  <1>1. go[p].pc = "alter" /\ t \in Tables /\ go[p] \in Running
    BY InTable DEF AddColumn, At
  <1>2. \A q \in Procs : q # p => go'[q] = go[q]
    BY Moves DEF Moved
  <1>3. go'[p] = [go[p] EXCEPT !.pc = "column", !.adding = None]
    BY DEF AddColumn, Base, TypeOK
  <1>4. /\ go'[p].pc = "column" /\ go'[p].req = go[p].req /\ go'[p].at = go[p].at
        /\ go'[p].existed = go[p].existed /\ go'[p].missing = go[p].missing
    BY <1>1, <1>3 DEF Running
  <1>5. /\ \/ columns' = columns
           \/ /\ columns[t] # None
              /\ columns' = [columns EXCEPT ![t] = columns[t] \cup {go[p].adding}]
        /\ columns[t] # None /\ "alterFails" \notin Faults
              => columns' = [columns EXCEPT ![t] = columns[t] \cup {go[p].adding}]
    BY <1>1 DEF AddColumn, May, Base, TypeOK
  <1>6. UNCHANGED <<tables, metaRows, stored, acked>>
    BY DEF AddColumn, memory
  <1> QED BY <1>1, <1>2, <1>4, <1>5, <1>6 DEF TableOf, Base, TypeOK

LEMMA CreateTableStep ==
    ASSUME Base, NEW p \in Procs, CreateTable(p)
    PROVE  LET t == TableOf(p) IN
           /\ go[p].pc = "column" /\ t \in Tables /\ go[p] \in Running
           /\ \A q \in Procs : q # p => go'[q] = go[q]
           /\ go'[p].pc \in {"hypertable", "idle"}
           /\ go'[p].pc = "hypertable"
                 => /\ go[p].missing = {} /\ go'[p].req = go[p].req /\ go'[p].at = go[p].at
                    /\ TableOf(p)' = t
           /\ \/ columns' = columns
              \/ columns[t] = None /\ columns'[t] = tables[t]
           /\ \A u \in Tables : u # t => columns'[u] = columns[u]
           /\ UNCHANGED <<tables, metaRows, stored, acked>>
  <1>1. go[p].pc = "column" /\ TableOf(p) \in Tables /\ go[p] \in Running
    BY InTable DEF CreateTable, At
  <1>2. /\ \A q \in Procs : q # p => go'[q] = go[q]
        /\ go'[p].pc \in {"hypertable", "idle"}
        /\ go'[p].pc = "hypertable" => go'[p].req = go[p].req /\ go'[p].at = go[p].at
    BY Moves DEF Moved, TableLabels
  <1>3. /\ \/ columns' = columns
           \/ /\ columns[TableOf(p)] = None
              /\ columns' = [columns EXCEPT ![TableOf(p)] = tables[TableOf(p)]]
        /\ UNCHANGED <<tables, metaRows, stored, acked>>
        /\ go[p].missing = {}
    BY DEF CreateTable, NewTable
  <1> QED BY <1>1, <1>2, <1>3 DEF TableOf, Base, TypeOK

\* What DROP DATABASE and DROP MEASUREMENT do to them.
LEMMA DropSchemaStep ==
    ASSUME Base, NEW p \in Procs, DropDatabaseSchema(p)
    PROVE  /\ go[p].pc = "dropSchema" /\ \A q \in Procs : q # p => go'[q] = go[q]
           /\ go'[p].pc \in {"dropMeta", "idle"}
           /\ go'[p].pc = "dropMeta"
                 => DbOf(p)' = DbOf(p) /\ \A t \in TablesOf(DbOf(p)) : columns'[t] = None
           /\ \A t \in Tables : columns'[t] \in {columns[t], None}
           /\ UNCHANGED <<tables, metaRows>>
  <1>1. /\ go[p].pc = "dropSchema" /\ \A q \in Procs : q # p => go'[q] = go[q]
        /\ go'[p].pc \in {"dropMeta", "idle"}
        /\ go'[p].pc = "dropMeta" => DbOf(p)' = DbOf(p)
    BY Moves DEF Moved, DbOf
  <1>2. CASE DropTables(TablesOf(DbOf(p)))
    BY <1>1, <1>2 DEF DropDatabaseSchema, DropTables, TablesOf
  <1>3. CASE Return(p) /\ UNCHANGED columns
    BY <1>1, <1>3 DEF DropDatabaseSchema, Return, Idle, Base, TypeOK
  <1> QED BY <1>2, <1>3 DEF DropDatabaseSchema

LEMMA DropMetaStep ==
    ASSUME Base, NEW p \in Procs, DropDatabaseMeta(p)
    PROVE  /\ go[p].pc = "dropMeta" /\ \A q \in Procs : q # p => go'[q] = go[q]
           /\ go'[p].pc \in {"policies", "idle"}
           /\ \A t \in Tables : tables'[t] = IF t \in TablesOf(DbOf(p)) THEN None ELSE tables[t]
           /\ \A r \in metaRows : r[1] \notin TablesOf(DbOf(p)) => r \in metaRows'
           /\ UNCHANGED <<columns, stored, acked>>
  BY Moves DEF Moved, DropDatabaseMeta

LEMMA DropMeasurementStep ==
    ASSUME Base, NEW p \in Procs, DropMeasurementTable(p) \/ DropMeasurementMeta(p)
    PROVE  /\ go[p].pc \in {"dropTable", "dropTableMeta"}
           /\ \A q \in Procs : q # p => go'[q] = go[q]
           /\ go'[p].pc \in {"dropTableMeta", "idle"}
           /\ \A t \in Tables : columns'[t] \in {columns[t], None}
           /\ UNCHANGED tables
  <1>1. /\ go[p].pc \in {"dropTable", "dropTableMeta"}
        /\ \A q \in Procs : q # p => go'[q] = go[q]
        /\ go'[p].pc \in {"dropTableMeta", "idle"}
    BY Moves DEF Moved
  <1>2. \A t \in Tables : columns'[t] \in {columns[t], None}
    BY DEF DropMeasurementTable, DropMeasurementMeta, DropTables
  <1> QED BY <1>1, <1>2 DEF DropMeasurementTable, DropMeasurementMeta, memory

\* Between DROP SCHEMA and the DELETE of its metadata a database has no tables: m.mu is
\* held, and a table is created under m.mu.
DroppedHasNone ==
    \A p \in Procs : go[p].pc = "dropMeta" => \A t \in TablesOf(DbOf(p)) : columns[t] = None

LEMMA DroppedStep ==
    ASSUME Base, DroppedHasNone, [Next]_vars
    PROVE  DroppedHasNone'
  <1>1. ASSUME NEW p \in Procs, \A q \in Procs : q # p => go'[q] = go[q],
               go'[p].pc = "dropMeta" => \A t \in TablesOf(DbOf(p)') : columns'[t] = None,
               \/ \A t \in Tables : columns'[t] \in {columns[t], None}
               \/ go[p].pc \in Holding
        PROVE  DroppedHasNone'
    <2>1. ASSUME NEW q \in Procs, q # p, go'[q].pc = "dropMeta",
                 NEW t \in TablesOf(DbOf(q)')
          PROVE  columns'[t] = None
      <3>1. go[q].pc = "dropMeta" /\ DbOf(q)' = DbOf(q) /\ t \in Tables
        BY <1>1, <2>1 DEF DbOf, TablesOf
      <3>2. go[p].pc \notin Holding
        BY <2>1, <3>1, OneHolder DEF Holding
      <3> QED BY <1>1, <2>1, <3>1, <3>2 DEF DroppedHasNone
    <2> QED BY <1>1, <2>1 DEF DroppedHasNone
  <1>2. CASE UNCHANGED vars
    BY <1>2 DEF vars, pg, DroppedHasNone, DbOf, TablesOf
  <1>3. CASE CrashRestart
    BY <1>3 DEF CrashRestart, Idle, DroppedHasNone
  <1>4. ASSUME NEW p \in Procs, Elsewhere(p)
        PROVE  DroppedHasNone'
    BY <1>1, <1>4, ElsewhereQuiet
  <1>5. ASSUME NEW p \in Procs, LockTable(p)
        PROVE  DroppedHasNone'
    BY <1>1, <1>5, LockTableStep
  <1>6. ASSUME NEW p \in Procs, NEW c \in Columns, RegisterColumn(p, c)
        PROVE  DroppedHasNone'
    BY <1>1, <1>6, RegisterColumnStep DEF Holding
  <1>7. ASSUME NEW p \in Procs, AddColumn(p)
        PROVE  DroppedHasNone'
    BY <1>1, <1>7, AddColumnStep DEF Holding
  <1>8. ASSUME NEW p \in Procs, CreateTable(p)
        PROVE  DroppedHasNone'
    BY <1>1, <1>8, CreateTableStep DEF Holding
  <1>9. ASSUME NEW p \in Procs, DropDatabaseSchema(p)
        PROVE  DroppedHasNone'
    BY <1>1, <1>9, DropSchemaStep
  <1>10. ASSUME NEW p \in Procs, DropDatabaseMeta(p)
         PROVE  DroppedHasNone'
    BY <1>1, <1>10, DropMetaStep
  <1>11. ASSUME NEW p \in Procs, DropMeasurementTable(p) \/ DropMeasurementMeta(p)
         PROVE  DroppedHasNone'
    BY <1>1, <1>11, DropMeasurementStep
  <1> QED
    BY <1>2, <1>3, <1>4, <1>5, <1>6, <1>7, <1>8, <1>9, <1>10, <1>11, Cases

Ground == Base /\ DroppedHasNone

LEMMA GroundAlways == Spec => []Ground
  <1>1. Init => DroppedHasNone
    BY DEF Init, DroppedHasNone, Idle
  <1>2. Base /\ DroppedHasNone /\ [Next]_vars => DroppedHasNone'
    BY DroppedStep
  <1>3. Base /\ DroppedHasNone => Ground
    BY DEF Ground
  <1> QED BY <1>1, <1>2, <1>3, BaseAlways, PTL DEF Spec

-----------------------------------------------------------------------------
(* Every column of a table is recorded in _influx_meta.                     *)

\* A cached column is recorded as well, and so is one that is about to be added.
CachedRecorded ==
    \A t \in Tables : tables[t] # None => \A c \in tables[t] : <<t, c>> \in metaRows
AddedRecorded ==
    \A p \in Procs : go[p].pc = "alter" => <<TableOf(p), go[p].adding>> \in metaRows
Recorded == ColumnsRecorded /\ CachedRecorded /\ AddedRecorded

LEMMA RecordedStep ==
    ASSUME "dropMeasurement" \notin Ops, "metaFails" \notin Faults,
           Ground, Recorded, [Next]_vars
    PROVE  Recorded'
  <1> USE DEF Ground
  <1>1. ASSUME NEW p \in Procs, \A q \in Procs : q # p => go'[q] = go[q],
               metaRows \subseteq metaRows',
               go'[p].pc = "alter" => <<TableOf(p)', go'[p].adding>> \in metaRows'
        PROVE  AddedRecorded'
    BY <1>1 DEF Recorded, AddedRecorded, TableOf
  <1>2. CASE UNCHANGED vars
    BY <1>2 DEF vars, pg, memory, Recorded, ColumnsRecorded, CachedRecorded, AddedRecorded, TableOf
  <1>3. CASE CrashRestart
    <2>1. /\ columns' = columns /\ metaRows' = metaRows
          /\ \A t \in Tables :
                tables'[t] # None => \A c \in tables'[t] : <<t, c>> \in metaRows
          /\ \A p \in Procs : go'[p].pc # "alter"
      BY <1>3 DEF CrashRestart, Idle, pg
    <2> QED BY <2>1 DEF Recorded, ColumnsRecorded, CachedRecorded, AddedRecorded
  <1>4. ASSUME NEW p \in Procs, Elsewhere(p)
        PROVE  Recorded'
    BY <1>1, <1>4, ElsewhereQuiet DEF Recorded, ColumnsRecorded, CachedRecorded
  <1>5. ASSUME NEW p \in Procs, LockTable(p)
        PROVE  Recorded'
    <2>1. ColumnsRecorded' /\ CachedRecorded'
      BY <1>5, LockTableStep DEF Recorded, ColumnsRecorded, CachedRecorded
    <2>2. AddedRecorded'
      BY <1>1, <1>5, LockTableStep
    <2> QED BY <2>1, <2>2 DEF Recorded
  <1>6. ASSUME NEW p \in Procs, NEW c \in Columns, RegisterColumn(p, c)
        PROVE  Recorded'
    <2> DEFINE t == TableOf(p)
    <2>1. /\ go[p].pc = "column" /\ TableOf(p)' = t /\ metaRows' = metaRows \cup {<<t, c>>}
          /\ go'[p].pc = "alter" => go'[p].adding = c
          /\ \A q \in Procs : q # p => go'[q] = go[q]
      BY <1>6, RegisterColumnStep
    <2>2. /\ columns' = columns /\ tables'[t] = tables[t] \cup {c}
          /\ \A u \in Tables : u # t => tables'[u] = tables[u]
      BY <1>6, RegisterColumnStep
    <2>3. tables[t] # None
      BY <2>1, InTable
    <2>4. ColumnsRecorded' /\ CachedRecorded'
      BY <2>1, <2>2, <2>3 DEF Recorded, ColumnsRecorded, CachedRecorded
    <2>5. AddedRecorded'
      BY <1>1, <2>1
    <2> QED BY <2>4, <2>5 DEF Recorded
  <1>7. ASSUME NEW p \in Procs, AddColumn(p)
        PROVE  Recorded'
    <2>1. AddedRecorded' /\ CachedRecorded'
      BY <1>1, <1>7, AddColumnStep DEF Recorded, CachedRecorded
    <2>2. <<TableOf(p), go[p].adding>> \in metaRows
      BY <1>7, AddColumnStep DEF Recorded, AddedRecorded
    <2>3. ColumnsRecorded'
      BY <1>7, <2>2, AddColumnStep DEF Recorded, ColumnsRecorded
    <2> QED BY <2>1, <2>3 DEF Recorded
  <1>8. ASSUME NEW p \in Procs, CreateTable(p)
        PROVE  Recorded'
    <2>1. AddedRecorded' /\ CachedRecorded'
      BY <1>1, <1>8, CreateTableStep DEF Recorded, CachedRecorded
    <2>2. tables[TableOf(p)] # None
      BY <1>8, CreateTableStep, InTable
    <2>3. ColumnsRecorded'
      BY <1>8, <2>2, CreateTableStep DEF Recorded, ColumnsRecorded, CachedRecorded
    <2> QED BY <2>1, <2>3 DEF Recorded
  <1>9. ASSUME NEW p \in Procs, DropDatabaseSchema(p)
        PROVE  Recorded'
    <2>1. AddedRecorded' /\ CachedRecorded'
      BY <1>1, <1>9, DropSchemaStep DEF Recorded, CachedRecorded
    <2>2. ColumnsRecorded'
      BY <1>9, DropSchemaStep DEF Recorded, ColumnsRecorded
    <2> QED BY <2>1, <2>2 DEF Recorded
  <1>10. ASSUME NEW p \in Procs, DropDatabaseMeta(p)
         PROVE  Recorded'
    <2> DEFINE gone == TablesOf(DbOf(p))
    <2>1. /\ go[p].pc = "dropMeta" /\ \A q \in Procs : q # p => go'[q] = go[q]
          /\ go'[p].pc \in {"policies", "idle"} /\ columns' = columns
          /\ \A t \in Tables : tables'[t] = IF t \in gone THEN None ELSE tables[t]
          /\ \A r \in metaRows : r[1] \notin gone => r \in metaRows'
      BY <1>10, DropMetaStep
    <2>2. \A t \in gone : columns[t] = None
      BY <2>1 DEF DroppedHasNone
    <2>3. ColumnsRecorded' /\ CachedRecorded'
      BY <2>1, <2>2 DEF Recorded, ColumnsRecorded, CachedRecorded
    <2>4. \A q \in Procs : go'[q].pc # "alter"
      BY <2>1, OneHolder DEF Holding
    <2> QED BY <2>3, <2>4 DEF Recorded, AddedRecorded
  <1>11. ASSUME NEW p \in Procs, DropMeasurementTable(p) \/ DropMeasurementMeta(p)
         PROVE  FALSE
    BY <1>11, DropMeasurementStep, DropSteps
  <1> QED
    BY <1>2, <1>3, <1>4, <1>5, <1>6, <1>7, <1>8, <1>9, <1>10, <1>11, Cases

\* Where no client drops measurements and _influx_meta can be written, every column of a
\* measurement table is recorded there, DROP DATABASE, failures of the other statements
\* and crashes included: a column is recorded before it is added.
THEOREM MetadataIsComplete ==
    ASSUME "dropMeasurement" \notin Ops, "metaFails" \notin Faults
    PROVE  Spec => []ColumnsRecorded
  <1>1. Init => Recorded
    BY DEF Init, Recorded, ColumnsRecorded, CachedRecorded, AddedRecorded, Idle
  <1>2. Ground /\ Recorded /\ [Next]_vars => Recorded'
    BY RecordedStep
  <1>3. Recorded => ColumnsRecorded
    BY DEF Recorded
  <1> QED BY <1>1, <1>2, <1>3, GroundAlways, PTL DEF Spec

-----------------------------------------------------------------------------
(* Every cached column is a column of the table.                            *)

\* The ALTER TABLE that adds column c to table t is the next step of its goroutine.
Adding(t, c) == \E p \in Procs : go[p].pc = "alter" /\ TableOf(p) = t /\ go[p].adding = c

CachedOrAdding ==
    \A t \in Tables :
        columns[t] # None /\ tables[t] # None => \A c \in tables[t] : c \in columns[t] \/ Adding(t, c)

\* A table that is not cached does not exist; so one whose schema EnsureTable did not find
\* does not exist either, until it creates it.
UncachedIsNew == \A t \in Tables : tables[t] = None => columns[t] = None
NewHasNone ==
    \A p \in Procs :
        /\ go[p].pc \in {"column", "alter"} /\ ~go[p].existed => columns[TableOf(p)] = None
        /\ go[p].pc = "alter" => go[p].existed
Cached == CachedOrAdding /\ UncachedIsNew /\ NewHasNone

LEMMA CachedStep ==
    ASSUME Faults \cap {"alterFails", "crash"} = {}, Ground, Cached, [Next]_vars
    PROVE  Cached'
  <1> USE DEF Ground
  \* A step that creates no table, and evicts none, outside the ALTER of p.
  <1>1. ASSUME NEW p \in Procs, \A q \in Procs : q # p => go'[q] = go[q],
               go[p].pc # "alter", go'[p].pc \notin {"column", "alter"},
               \A t \in Tables : columns'[t] \in {columns[t], None},
               tables' = tables
        PROVE  Cached'
    <2>1. \A t \in Tables, c \in Columns : Adding(t, c) => Adding(t, c)'
      BY <1>1 DEF Adding, TableOf
    <2>2. \A t \in Tables : tables[t] # None => tables[t] \subseteq Columns
      BY DEF Base, TypeOK
    <2>3. CachedOrAdding' /\ UncachedIsNew'
      BY <1>1, <2>1, <2>2 DEF Cached, CachedOrAdding, UncachedIsNew
    <2>4. NewHasNone'
      <3>1. ASSUME NEW q \in Procs, go'[q].pc \in {"column", "alter"}
            PROVE  q # p /\ go[q] = go'[q] /\ TableOf(q)' = TableOf(q) /\ TableOf(q) \in Tables
        BY <1>1, <3>1, InTable DEF TableOf
      <3> QED BY <1>1, <3>1 DEF Cached, NewHasNone
    <2> QED BY <2>3, <2>4 DEF Cached
  <1>2. CASE UNCHANGED vars
    BY <1>2 DEF vars, pg, memory, Cached, CachedOrAdding, UncachedIsNew, NewHasNone, Adding, TableOf
  <1>3. CASE CrashRestart
    BY <1>3 DEF CrashRestart
  <1>4. ASSUME NEW p \in Procs, Elsewhere(p)
        PROVE  Cached'
    BY <1>1, <1>4, ElsewhereQuiet
  <1>5. ASSUME NEW p \in Procs, LockTable(p)
        PROVE  Cached'
    <2> DEFINE t == TableOf(p)
    <2>1. /\ go[p].pc = "lockTable" /\ t \in Tables
          /\ \A q \in Procs : q # p => go'[q] = go[q]
          /\ go'[p].pc = "column" /\ TableOf(p)' = t
          /\ go'[p].existed <=> tables[t] # None
      BY <1>5, LockTableStep
    <2>2. /\ tables'[t] = IF tables[t] = None THEN {} ELSE tables[t]
          /\ \A u \in Tables : u # t => tables'[u] = tables[u]
          /\ columns' = columns
      BY <1>5, LockTableStep
    <2>3. ASSUME NEW u \in Tables, NEW c, Adding(u, c)
          PROVE  Adding(u, c)'
      <3>1. PICK q \in Procs : go[q].pc = "alter" /\ TableOf(q) = u /\ go[q].adding = c
        BY <2>3 DEF Adding
      <3>2. go'[q] = go[q] /\ TableOf(q)' = TableOf(q)
        BY <2>1, <3>1 DEF TableOf
      <3> QED BY <3>1, <3>2 DEF Adding
    <2>4. CachedOrAdding'
      BY <2>1, <2>2, <2>3 DEF Cached, CachedOrAdding, UncachedIsNew
    <2>5. UncachedIsNew'
      BY <2>1, <2>2 DEF Cached, UncachedIsNew
    <2>6. NewHasNone'
      BY <2>1, <2>2 DEF Cached, NewHasNone, UncachedIsNew, TableOf
    <2> QED BY <2>4, <2>5, <2>6 DEF Cached
  <1>6. ASSUME NEW p \in Procs, NEW c \in Columns, RegisterColumn(p, c)
        PROVE  Cached'
    <2> DEFINE t == TableOf(p)
    <2>1. /\ go[p].pc = "column" /\ t \in Tables /\ TableOf(p)' = t
          /\ \A q \in Procs : q # p => go'[q] = go[q]
          /\ go'[p].existed = go[p].existed
          /\ go[p].existed => go'[p].pc = "alter" /\ go'[p].adding = c
          /\ ~go[p].existed => go'[p].pc = "column"
      BY <1>6, RegisterColumnStep
    <2>2. /\ columns' = columns /\ tables'[t] = tables[t] \cup {c}
          /\ \A u \in Tables : u # t => tables'[u] = tables[u]
      BY <1>6, RegisterColumnStep
    <2>3. /\ tables[t] # None /\ tables'[t] # None
          /\ ~go[p].existed => columns[t] = None
      <3>1. tables[t] # None /\ tables[t] \in SUBSET Columns
        BY <2>1, InTable
      <3>2. tables[t] \cup {c} \in SUBSET Columns
        BY <3>1
      <3>3. tables'[t] # None
        BY <2>2, <3>2, NoneAssumption
      <3>4. ~go[p].existed => columns[t] = None
        BY <2>1, Zenon DEF Cached, NewHasNone
      <3> QED BY <3>1, <3>3, <3>4
    <2>4. \A u \in Tables : \A d : Adding(u, d) => Adding(u, d)'
      BY <2>1 DEF Adding, TableOf
    <2>5. \A u \in Tables : u = t /\ columns[u] # None => Adding(u, c)'
      <3>1. columns[t] # None => go'[p].pc = "alter" /\ go'[p].adding = c
        BY <2>1, <2>3, Zenon
      <3> QED BY <2>1, <3>1 DEF Adding
    <2>6. CachedOrAdding'
      BY <2>2, <2>3, <2>4, <2>5 DEF Cached, CachedOrAdding
    <2>7. UncachedIsNew'
      BY <2>2, <2>3 DEF Cached, UncachedIsNew
    <2>8. NewHasNone'
      BY <2>1, <2>2, <2>3 DEF Cached, NewHasNone, TableOf
    <2> QED BY <2>6, <2>7, <2>8 DEF Cached
  <1>7. ASSUME NEW p \in Procs, AddColumn(p)
        PROVE  Cached'
    <2> DEFINE t == TableOf(p)
    <2>1. /\ go[p].pc = "alter" /\ t \in Tables /\ TableOf(p)' = t
          /\ \A q \in Procs : q # p => go'[q] = go[q]
          /\ go'[p].pc = "column" /\ go'[p].existed = go[p].existed
      BY <1>7, AddColumnStep
    <2>2. /\ columns[t] # None => columns'[t] = columns[t] \cup {go[p].adding}
          /\ columns[t] = None => columns' = columns
          /\ \A u \in Tables : u # t => columns'[u] = columns[u]
          /\ tables' = tables
      BY <1>7, AddColumnStep
    <2>3. /\ columns[t] # None => columns'[t] # None /\ go[p].adding \in columns'[t]
          /\ go[p].existed
          /\ tables[t] # None
      <3>1. columns[t] # None => columns[t] \subseteq Columns
        BY <2>1 DEF Base, TypeOK
      <3>2. go[p].adding \in Columns /\ tables[t] # None
        BY <2>1, InTable
      <3>3. go[p].existed
        BY <2>1, Zenon DEF Cached, NewHasNone
      <3>4. columns[t] # None
               => columns'[t] \in SUBSET Columns /\ go[p].adding \in columns'[t]
        BY <2>2, <3>1, <3>2
      <3> QED BY <3>2, <3>3, <3>4, NoneAssumption
    <2>4. \A u \in Tables : \A d : Adding(u, d) => Adding(u, d)' \/ (u = t /\ d = go[p].adding)
      BY <2>1 DEF Adding, TableOf
    <2>5. CachedOrAdding'
      BY <2>1, <2>2, <2>3, <2>4 DEF Cached, CachedOrAdding
    <2>6. UncachedIsNew'
      BY <2>1, <2>2, <2>3 DEF Cached, UncachedIsNew
    <2>7. NewHasNone'
      <3>1. \A q \in Procs : q # p => go'[q].pc \notin {"column", "alter"}
        BY <2>1, OneHolder DEF Holding
      <3> QED BY <2>1, <2>3, <3>1 DEF NewHasNone
    <2> QED BY <2>5, <2>6, <2>7 DEF Cached
  <1>8. ASSUME NEW p \in Procs, CreateTable(p)
        PROVE  Cached'
    <2> DEFINE t == TableOf(p)
    <2>1. /\ go[p].pc = "column" /\ t \in Tables
          /\ \A q \in Procs : q # p => go'[q] = go[q]
          /\ go'[p].pc \in {"hypertable", "idle"}
          /\ columns' = columns \/ (columns[t] = None /\ columns'[t] = tables[t])
          /\ \A u \in Tables : u # t => columns'[u] = columns[u]
          /\ tables' = tables
      BY <1>8, CreateTableStep
    <2>2. \A q \in Procs : go'[q].pc \notin {"column", "alter"}
      BY <2>1, OneHolder DEF Holding
    <2>3. tables[t] # None
      BY <2>1, InTable
    <2>4. \A u \in Tables : \A d : ~Adding(u, d)
      BY <2>1, OneHolder DEF Adding, Holding
    <2>5. CachedOrAdding'
      BY <2>1, <2>4 DEF Cached, CachedOrAdding
    <2>6. UncachedIsNew'
      BY <2>1, <2>3 DEF Cached, UncachedIsNew
    <2> QED BY <2>2, <2>5, <2>6 DEF Cached, NewHasNone
  <1>9. ASSUME NEW p \in Procs, DropDatabaseSchema(p)
        PROVE  Cached'
    BY <1>1, <1>9, DropSchemaStep
  <1>10. ASSUME NEW p \in Procs, DropDatabaseMeta(p)
         PROVE  Cached'
    <2> DEFINE gone == TablesOf(DbOf(p))
    <2>1. /\ go[p].pc = "dropMeta" /\ \A q \in Procs : q # p => go'[q] = go[q]
          /\ go'[p].pc \in {"policies", "idle"} /\ columns' = columns
          /\ \A t \in Tables : tables'[t] = IF t \in gone THEN None ELSE tables[t]
      BY <1>10, DropMetaStep
    <2>2. \A t \in gone : columns[t] = None
      BY <2>1 DEF DroppedHasNone
    <2>3. \A q \in Procs : go'[q].pc \notin {"column", "alter"}
      BY <2>1, OneHolder DEF Holding
    <2>4. \A u \in Tables : \A d : ~Adding(u, d)
      BY <2>1, OneHolder DEF Adding, Holding
    <2>5. CachedOrAdding' /\ UncachedIsNew'
      BY <2>1, <2>2, <2>4 DEF Cached, CachedOrAdding, UncachedIsNew
    <2> QED BY <2>3, <2>5 DEF Cached, NewHasNone
  <1>11. ASSUME NEW p \in Procs, DropMeasurementTable(p) \/ DropMeasurementMeta(p)
         PROVE  Cached'
    BY <1>1, <1>11, DropMeasurementStep
  <1> QED
    BY <1>2, <1>3, <1>4, <1>5, <1>6, <1>7, <1>8, <1>9, <1>10, <1>11, Cases

\* As long as every ALTER TABLE succeeds and the process lives, a column that is cached
\* for a table that exists is a column of it, unless EnsureTable is at work on the table:
\* DROP DATABASE and DROP MEASUREMENT at any moment, and failures of all the other
\* statements, do not break it.
THEOREM CacheNamesColumns ==
    ASSUME Faults \cap {"alterFails", "crash"} = {}
    PROVE  Spec => []CachedAreColumns
  <1>1. Init => Cached
    BY DEF Init, Cached, CachedOrAdding, UncachedIsNew, NewHasNone, Idle
  <1>2. Ground /\ Cached /\ [Next]_vars => Cached'
    BY CachedStep
  <1>3. Cached => CachedAreColumns
    BY DEF Cached, CachedOrAdding, Adding, CachedAreColumns
  <1> QED BY <1>1, <1>2, <1>3, GroundAlways, PTL DEF Spec

-----------------------------------------------------------------------------
(* A write that was acknowledged is stored.                                 *)

\* The columns of the first record of a measurement are in the cached schema from
\* EnsureTable on, and in the list InsertBatch makes of it.
SchemaCovers ==
    \A p \in Procs :
        /\ go[p].pc \in {"column", "alter"}
              => SchemaRecord(p) \subseteq tables[TableOf(p)] \cup go[p].missing
        /\ go[p].pc \in {"hypertable", "chunks", "lookup", "list"}
              => tables[TableOf(p)] # None /\ SchemaRecord(p) \subseteq tables[TableOf(p)]
        /\ go[p].pc \in {"list", "insert"} => SchemaRecord(p) \subseteq go[p].listed

\* The clause of goroutine p.
Covers(p) ==
    /\ go[p].pc \in {"column", "alter"}
          => SchemaRecord(p) \subseteq tables[TableOf(p)] \cup go[p].missing
    /\ go[p].pc \in {"hypertable", "chunks", "lookup", "list"}
          => tables[TableOf(p)] # None /\ SchemaRecord(p) \subseteq tables[TableOf(p)]
    /\ go[p].pc \in {"list", "insert"} => SchemaRecord(p) \subseteq go[p].listed

CoversLabels == {"column", "alter", "hypertable", "chunks", "lookup", "list", "insert"}

\* Cached schemas that only grow go on covering what the other goroutines rely on.
LEMMA OthersCovered ==
    ASSUME Base, SchemaCovers, NEW p \in Procs, \A q \in Procs : q # p => go'[q] = go[q],
           \A t \in Tables : tables[t] # None => tables'[t] # None /\ tables[t] \subseteq tables'[t],
           Covers(p)'
    PROVE  SchemaCovers'
  <1>1. ASSUME NEW q \in Procs, q # p
        PROVE  Covers(q)'
    <2>1. /\ go'[q] = go[q] /\ TableOf(q)' = TableOf(q) /\ SchemaRecord(q)' = SchemaRecord(q)
      BY <1>1 DEF TableOf, SchemaRecord
    <2>2. go[q].pc \in CoversLabels => TableOf(q) \in Tables
      BY WritesTable DEF Base, TableLabels, CoversLabels
    <2>3. go[q].pc \in {"column", "alter"} => tables[TableOf(q)] # None
      BY DEF Base, CachedHere
    <2>4. Covers(q)
      BY DEF SchemaCovers, Covers
    <2> QED BY <2>1, <2>2, <2>3, <2>4 DEF Covers, CoversLabels
  <1> QED BY <1>1 DEF SchemaCovers, Covers

\* The records of a measurement always have the same tags, and in a write no record of it has
\* a column that the first one lacks.
SameTags ==
    \A b1, b2 \in Batches : \A m \in DOMAIN b1 \cap DOMAIN b2 :
       \A i \in DOMAIN b1[m], j \in DOMAIN b2[m] : b1[m][i] \cap Tags = b2[m][j] \cap Tags
SameShape == \A b \in Batches : \A m \in DOMAIN b : \A i \in DOMAIN b[m] : b[m][i] \subseteq b[m][1]

\* Then the tags of a cached or recorded schema are those of the writes to its measurement.
TagOf(m, c) == \E b \in Batches : m \in DOMAIN b /\ c \in b[m][1]
CachedTags == \A t \in Tables : tables[t] # None => \A c \in tables[t] \cap Tags : TagOf(t[2], c)
RecordedTags == \A t \in Tables : \A c \in Tags : <<t, c>> \in metaRows => TagOf(t[2], c)
MissingOwn == \A p \in Procs : go[p].pc \in {"column", "alter"} => go[p].missing \subseteq SchemaRecord(p)
OwnTags == CachedTags /\ RecordedTags /\ MissingOwn

\* The batch of a goroutine at work on a measurement.
LEMMA OwnBatch ==
    ASSUME Base, NEW p \in Procs, go[p].pc \in TableLabels
    PROVE  /\ go[p].req.batch \in Batches /\ go[p].at \in DOMAIN go[p].req.batch
           /\ TableOf(p)[2] = go[p].at
           /\ go[p].req.batch[go[p].at] \in Seq(SUBSET Columns)
           /\ 1 \in DOMAIN go[p].req.batch[go[p].at]
  <1>1. go[p].req.op = "write" /\ go[p].at \in DOMAIN go[p].req.batch /\ go[p] \in Running
    BY WritesTable DEF Base, LocalsOK, LocalOK
  <1>2. go[p].req.batch \in Batches
    BY <1>1, RequestFields DEF Running
  <1>3. go[p].req.batch[go[p].at] \in Seq(SUBSET Columns) /\ go[p].req.batch[go[p].at] # <<>>
    BY <1>1, <1>2
  <1> QED BY <1>1, <1>2, <1>3 DEF TableOf

LEMMA OwnTagsStep ==
    ASSUME Base, OwnTags, [Next]_vars
    PROVE  OwnTags'
  <1>1. ASSUME NEW p \in Procs, \A q \in Procs : q # p => go'[q] = go[q],
               go'[p].pc \in {"column", "alter"} => go'[p].missing \subseteq SchemaRecord(p)'
        PROVE  MissingOwn'
    BY <1>1 DEF OwnTags, MissingOwn, SchemaRecord
  <1>2. ASSUME \A t \in Tables : tables'[t] \in {tables[t], None}, metaRows' \subseteq metaRows
        PROVE  CachedTags' /\ RecordedTags'
    BY <1>2 DEF OwnTags, CachedTags, RecordedTags
  <1>3. CASE UNCHANGED vars
    BY <1>3 DEF vars, pg, memory, OwnTags, CachedTags, RecordedTags, MissingOwn, SchemaRecord
  <1>4. CASE CrashRestart
    <2>1. /\ metaRows' = metaRows /\ \A p \in Procs : go'[p].pc = "idle"
          /\ \A t \in Tables :
                tables'[t] # None => \A c \in tables'[t] : <<t, c>> \in metaRows
      BY <1>4 DEF CrashRestart, Idle, pg
    <2> QED BY <2>1 DEF OwnTags, CachedTags, RecordedTags, MissingOwn
  <1>5. ASSUME NEW p \in Procs, Elsewhere(p)
        PROVE  OwnTags'
    BY <1>1, <1>2, <1>5, ElsewhereQuiet DEF OwnTags
  <1>6. ASSUME NEW p \in Procs, LockTable(p)
        PROVE  OwnTags'
    <2>1. MissingOwn'
      BY <1>1, <1>6, LockTableStep DEF SchemaRecord
    <2>2. CachedTags' /\ RecordedTags'
      BY <1>6, LockTableStep DEF OwnTags, CachedTags, RecordedTags
    <2> QED BY <2>1, <2>2 DEF OwnTags
  <1>7. ASSUME NEW p \in Procs, NEW c \in Columns, RegisterColumn(p, c)
        PROVE  OwnTags'
    <2> DEFINE t == TableOf(p)
    <2>1. /\ go[p].pc = "column" /\ t \in Tables /\ \A q \in Procs : q # p => go'[q] = go[q]
          /\ go'[p].req = go[p].req /\ go'[p].at = go[p].at
          /\ go'[p].missing = go[p].missing \ {c}
          /\ tables'[t] = tables[t] \cup {c}
          /\ \A u \in Tables : u # t => tables'[u] = tables[u]
      BY <1>7, RegisterColumnStep
    <2>2. c \in go[p].missing /\ metaRows' \subseteq metaRows \cup {<<t, c>>}
      BY <1>7 DEF RegisterColumn, May
    <2>3. TagOf(t[2], c)
      <3>1. c \in SchemaRecord(p)
        BY <2>1, <2>2 DEF OwnTags, MissingOwn
      <3> QED BY <2>1, <3>1, OwnBatch DEF TableLabels, TagOf, SchemaRecord
    <2>4. MissingOwn'
      BY <1>1, <2>1 DEF OwnTags, MissingOwn, SchemaRecord
    <2>5. tables[t] # None
      BY <2>1, InTable
    <2>6. CachedTags'
      BY <2>1, <2>3, <2>5 DEF OwnTags, CachedTags
    <2>7. RecordedTags'
      BY <2>2, <2>3 DEF OwnTags, RecordedTags
    <2> QED BY <2>4, <2>6, <2>7 DEF OwnTags
  <1>8. ASSUME NEW p \in Procs, AddColumn(p)
        PROVE  OwnTags'
    <2>1. MissingOwn'
      BY <1>1, <1>8, AddColumnStep DEF OwnTags, MissingOwn, SchemaRecord
    <2> QED BY <1>2, <1>8, <2>1, AddColumnStep DEF OwnTags
  <1>9. ASSUME NEW p \in Procs, CreateTable(p)
        PROVE  OwnTags'
    <2>1. MissingOwn'
      BY <1>1, <1>9, CreateTableStep
    <2> QED BY <1>2, <1>9, <2>1, CreateTableStep DEF OwnTags
  <1>10. ASSUME NEW p \in Procs, DropDatabaseSchema(p)
         PROVE  OwnTags'
    <2>1. MissingOwn'
      BY <1>1, <1>10, DropSchemaStep
    <2> QED BY <1>2, <1>10, <2>1, DropSchemaStep DEF OwnTags
  <1>11. ASSUME NEW p \in Procs, DropDatabaseMeta(p)
         PROVE  OwnTags'
    <2>1. MissingOwn'
      BY <1>1, <1>11, DropMetaStep
    <2>2. metaRows' \subseteq metaRows
      BY <1>11 DEF DropDatabaseMeta, May
    <2> QED BY <1>2, <1>11, <2>1, <2>2, DropMetaStep DEF OwnTags
  <1>12. ASSUME NEW p \in Procs, DropMeasurementTable(p) \/ DropMeasurementMeta(p)
         PROVE  OwnTags'
    <2>1. MissingOwn'
      BY <1>1, <1>12, DropMeasurementStep
    <2>2. metaRows' \subseteq metaRows
      BY <1>12 DEF DropMeasurementTable, DropMeasurementMeta, May
    <2> QED BY <1>2, <1>12, <2>1, <2>2, DropMeasurementStep DEF OwnTags
  <1> QED
    BY <1>3, <1>4, <1>5, <1>6, <1>7, <1>8, <1>9, <1>10, <1>11, <1>12, Cases

\* InsertBatch stores a record as it is, if the listed columns cover it: no tag can have been
\* added to the schema since they were listed.
LEMMA PlacedAsIs ==
    ASSUME SameTags, Base, OwnTags, NEW p \in Procs, go[p].pc = "insert",
           SchemaRecord(p) \subseteq go[p].listed,
           NEW r \in Records(p), r \subseteq go[p].listed
    PROVE  Placements(p, r) = {r}
  <1>1. TableOf(p) \in Tables
    BY WritesTable DEF Base, TableLabels
  <1>2. ASSUME tables[TableOf(p)] # None, NEW c \in tables[TableOf(p)] \cap Tags
        PROVE  c \in go[p].listed
    <2> DEFINE m == go[p].at
               mine == go[p].req.batch
    <2>1. mine \in Batches /\ m \in DOMAIN mine /\ 1 \in DOMAIN mine[m] /\ TableOf(p)[2] = m
      BY OwnBatch DEF TableLabels
    <2>2. PICK b \in Batches : m \in DOMAIN b /\ c \in b[m][1]
      BY <1>1, <1>2, <2>1 DEF OwnTags, CachedTags, TagOf
    <2>3. 1 \in DOMAIN b[m]
      BY <2>2
    <2>4. c \in mine[m][1]
      BY <1>2, <2>1, <2>2, <2>3 DEF SameTags
    <2> QED BY <2>4 DEF SchemaRecord
  <1>3. ~(Grown(p) /\ ~ tables[TableOf(p)] \cap Tags \subseteq go[p].listed)
    BY <1>2 DEF Grown
  <1>4. r \cap go[p].listed = r
    OBVIOUS
  <1> QED BY <1>3, <1>4, Zenon DEF Placements

LEMMA AckedStep ==
    ASSUME "dropDb" \notin Ops, SameTags, SameShape,
           Base, OwnTags, SchemaCovers, AckedIsStored, [Next]_vars
    PROVE  SchemaCovers' /\ AckedIsStored'
  <1>1. CASE UNCHANGED vars
    BY <1>1 DEF vars, pg, memory, SchemaCovers, AckedIsStored, SchemaRecord, TableOf
  <1>2. CASE CrashRestart
    BY <1>2 DEF CrashRestart, SchemaCovers, AckedIsStored, Idle, pg
  <1>3. ASSUME NEW p \in Procs, \A q \in Procs : q # p => go'[q] = go[q],
               go'[p].pc \notin CoversLabels, UNCHANGED <<tables, stored, acked>>
        PROVE  SchemaCovers' /\ AckedIsStored'
    <2>1. Covers(p)'
      BY <1>3 DEF Covers, CoversLabels
    <2> QED BY <1>3, <2>1, OthersCovered DEF AckedIsStored
  <1>4. ASSUME NEW p \in Procs, NEW r \in Requests, Receive(p, r)
        PROVE  SchemaCovers' /\ AckedIsStored'
    BY <1>3, <1>4, Arrives DEF CoversLabels, pg, memory
  <1>5. ASSUME NEW p \in Procs,
               \/ CheckDatabase(p) \/ CreateSchema(p) \/ InsertDbRow(p) \/ CacheDatabase(p)
               \/ EnsureDatabasePolicies(p)
        PROVE  SchemaCovers' /\ AckedIsStored'
    <2>1. (\A q \in Procs : q # p => go'[q] = go[q]) /\ go'[p].pc \notin CoversLabels
      BY <1>5, Moves DEF Moved, CoversLabels
    <2>2. UNCHANGED <<tables, stored, acked>>
      BY <1>5
      DEF CheckDatabase, CreateSchema, InsertDbRow, CacheDatabase, EnsureDatabasePolicies, pg, memory
    <2> QED BY <1>3, <2>1, <2>2
  <1>6. ASSUME NEW p \in Procs,
               \/ PickMeasurement(p) \/ LockCreate(p)
               \/ CreateDatabaseSchema(p) \/ CreateDatabaseRow(p)
        PROVE  SchemaCovers' /\ AckedIsStored'
    <2>1. (\A q \in Procs : q # p => go'[q] = go[q]) /\ go'[p].pc \notin CoversLabels
      BY <1>6, Moves DEF Moved, CoversLabels
    <2>2. UNCHANGED <<tables, stored, acked>>
      BY <1>6
      DEF PickMeasurement, LockCreate, CreateDatabaseSchema, CreateDatabaseRow, pg, memory
    <2> QED BY <1>3, <2>1, <2>2
  <1>7. ASSUME NEW p \in Procs, LockTable(p)
        PROVE  SchemaCovers' /\ AckedIsStored'
    <2> DEFINE t == TableOf(p)
    <2>1. /\ t \in Tables /\ \A q \in Procs : q # p => go'[q] = go[q]
          /\ go'[p].pc = "column" /\ TableOf(p)' = t /\ SchemaRecord(p)' = SchemaRecord(p)
          /\ tables'[t] = IF tables[t] = None THEN {} ELSE tables[t]
          /\ go'[p].missing = SchemaRecord(p) \ tables'[t]
          /\ \A u \in Tables : u # t => tables'[u] = tables[u]
          /\ UNCHANGED <<stored, acked>>
      BY <1>7, LockTableStep DEF SchemaRecord
    <2>2. Covers(p)'
      BY <2>1 DEF Covers
    <2> QED BY <2>1, <2>2, OthersCovered DEF AckedIsStored
  <1>8. ASSUME NEW p \in Procs, NEW c \in Columns, RegisterColumn(p, c)
        PROVE  SchemaCovers' /\ AckedIsStored'
    <2> DEFINE t == TableOf(p)
    <2>1. /\ go[p].pc = "column" /\ t \in Tables /\ \A q \in Procs : q # p => go'[q] = go[q]
          /\ go'[p].pc \in {"column", "alter", "idle"}
          /\ TableOf(p)' = t /\ SchemaRecord(p)' = SchemaRecord(p)
          /\ go'[p].missing = go[p].missing \ {c}
          /\ UNCHANGED <<stored, acked>>
      BY <1>8, RegisterColumnStep, Moves DEF SchemaRecord, Moved
    <2>2. /\ tables'[t] = tables[t] \cup {c}
          /\ \A u \in Tables : u # t => tables'[u] = tables[u]
      BY <1>8, RegisterColumnStep
    <2>3. tables[t] \cup {c} \in SUBSET Columns
      BY <2>1, InTable
    <2>4. tables'[t] # None
      BY <2>2, <2>3, NoneAssumption
    <2>5. Covers(p)'
      BY <2>1, <2>2 DEF SchemaCovers, Covers
    <2> QED BY <2>1, <2>2, <2>4, <2>5, OthersCovered DEF AckedIsStored
  <1>9. ASSUME NEW p \in Procs, AddColumn(p)
        PROVE  SchemaCovers' /\ AckedIsStored'
    <2>1. /\ go[p].pc = "alter" /\ \A q \in Procs : q # p => go'[q] = go[q]
          /\ go'[p].pc = "column" /\ go'[p].missing = go[p].missing
          /\ TableOf(p)' = TableOf(p) /\ SchemaRecord(p)' = SchemaRecord(p)
          /\ UNCHANGED <<tables, stored, acked>>
      BY <1>9, AddColumnStep DEF SchemaRecord
    <2>2. Covers(p)'
      BY <2>1 DEF SchemaCovers, Covers
    <2> QED BY <2>1, <2>2, OthersCovered DEF AckedIsStored
  <1>10. ASSUME NEW p \in Procs, CreateTable(p)
         PROVE  SchemaCovers' /\ AckedIsStored'
    <2>1. /\ go[p].pc = "column" /\ \A q \in Procs : q # p => go'[q] = go[q]
          /\ go'[p].pc \in {"hypertable", "idle"}
          /\ go'[p].pc = "hypertable"
                => /\ go[p].missing = {}
                   /\ TableOf(p)' = TableOf(p) /\ SchemaRecord(p)' = SchemaRecord(p)
          /\ UNCHANGED <<tables, stored, acked>>
      BY <1>10, CreateTableStep DEF SchemaRecord
    <2>2. tables[TableOf(p)] # None
      BY <2>1, InTable
    <2>3. Covers(p)'
      BY <2>1, <2>2 DEF SchemaCovers, Covers
    <2> QED BY <2>1, <2>3, OthersCovered DEF AckedIsStored
  <1>11. ASSUME NEW p \in Procs, CreateHypertable(p) \/ SetChunks(p)
         PROVE  SchemaCovers' /\ AckedIsStored'
    <2>1. /\ go[p].pc \in {"hypertable", "chunks"} /\ \A q \in Procs : q # p => go'[q] = go[q]
          /\ go'[p].pc \in {"chunks", "lookup", "idle"}
          /\ go'[p].pc # "idle"
                => TableOf(p)' = TableOf(p) /\ SchemaRecord(p)' = SchemaRecord(p)
          /\ UNCHANGED <<tables, stored, acked>>
      BY <1>11, Moves
      DEF Moved, SchemaRecord, TableOf, TableLabels, CreateHypertable, SetChunks, pg
    <2>2. Covers(p)'
      BY <2>1 DEF SchemaCovers, Covers
    <2> QED BY <2>1, <2>2, OthersCovered DEF AckedIsStored
  <1>12. ASSUME NEW p \in Procs, LookupSchema(p)
         PROVE  SchemaCovers' /\ AckedIsStored'
    <2>1. /\ go[p].pc = "lookup" /\ go[p] \in Running
          /\ \A q \in Procs : q # p => go'[q] = go[q]
          /\ go'[p].pc \in {"list", "idle"}
          /\ go'[p].pc = "list"
                => TableOf(p)' = TableOf(p) /\ SchemaRecord(p)' = SchemaRecord(p)
          /\ UNCHANGED <<tables, stored, acked>>
      BY <1>12, Moves DEF Moved, SchemaRecord, TableOf, TableLabels, LookupSchema, pg, memory
    <2>2. go'[p].pc = "list" => go'[p].listed = tables[TableOf(p)]
      BY <1>12, <2>1 DEF LookupSchema, Return, Idle, Base, TypeOK, Running
    <2>3. Covers(p)'
      BY <2>1, <2>2 DEF SchemaCovers, Covers
    <2> QED BY <2>1, <2>3, OthersCovered DEF AckedIsStored
  <1>13. ASSUME NEW p \in Procs, ListColumns(p)
         PROVE  SchemaCovers' /\ AckedIsStored'
    <2>1. /\ go[p].pc = "list" /\ go[p] \in Running
          /\ \A q \in Procs : q # p => go'[q] = go[q]
          /\ go'[p].pc \in {"insert", "idle"}
          /\ go'[p].pc = "insert"
                => TableOf(p)' = TableOf(p) /\ SchemaRecord(p)' = SchemaRecord(p)
          /\ UNCHANGED <<tables, stored, acked>>
      BY <1>13, Moves DEF Moved, SchemaRecord, TableOf, TableLabels, ListColumns, pg, memory
    <2>2. go'[p].listed \in {go[p].listed, tables[TableOf(p)]}
      BY <1>13, <2>1 DEF ListColumns, Base, TypeOK, Running
    <2>3. Covers(p)'
      BY <2>1, <2>2 DEF SchemaCovers, Covers
    <2> QED BY <2>1, <2>3, OthersCovered DEF AckedIsStored
  <1>14. ASSUME NEW p \in Procs, Insert(p)
         PROVE  SchemaCovers' /\ AckedIsStored'
    <2>1. /\ go[p].pc = "insert" /\ \A q \in Procs : q # p => go'[q] = go[q]
          /\ go'[p].pc \notin CoversLabels /\ tables' = tables
      BY <1>14, Moves DEF Moved, Insert, memory, CoversLabels
    <2>2. SchemaCovers'
      <3>1. Covers(p)'
        BY <2>1 DEF Covers, CoversLabels
      <3> QED BY <2>1, <3>1, OthersCovered
    <2>3. \A r \in Records(p) : r \subseteq go[p].listed
      <3>1. go[p].req.op = "write" /\ go[p].at \in DOMAIN go[p].req.batch /\ go[p] \in Running
        BY <2>1, WritesTable DEF Base, LocalsOK, LocalOK, TableLabels
      <3>2. go[p].req.batch \in Batches
        BY <3>1, RequestFields DEF Running
      <3>3. \A r \in Records(p) : r \subseteq SchemaRecord(p)
        BY <3>1, <3>2 DEF SameShape, Records, SchemaRecord
      <3> QED BY <2>1, <3>3 DEF SchemaCovers
    <2>4. AckedIsStored'
      <3>1. CASE UNCHANGED <<stored, acked>>
        BY <3>1 DEF AckedIsStored
      <3>2. ASSUME NEW place \in [Records(p) -> SUBSET go[p].listed],
                   \A r \in Records(p) : place[r] \in Placements(p, r),
                   stored' = stored \cup {Row(TableOf(p), place[r]) : r \in Records(p)},
                   acked' = acked \cup {Row(TableOf(p), r) : r \in Records(p)}
            PROVE  AckedIsStored'
        <4>1. \A r \in Records(p) : place[r] = r
          BY <2>1, <2>3, <3>2, PlacedAsIs DEF SchemaCovers
        <4> QED BY <3>2, <4>1 DEF AckedIsStored
      <3> QED BY <1>14, <3>1, <3>2 DEF Insert
    <2> QED BY <2>2, <2>4
  <1>15. ASSUME NEW p \in Procs, DropMeasurementTable(p) \/ DropMeasurementMeta(p)
         PROVE  SchemaCovers' /\ AckedIsStored'
    <2>1. SchemaCovers'
      <3>1. /\ \A q \in Procs : q # p => go'[q] = go[q]
            /\ go'[p].pc \in {"dropTableMeta", "idle"} /\ tables' = tables
        BY <1>15, DropMeasurementStep
      <3>2. Covers(p)'
        BY <3>1 DEF Covers
      <3> QED BY <3>1, <3>2, OthersCovered
    <2>2. DropTables({TableOf(p)}) \/ UNCHANGED <<stored, acked>>
      BY <1>15 DEF DropMeasurementTable, DropMeasurementMeta
    <2> QED BY <2>1, <2>2 DEF DropTables, AckedIsStored
  <1>16. ASSUME NEW p \in Procs,
                \/ LockDrop(p) \/ DropDatabaseRow(p)
                \/ DropDatabaseSchema(p) \/ DropDatabaseMeta(p)
         PROVE  FALSE
    BY <1>16, DropSteps, Moves DEF Moved, DropLabels
  <1> QED
    BY <1>1, <1>2, <1>4, <1>5, <1>6, <1>7, <1>8, <1>9, <1>10, <1>11, <1>12, <1>13, <1>14,
       <1>15, <1>16
    DEF Next, TakeLock, Statement, CallRetention

\* Where no client drops databases, the records of a measurement always have the same tags,
\* and the later ones of a write have no field its first one lacks (the two cases in which
\* InsertBatch loses values are a tag added meanwhile and such a field), an acknowledged
\* record is stored with all its values: concurrent writes that add fields, the columns listed
\* without the lock, DROP MEASUREMENT, failures of every statement and crashes included.
THEOREM AcknowledgedIsStored ==
    ASSUME "dropDb" \notin Ops, SameTags, SameShape
    PROVE  Spec => []AckedIsStored
  <1>1. Init => OwnTags /\ SchemaCovers /\ AckedIsStored
    BY DEF Init, OwnTags, CachedTags, RecordedTags, MissingOwn, SchemaCovers, AckedIsStored, Idle
  <1>2. /\ Base /\ OwnTags /\ [Next]_vars => OwnTags'
        /\ Base /\ OwnTags /\ SchemaCovers /\ AckedIsStored /\ [Next]_vars
              => SchemaCovers' /\ AckedIsStored'
    BY AckedStep, OwnTagsStep
  <1> QED BY <1>1, <1>2, BaseAlways, PTL DEF Spec

=============================================================================
