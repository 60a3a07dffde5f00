----------------------------- MODULE RetentionSync -----------------------------
(***************************************************************************)
(* How the retention policies of RetentionPolicies reach TimescaleDB: the  *)
(* statements of CREATE, ALTER and DROP RETENTION POLICY, each a mutator   *)
(* of the policy store followed by SyncToTimescaleDB; the background loop  *)
(* that runs SyncAllDatabases every five minutes; EnsureTable, which gives *)
(* a hypertable its chunk interval and compression on every write; and     *)
(* DROP DATABASE.                                                          *)
(*                                                                         *)
(* rs.mu and meta.mu are modelled by what they exclude: a mutator waits    *)
(* for the syncs, a sync for a mutator, an EnsureTable for another.  (That *)
(* a sync can also wait for a mutator that waits for it is the subject of  *)
(* ProxyLocks.)  A step is a critical section or one statement.            *)
(***************************************************************************)
EXTENDS RetentionPolicies, Durations

CONSTANTS
    Tables,        \* measurement tables
    DbOf,          \* the database of a table
    DefaultDb,     \* the database of the proxy's connection string
    Handlers,      \* goroutines that serve POST /query
    Writers,       \* goroutines that serve POST /write
    Loop,          \* main, which runs the sync at startup, and then RunSyncLoop
    NoJob,         \* no job, or no interval set
    Ops,           \* the requests clients send: a subset of OpKinds
    SyncFaults,    \* what can go wrong: a subset of SyncFaultKinds
    MaxFaults,     \* bound: how often it does
    MaxRequests    \* bound: how many requests arrive

OpKinds == {"create", "alter", "setDefault",
            "drop", "dropAutogen",   \* DROP RETENTION POLICY, of autogen or another
            "dropDb", "write"}
SyncFaultKinds == {"timeout",   \* the thirty seconds of a syncTimeout elapse
                   "error",     \* a statement fails in another way
                   "restart"}   \* the process dies and is started again

ASSUME SyncAssumption ==
    /\ DbOf \in [Tables -> Dbs] /\ DefaultDb \in Dbs
    /\ Ops \subseteq OpKinds /\ SyncFaults \subseteq SyncFaultKinds
    /\ Loop \notin Handlers \cup Writers /\ Handlers \cap Writers = {}
    /\ MaxFaults \in Nat /\ MaxRequests \in Nat
    /\ Faults = {}   \* of the store's own statements: see RetentionPolicies

VARIABLES
    hypertables,   \* the hypertables that exist
    job,           \* table -> its retention job [dropAfter, every], or NoJob
    chunk,         \* table -> its chunk interval, or NoJob while it is TimescaleDB's own
    compression,   \* table -> the compress_after of its compression job, or NoJob
    go,            \* the goroutines
    starting,      \* main has not started the HTTP server yet
    faults,        \* how many faults have happened
    requests       \* how many requests have arrived

tsdb == <<hypertables, job, chunk, compression>>
store == <<rows, cache, pending>>
bounds == <<faults, requests>>
syncVars == <<store, tsdb, go, starting, bounds>>

Syncers == Handlers \cup {Loop}
Goroutines == Syncers \cup Writers

\* A goroutine and its local variables: the databases it has still to synchronise, the
\* one it works on and its hypertables left, the policy and the table it works with, an
\* interval it has computed and not applied, whether the thirty seconds of its sync are
\* over, and those applyCompression gives itself.
Resting == [pc |-> "idle", dbs |-> {}, db |-> DefaultDb, todo |-> {}, at |-> NoJob,
            policy |-> NoPolicy, value |-> NoJob, expired |-> FALSE, late |-> FALSE]

TablesOf(db) == {t \in Tables : DbOf[t] = db}

\* Between these steps a goroutine holds rs.mu for reading, or m.mu.
Syncing == {"remove", "add", "setChunk", "readTags", "uncompress", "compress"}
Ensuring == {"readChunk", "newChunk", "dropCompression", "readCompress", "newCompression"}
\* The statements of applyCompression, called by a sync and by EnsureTable.
Compressing == {"uncompress", "compress", "dropCompression", "newCompression"}
At(g, label) == go[g].pc = label

\* A Mutant_ operator is a plausible bug in the definition that follows it, and is used by
\* no behaviour of the specification.  Here: a sync copies the policy and frees rs.mu.
Mutant_RsUnread == TRUE

RsUnread == \A g \in Syncers : go[g].pc \notin Syncing
MetaFree == \A w \in Writers : go[w].pc \notin Ensuring

-----------------------------------------------------------------------------
(* Which policy applies, and the intervals it gives.                        *)

\* The loops over rs.policies: the default of the database, or else the policy with a
\* finite duration that the order of a Go map gives first.
PolicyKeys(db) ==
    IF DefaultsOf(cache, db) # {} THEN DefaultsOf(cache, db)
    ELSE {k \in Keys : k[1] = db /\ cache[k] # NoPolicy /\ cache[k].dur > 0}
Choices(db) == IF PolicyKeys(db) = {} THEN {NoPolicy} ELSE {cache[k] : k \in PolicyKeys(db)}

Expires(policy) == policy # NoPolicy /\ policy.dur > 0
ChunkOf(policy) ==
    IF policy = NoPolicy THEN NoPolicyInterval ELSE ChunkInterval(policy.dur, policy.shard)
AfterOf(policy) ==
    IF policy = NoPolicy THEN NoPolicyInterval ELSE CompressAfter(policy.dur)

\* DurationNs / int64(time.Second), in seconds.
DropAfter(policy) == (policy.dur \div Second) * Second

\* retentionScheduleInterval looks at the policies of every database: the last default
\* one of the map's order decides, or else the first finite one.
Schedules ==
    LET named == {k \in Keys : cache[k] # NoPolicy}
        defaults == {k \in named : cache[k].dflt}
        finite == {k \in named : cache[k].dur > 0}
        deciding == IF defaults # {} THEN defaults ELSE finite
    IN IF deciding = {} THEN {Hour} ELSE {RetentionSchedule(cache[k].dur) : k \in deciding}

-----------------------------------------------------------------------------
\* A new installation: the default database has its autogen policy, no tables.
SyncInit ==
    /\ rows = [k \in Keys |-> IF k = <<DefaultDb, Autogen>> THEN AutogenPolicy(TRUE) ELSE NoPolicy]
    /\ cache = rows /\ pending = Idle
    /\ hypertables = {}
    /\ job = [t \in Tables |-> NoJob]
    /\ chunk = [t \in Tables |-> NoJob]
    /\ compression = [t \in Tables |-> NoJob]
    /\ go = [g \in Goroutines |-> Resting]
    /\ starting = FALSE /\ faults = 0 /\ requests = 0

Becomes(g, r) == go' = [go EXCEPT ![g] = r]
Goto(g, label) == go' = [go EXCEPT ![g].pc = label]

\* A request of a kind reaches an idle goroutine.
Arrives(g, op) ==
    /\ At(g, "idle") /\ ~starting
    /\ op \in Ops /\ requests < MaxRequests
    /\ requests' = requests + 1
    /\ UNCHANGED faults

(* handleCreateRetentionPolicy, handleAlterRetentionPolicy and              *)
(* handleDropRetentionPolicy: the mutators of the store, then a sync.       *)

SyncOf(db) == [Resting EXCEPT !.pc = "sync", !.dbs = {db}]

Create(g, db, name) ==
    /\ Arrives(g, "create") /\ RsUnread
    /\ \E d \in Durations, s \in Shards \cup {Omitted}, dflt \in BOOLEAN :
          CreatePolicy(db, name, d, s, dflt)
    /\ Becomes(g, [SyncOf(db) EXCEPT !.pc = "mutator"])
    /\ UNCHANGED <<tsdb, starting>>

\* ALTER with a clause; with DEFAULT too, SetDefault follows when the lock is free again.
Alter(g, db, name) ==
    /\ Arrives(g, "alter") /\ RsUnread
    /\ \E d \in Durations, s \in Shards \cup {Omitted} : AlterPolicy(db, name, d, s)
    /\ \/ Becomes(g, SyncOf(db))
       \/ Becomes(g, [SyncOf(db) EXCEPT !.pc = "setDefault", !.value = name])
    /\ UNCHANGED <<tsdb, starting>>

\* ALTER with DEFAULT alone, and the second half of one with both.
MakeDefault(g, db, name) ==
    /\ RsUnread
    /\ SetDefault(db, name)
    /\ Becomes(g, [SyncOf(db) EXCEPT !.pc = "mutator"])
    /\ UNCHANGED <<tsdb, starting>>

\* The policy was dropped between the two: the handler answers with the error.
MakeDefaultFails(g) ==
    /\ At(g, "setDefault") /\ RsUnread /\ pending = Idle
    /\ \E db \in go[g].dbs : cache[<<db, go[g].value>>] = NoPolicy
    /\ Becomes(g, Resting)
    /\ UNCHANGED <<store, tsdb, starting, bounds>>

\* The second statement of CreatePolicy and SetDefault, which hold rs.mu.
FinishMutator(g) ==
    /\ At(g, "mutator")
    /\ CreatePolicyUpsert \/ SetDefaultMark
    /\ Goto(g, "sync")
    /\ UNCHANGED <<tsdb, starting, bounds>>

Drop(g, db, name) ==
    /\ Arrives(g, IF name = Autogen THEN "dropAutogen" ELSE "drop") /\ RsUnread
    /\ DropPolicy(db, name)
    /\ Becomes(g, SyncOf(db))
    /\ UNCHANGED <<tsdb, starting>>

-----------------------------------------------------------------------------
(* SyncAllDatabases and SyncToTimescaleDB.                                  *)

\* The ticker: SyncAllDatabases collects the databases that have policies.
Tick ==
    /\ At(Loop, "idle") /\ pending = Idle
    /\ LET dbs == {k[1] : k \in {l \in Keys : cache[l] # NoPolicy}} IN
       Becomes(Loop, IF dbs = {} THEN Resting ELSE [Resting EXCEPT !.pc = "sync", !.dbs = dbs])
    /\ UNCHANGED <<store, tsdb, starting, bounds>>

\* The result of a statement of goroutine g.  A syncTimeout is of a whole sync, or of a
\* whole applyCompression: once it is over every statement that is left fails.
Over(g) == IF go[g].pc \in Compressing THEN go[g].late ELSE go[g].expired
Results(g) ==
    IF Over(g) THEN {"timeout"}
    ELSE {"ok"} \cup (IF faults < MaxFaults THEN SyncFaults \cap {"timeout", "error"} ELSE {})
CountFault(g, result) ==
    faults' = IF result = "ok" \/ Over(g) THEN faults ELSE faults + 1

\* What a statement leaves.  The one that runs into the timeout may have been executed, the
\* ones after it are not.
Tried(g, result, before, after) ==
    CASE result = "ok" -> {after}
      [] result = "error" -> {before}
      [] result = "timeout" -> IF Over(g) THEN {before} ELSE {before, after}

\* The end of SyncToTimescaleDB, and of the iteration for a table.
Ended(r) == [Resting EXCEPT !.pc = IF r.dbs = {} THEN "idle" ELSE "sync", !.dbs = r.dbs]
NextTable(r) ==
    IF r.todo = {} \/ r.expired THEN Ended(r)
    ELSE [r EXCEPT !.pc = "remove", !.at = NoJob, !.late = FALSE]

\* The startup sync is over: main starts the server.
Starting(g, r) == starting' = (starting /\ ~(g = Loop /\ r.pc = "idle"))

Continue(g, r) == Becomes(g, r) /\ Starting(g, r)

\* The list of hypertables without its schema condition.
Mutant_Listed(db) == hypertables

Listed(db) == hypertables \cap TablesOf(db)

\* The sync of one database: it takes rs.mu for reading, finds the policy and lists the
\* hypertables.
LockSync(g, db) ==
    /\ At(g, "sync") /\ db \in go[g].dbs /\ pending = Idle
    /\ \E result \in Results(g), policy \in Choices(db) :
          LET r == [go[g] EXCEPT !.dbs = @ \ {db}, !.db = db, !.policy = policy,
                                 !.todo = Listed(db)]
          IN /\ Continue(g, IF result = "ok" THEN NextTable(r) ELSE Ended(r))
             /\ CountFault(g, result)
    /\ UNCHANGED <<store, tsdb, requests>>


JobRemoved(t) == [job EXCEPT ![t] = NoJob]

\* remove_retention_policy, whose error is ignored.
RemoveJob(g, t) ==
    /\ At(g, "remove") /\ t \in go[g].todo
    /\ \E result \in Results(g) :
          LET r == [go[g] EXCEPT !.todo = @ \ {t}, !.at = t, !.expired = @ \/ result = "timeout"]
          IN /\ job' \in Tried(g, result, job, JobRemoved(t))
             /\ Continue(g, [r EXCEPT !.pc = IF Expires(r.policy) THEN "add" ELSE "setChunk"])
             /\ CountFault(g, result)
    /\ UNCHANGED <<store, hypertables, chunk, compression, requests>>

\* add_retention_policy: refused for a table that has a job or is gone.  A lock or a
\* timeout ends the sync, any other error the table's turn.
JobAdded(g, every) ==
    [job EXCEPT ![go[g].at] = [dropAfter |-> DropAfter(go[g].policy), every |-> every]]

AddJob(g) ==
    LET t == go[g].at
        accepts == t \in hypertables /\ job[t] = NoJob IN
    /\ At(g, "add")
    /\ \E result \in Results(g), every \in Schedules :
          /\ job' \in Tried(g, result, job, IF accepts THEN JobAdded(g, every) ELSE job)
          /\ Continue(g, IF result = "timeout" THEN Ended(go[g])
                         ELSE IF result = "ok" /\ accepts THEN [go[g] EXCEPT !.pc = "setChunk"]
                         ELSE NextTable(go[g]))
          /\ CountFault(g, result)
    /\ UNCHANGED <<store, hypertables, chunk, compression, requests>>

ChunkSet(t, interval) == IF t \in hypertables THEN [chunk EXCEPT ![t] = interval] ELSE chunk

\* set_chunk_time_interval, from a policy DefaultChunkInterval finds anew.  Its error is
\* ignored, but a timeout is the sync's.
SetChunk(g) ==
    /\ At(g, "setChunk")
    /\ \E result \in Results(g), policy \in Choices(go[g].db) :
          /\ chunk' \in Tried(g, result, chunk, ChunkSet(go[g].at, ChunkOf(policy)))
          /\ Becomes(g, [go[g] EXCEPT !.pc = "readTags", !.expired = @ \/ result = "timeout"])
          /\ CountFault(g, result)
    /\ UNCHANGED <<store, hypertables, job, compression, starting, requests>>

\* The tag columns are read under m.mu: not while an EnsureTable is under way.
ReadTags(g) ==
    /\ At(g, "readTags") /\ MetaFree
    /\ Goto(g, "uncompress")
    /\ UNCHANGED <<store, tsdb, starting, bounds>>

(* applyCompression, which gives itself thirty seconds anew: its first two  *)
(* statements enable compression and remove the job, the third adds one.    *)
(* Their errors are ignored.  The sync's thirty seconds began before: they  *)
(* are over when these are.                                                 *)

NotCompressed(t) == [compression EXCEPT ![t] = NoJob]
Compressed(t, after) ==
    IF t \in hypertables /\ compression[t] = NoJob
    THEN [compression EXCEPT ![t] = after] ELSE compression

Uncompress(g) ==
    /\ At(g, "uncompress")
    /\ \E result \in Results(g) :
          /\ compression' \in Tried(g, result, compression, NotCompressed(go[g].at))
          /\ Becomes(g, [go[g] EXCEPT !.pc = "compress", !.late = (result = "timeout"),
                                      !.expired = @ \/ result = "timeout"])
          /\ CountFault(g, result)
    /\ UNCHANGED <<store, hypertables, job, chunk, starting, requests>>

Compress(g) ==
    /\ At(g, "compress")
    /\ \E result \in Results(g), policy \in Choices(go[g].db) :
          /\ compression' \in Tried(g, result, compression, Compressed(go[g].at, AfterOf(policy)))
          /\ Continue(g, NextTable([go[g] EXCEPT !.expired = @ \/ result = "timeout"]))
          /\ CountFault(g, result)
    /\ UNCHANGED <<store, hypertables, job, chunk, requests>>

SyncStep(g) ==
    \/ \E db \in Dbs : LockSync(g, db)
    \/ \E t \in Tables : RemoveJob(g, t)
    \/ AddJob(g) \/ SetChunk(g) \/ ReadTags(g) \/ Uncompress(g) \/ Compress(g)

-----------------------------------------------------------------------------
(* A write: EnsureDatabasePolicies, then EnsureTable under m.mu.            *)

Write(w, t) ==
    /\ Arrives(w, "write")
    /\ Becomes(w, [Resting EXCEPT !.pc = "ensure", !.at = t, !.db = DbOf[t]])
    /\ UNCHANGED <<store, tsdb, starting>>

EnsurePolicies(w) ==
    LET db == go[w].db IN
    /\ At(w, "ensure") /\ RsUnread /\ pending = Idle
    /\ IF cache[<<db, Autogen>>] = NoPolicy THEN EnsureDatabasePolicies(db) ELSE UNCHANGED store
    /\ Goto(w, "lockTable")
    /\ UNCHANGED <<tsdb, starting, bounds>>

CreateHypertable(w) ==
    /\ At(w, "lockTable") /\ MetaFree
    /\ hypertables' = hypertables \cup {go[w].at}
    /\ Goto(w, "readChunk")
    /\ UNCHANGED <<store, job, chunk, compression, starting, bounds>>

\* DefaultChunkInterval and DefaultCompressAfter give back rs.mu before the interval they
\* return is used.
ReadInterval(w) ==
    /\ pending = Idle
    /\ \E policy \in Choices(go[w].db) :
          \/ /\ At(w, "readChunk")
             /\ Becomes(w, [go[w] EXCEPT !.pc = "newChunk", !.value = ChunkOf(policy)])
          \/ /\ At(w, "readCompress")
             /\ Becomes(w, [go[w] EXCEPT !.pc = "newCompression", !.value = AfterOf(policy)])
    /\ UNCHANGED <<store, tsdb, starting, bounds>>

\* set_chunk_time_interval: its error is ignored, and it has no timeout.
NewChunk(w) ==
    /\ At(w, "newChunk")
    /\ \E result \in Results(w) \ {"timeout"} :
          /\ chunk' \in Tried(w, result, chunk, ChunkSet(go[w].at, go[w].value))
          /\ CountFault(w, result)
    /\ Goto(w, "dropCompression")
    /\ UNCHANGED <<store, hypertables, job, compression, starting, requests>>

\* applyCompression once more.
DropCompression(w) ==
    /\ At(w, "dropCompression")
    /\ \E result \in Results(w) :
          /\ compression' \in Tried(w, result, compression, NotCompressed(go[w].at))
          /\ Becomes(w, [go[w] EXCEPT !.pc = "readCompress", !.late = (result = "timeout")])
          /\ CountFault(w, result)
    /\ UNCHANGED <<store, hypertables, job, chunk, starting, requests>>

NewCompression(w) ==
    /\ At(w, "newCompression")
    /\ \E result \in Results(w) :
          /\ compression' \in Tried(w, result, compression, Compressed(go[w].at, go[w].value))
          /\ CountFault(w, result)
    /\ Becomes(w, Resting)
    /\ UNCHANGED <<store, hypertables, job, chunk, starting, requests>>

WriteStep(w) ==
    \/ EnsurePolicies(w) \/ CreateHypertable(w) \/ ReadInterval(w)
    \/ NewChunk(w) \/ DropCompression(w) \/ NewCompression(w)

(* DROP DATABASE: the tables under m.mu, then the policies under rs.mu.     *)

Cleared(f, gone) == [t \in Tables |-> IF t \in gone THEN NoJob ELSE f[t]]

DropDatabase(g, db) ==
    /\ Arrives(g, "dropDb") /\ MetaFree
    /\ hypertables' = hypertables \ TablesOf(db)
    /\ job' = Cleared(job, TablesOf(db))
    /\ chunk' = Cleared(chunk, TablesOf(db))
    /\ compression' = Cleared(compression, TablesOf(db))
    /\ Becomes(g, [Resting EXCEPT !.pc = "dropPolicies", !.db = db])
    /\ UNCHANGED <<store, starting>>

DropPolicies(g) ==
    /\ At(g, "dropPolicies") /\ RsUnread
    /\ DropDatabasePolicies(go[g].db)
    /\ Becomes(g, Resting)
    /\ UNCHANGED <<tsdb, starting, bounds>>

-----------------------------------------------------------------------------
\* The process dies; the next one loads the policies, gives the default database its
\* autogen policy and synchronises it before it serves requests.
Restart ==
    LET key == <<DefaultDb, Autogen>>
        loaded == InsertIfAbsent(rows, key, AutogenPolicy(DefaultsOf(rows, DefaultDb) = {})) IN
    /\ "restart" \in SyncFaults /\ faults < MaxFaults
    /\ rows' = loaded /\ cache' = loaded /\ pending' = Idle
    /\ go' = [g \in Goroutines |-> IF g = Loop THEN SyncOf(DefaultDb) ELSE Resting]
    /\ starting' = TRUE
    /\ faults' = faults + 1
    /\ UNCHANGED <<tsdb, requests>>

Request(g) ==
    \/ \E db \in Dbs, name \in Names :
          Create(g, db, name) \/ Alter(g, db, name) \/ Drop(g, db, name)
    \/ \E db \in Dbs, name \in Names : Arrives(g, "setDefault") /\ MakeDefault(g, db, name)
    \/ \E db \in Dbs : DropDatabase(g, db)

\* The rest of a handler.
HandlerStep(g) ==
    \/ \E db \in go[g].dbs, name \in {go[g].value} :
          At(g, "setDefault") /\ MakeDefault(g, db, name) /\ UNCHANGED bounds
    \/ MakeDefaultFails(g) \/ FinishMutator(g) \/ DropPolicies(g)

SyncNext ==
    \/ \E g \in Handlers : Request(g) \/ HandlerStep(g)
    \/ \E w \in Writers : (\E t \in Tables : Write(w, t)) \/ WriteStep(w)
    \/ \E g \in Syncers : SyncStep(g)
    \/ Tick
    \/ Restart

SyncSpec == SyncInit /\ [][SyncNext]_syncVars

\* A goroutine that can take a step takes it in the end, and the ticker goes on ticking.
SyncFairness ==
    /\ \A g \in Handlers : SF_syncVars(HandlerStep(g))
    /\ \A w \in Writers : SF_syncVars(WriteStep(w))
    /\ \A g \in Syncers : SF_syncVars(SyncStep(g))
    /\ WF_syncVars(Tick)
SyncLiveSpec == SyncSpec /\ SyncFairness

-----------------------------------------------------------------------------
(* Properties.                                                              *)

SyncTypeOK ==
    /\ TypeOK
    /\ hypertables \subseteq Tables
    /\ \A t \in Tables : job[t] # NoJob => t \in hypertables
    /\ \A g \in Goroutines : go[g].dbs \subseteq Dbs /\ go[g].todo \subseteq TablesOf(go[g].db)
    /\ faults \in 0 .. MaxFaults /\ requests \in 0 .. MaxRequests

\* A handler that has changed the policies of a database and not synchronised it yet.
Owed(db) ==
    \E g \in Handlers :
       \/ db \in go[g].dbs
       \/ go[g].pc \in Syncing \cup {"dropPolicies"} /\ go[g].db = db

\* A retention job deletes data by a policy its database has now: as soon as no handler
\* owes the database a sync, no job is left from a policy that was altered, dropped or
\* replaced as the default, however the syncs interleave.  (As long as neither a database nor an
\* autogen policy is dropped: the write that makes autogen the default again owes no sync.)
NoStaleJob ==
    \A t \in hypertables :
        job[t] # NoJob /\ ~Owed(DbOf[t])
            => \E policy \in Choices(DbOf[t]) :
                  Expires(policy) /\ job[t].dropAfter = DropAfter(policy)

\* What TimescaleDB has for a table is what the policy of its database asks for.
Applied(t) ==
    \E policy \in Choices(DbOf[t]) :
        /\ IF Expires(policy) THEN job[t] # NoJob /\ job[t].dropAfter = DropAfter(policy)
           ELSE job[t] = NoJob
        /\ chunk[t] = ChunkOf(policy) /\ compression[t] = AfterOf(policy)

\* Timeouts, errors, restarts and races are repaired by the background loop: once they
\* stop, every hypertable of a database that has policies is brought in line with them.
\* (The loop does not see a database without.)
HasPolicies(db) == \E k \in Keys : k[1] = db /\ cache[k] # NoPolicy

\* README, How It Works: DROP removes the retention jobs when no default policy remains.
NoDefaultNoJobs ==
    \A t \in hypertables :
        DefaultsOf(cache, DbOf[t]) = {} /\ ~Owed(DbOf[t]) => job[t] = NoJob

=============================================================================
