-------------------------- MODULE RetentionSyncProofs --------------------------
(***************************************************************************)
(* Proofs about RetentionSync, for any number of databases, tables,        *)
(* handlers and writers, and any bounds.                                   *)
(***************************************************************************)
EXTENDS RetentionSync, RetentionPoliciesProofs

USE SyncAssumption, NameAssumption, DurationAssumption, TokenAssumption, NoPolicyAssumption

-----------------------------------------------------------------------------
(* The goroutines.                                                          *)

\* Where a goroutine of each kind can be besides "idle".
InHandler == {"mutator", "setDefault", "dropPolicies"}
InWriter == {"ensure", "lockTable"} \cup Ensuring
InSyncer == {"sync"} \cup Syncing

Frames ==
    [pc : {"idle"} \cup InHandler \cup InWriter \cup InSyncer,
     dbs : SUBSET Dbs, db : Dbs, todo : SUBSET Tables, at : Tables \cup {NoJob},
     policy : Policy \cup {NoPolicy}, value : Names \cup Int \cup {NoJob},
     expired : BOOLEAN, late : BOOLEAN]

\* A goroutine at a label of its kind, with the local variables that are used there.
Fits(g, r) ==
    /\ r.todo \subseteq TablesOf(r.db)
    /\ r.pc \in InHandler => g \in Handlers
    /\ r.pc \in InWriter => g \in Writers /\ r.at \in TablesOf(r.db)
    /\ r.pc \in InSyncer => g \in Syncers
    /\ r.pc \in Syncing \ {"remove"} => r.at \in TablesOf(r.db)
    /\ r.pc = "idle" => r.dbs = {}
    /\ r.pc \in {"mutator", "setDefault"} => \E db \in Dbs : r.dbs = {db}
    /\ r.pc = "setDefault" => r.value \in Names
    /\ r.pc = "add" => Expires(r.policy)

\* Nothing has timed out.
Punctual(r) == ~r.expired /\ ~r.late
SameClocks(r, q) == r.expired = q.expired /\ r.late = q.late

GoInv == go \in [Goroutines -> Frames] /\ \A g \in Goroutines : Fits(g, go[g])

\* The labels, spelt out.
LEMMA LabelSets ==
    /\ Syncing = {"remove", "add", "setChunk", "readTags", "uncompress", "compress"}
    /\ Ensuring = {"readChunk", "newChunk", "dropCompression", "readCompress", "newCompression"}
    /\ InHandler = {"mutator", "setDefault", "dropPolicies"}
    /\ InWriter = {"ensure", "lockTable", "readChunk", "newChunk", "dropCompression",
                   "readCompress", "newCompression"}
    /\ InSyncer = {"sync", "remove", "add", "setChunk", "readTags", "uncompress", "compress"}
  BY DEF Syncing, Ensuring, InHandler, InWriter, InSyncer

\* No goroutine is of two kinds.
LEMMA Kinds ==
    /\ Goroutines = Handlers \cup {Loop} \cup Writers /\ Syncers = Handlers \cup {Loop}
    /\ Handlers \cap Writers = {} /\ Loop \notin Handlers /\ Loop \notin Writers
  BY DEF Goroutines, Syncers

LEMMA RestingFits ==
    /\ Resting \in Frames
    /\ \A g \in Goroutines : Fits(g, Resting)
    /\ Resting.dbs = {} /\ Resting.pc = "idle" /\ Resting.todo = {} /\ Punctual(Resting)
  BY LabelSets DEF Resting, Frames, Fits, Punctual

LEMMA SyncOfFits ==
    ASSUME NEW db \in Dbs
    PROVE  /\ SyncOf(db) \in Frames
           /\ SyncOf(db).pc = "sync" /\ SyncOf(db).dbs = {db} /\ SyncOf(db).todo = {}
           /\ Punctual(SyncOf(db))
           /\ \A g \in Syncers : Fits(g, SyncOf(db))
  BY LabelSets DEF SyncOf, Resting, Frames, Fits, Punctual

\* One goroutine becomes r, and the others stay what they are.
LEMMA Moves ==
    ASSUME GoInv, NEW g \in Goroutines, NEW r \in Frames, Fits(g, r), Becomes(g, r)
    PROVE  /\ GoInv' /\ go'[g] = r
           /\ \A h \in Goroutines \ {g} : go'[h] = go[h]
  BY DEF GoInv, Becomes

LEMMA GotoBecomes ==
    ASSUME GoInv, NEW g \in Goroutines, NEW label, Goto(g, label)
    PROVE  Becomes(g, [go[g] EXCEPT !.pc = label])
  BY DEF GoInv, Goto, Becomes

\* The end of a table's turn and that of a database's, for the goroutine of a sync.
LEMMA EndedFits ==
    ASSUME NEW g \in Syncers, NEW r \in Frames
    PROVE  /\ Ended(r) \in Frames /\ Fits(g, Ended(r))
           /\ Ended(r).dbs = r.dbs /\ Ended(r).todo = {} /\ Punctual(Ended(r))
           /\ Ended(r).pc \in {"idle", "sync"}
  <1>1. r.dbs \in SUBSET Dbs
    BY DEF Frames
  <1>2. CASE r.dbs = {}
    BY <1>1, <1>2, LabelSets DEF Ended, Resting, Frames, Fits, Punctual
  <1>3. CASE r.dbs # {}
    BY <1>1, <1>3, LabelSets DEF Ended, Resting, Frames, Fits, Punctual
  <1> QED BY <1>2, <1>3

LEMMA NextTableFits ==
    ASSUME NEW g \in Syncers, NEW r \in Frames, r.todo \subseteq TablesOf(r.db)
    PROVE  /\ NextTable(r) \in Frames /\ Fits(g, NextTable(r))
           /\ NextTable(r).dbs = r.dbs /\ Punctual(NextTable(r))
           /\ NextTable(r).pc \in {"idle", "sync", "remove"}
           /\ NextTable(r).pc = "remove" <=> r.todo # {} /\ ~r.expired
           /\ NextTable(r).pc = "remove"
                 => /\ NextTable(r).db = r.db /\ NextTable(r).todo = r.todo
                    /\ NextTable(r).policy = r.policy
  <1>1. CASE r.todo = {} \/ r.expired
    <2>1. NextTable(r) = Ended(r)
      BY <1>1 DEF NextTable
    <2> QED BY <1>1, <2>1, EndedFits
  <1>2. CASE ~(r.todo = {} \/ r.expired)
    <2>1. NextTable(r) = [r EXCEPT !.pc = "remove", !.at = NoJob, !.late = FALSE]
      BY <1>2 DEF NextTable
    <2>2. /\ NextTable(r) \in Frames /\ NextTable(r).todo = r.todo /\ NextTable(r).db = r.db
          /\ NextTable(r).pc = "remove" /\ NextTable(r).dbs = r.dbs
          /\ NextTable(r).policy = r.policy /\ NextTable(r).expired = r.expired
          /\ ~NextTable(r).late
      BY <2>1, LabelSets DEF Frames
    <2> QED BY <1>2, <2>2, LabelSets DEF Fits, Punctual
  <1> QED BY <1>1, <1>2

\* No goroutine but g moves.
Alone(g) == \A h \in Goroutines \ {g} : go'[h] = go[h]

LEMMA ChoicesAreFrames ==
    ASSUME cache \in Table, NEW db
    PROVE  Choices(db) \subseteq Policy \cup {NoPolicy}
  BY DEF Choices, PolicyKeys, DefaultsOf, Table

(* The handlers.                                                            *)

LEMMA CreateMoves ==
    ASSUME GoInv, NEW g \in Handlers, NEW db \in Dbs, NEW name \in Names, Create(g, db, name)
    PROVE  /\ GoInv' /\ Alone(g)
           /\ go[g].pc = "idle" /\ go'[g].pc = "mutator" /\ go'[g].dbs = {db}
           /\ Punctual(go'[g])
  <1> DEFINE r == [SyncOf(db) EXCEPT !.pc = "mutator"]
  <1>1. r \in Frames /\ Fits(g, r) /\ r.pc = "mutator" /\ r.dbs = {db} /\ Punctual(r)
    BY SyncOfFits, LabelSets DEF Frames, Fits, Punctual
  <1>2. Becomes(g, r) /\ g \in Goroutines /\ go[g].pc = "idle"
    BY Kinds DEF Create, Arrives, At
  <1> HIDE DEF r
  <1> QED BY <1>1, <1>2, Moves DEF Alone

LEMMA AlterMoves ==
    ASSUME GoInv, NEW g \in Handlers, NEW db \in Dbs, NEW name \in Names, Alter(g, db, name)
    PROVE  /\ GoInv' /\ Alone(g)
           /\ go[g].pc = "idle" /\ go'[g].dbs = {db}
           /\ \/ go'[g].pc = "sync"
              \/ go'[g].pc = "setDefault" /\ go'[g].value = name
           /\ Punctual(go'[g])
  <1> DEFINE r == [SyncOf(db) EXCEPT !.pc = "setDefault", !.value = name]
  <1>1. /\ r \in Frames /\ Fits(g, r) /\ r.pc = "setDefault" /\ r.dbs = {db} /\ r.value = name
        /\ Punctual(r)
    <2>1. name \in Names \cup Int \cup {NoJob} /\ SyncOf(db) \in Frames
      BY SyncOfFits
    <2>2. /\ r \in Frames /\ r.pc = "setDefault" /\ r.dbs = {db} /\ r.value = name /\ r.todo = {}
          /\ Punctual(r)
      BY <2>1, SyncOfFits, LabelSets DEF Frames, Punctual
    <2> HIDE DEF r
    <2> QED BY <2>2, LabelSets DEF Fits
  <1>2. /\ Becomes(g, r) \/ Becomes(g, SyncOf(db))
        /\ g \in Goroutines /\ g \in Syncers /\ go[g].pc = "idle"
    BY Kinds DEF Alter, Arrives, At
  <1> HIDE DEF r
  <1>3. CASE Becomes(g, r)
    BY <1>1, <1>2, <1>3, Moves DEF Alone
  <1>4. CASE Becomes(g, SyncOf(db))
    BY <1>2, <1>4, SyncOfFits, Moves DEF Alone
  <1> QED BY <1>2, <1>3, <1>4

LEMMA MakeDefaultMoves ==
    ASSUME GoInv, NEW g \in Handlers, NEW db \in Dbs, NEW name, MakeDefault(g, db, name)
    PROVE  GoInv' /\ Alone(g) /\ go'[g].pc = "mutator" /\ go'[g].dbs = {db} /\ Punctual(go'[g])
  <1> DEFINE r == [SyncOf(db) EXCEPT !.pc = "mutator"]
  <1>1. r \in Frames /\ Fits(g, r) /\ r.pc = "mutator" /\ r.dbs = {db} /\ Punctual(r)
    BY SyncOfFits, LabelSets DEF Frames, Fits, Punctual
  <1>2. Becomes(g, r) /\ g \in Goroutines
    BY Kinds DEF MakeDefault
  <1> HIDE DEF r
  <1> QED BY <1>1, <1>2, Moves DEF Alone

LEMMA MakeDefaultFailsMoves ==
    ASSUME GoInv, NEW g \in Handlers, MakeDefaultFails(g)
    PROVE  /\ GoInv' /\ Alone(g) /\ go'[g].pc = "idle" /\ Punctual(go'[g])
           /\ go[g].pc = "setDefault"
           /\ \E db \in go[g].dbs : cache[<<db, go[g].value>>] = NoPolicy
  <1>1. g \in Goroutines /\ Becomes(g, Resting)
    BY Kinds DEF MakeDefaultFails
  <1> QED BY <1>1, RestingFits, Moves DEF MakeDefaultFails, At, Alone

LEMMA FinishMutatorMoves ==
    ASSUME GoInv, NEW g \in Handlers, FinishMutator(g)
    PROVE  /\ GoInv' /\ Alone(g)
           /\ go[g].pc = "mutator" /\ go'[g].pc = "sync" /\ go'[g].dbs = go[g].dbs
           /\ SameClocks(go'[g], go[g])
  <1> DEFINE r == [go[g] EXCEPT !.pc = "sync"]
  <1>1. g \in Goroutines /\ g \in Syncers /\ go[g] \in Frames /\ Fits(g, go[g])
    BY Kinds DEF GoInv
  <1>2. r \in Frames /\ Fits(g, r) /\ r.pc = "sync" /\ r.dbs = go[g].dbs
    BY <1>1, LabelSets DEF Frames, Fits
  <1>3. SameClocks(r, go[g])
    BY <1>1, Zenon DEF Frames, SameClocks
  <1>4. Becomes(g, r) /\ go[g].pc = "mutator"
    BY <1>1, GotoBecomes DEF FinishMutator, At
  <1> HIDE DEF r
  <1> QED BY <1>1, <1>2, <1>3, <1>4, Moves DEF Alone

LEMMA DropMoves ==
    ASSUME GoInv, NEW g \in Handlers, NEW db \in Dbs, NEW name \in Names, Drop(g, db, name)
    PROVE  /\ GoInv' /\ Alone(g)
           /\ go[g].pc = "idle" /\ go'[g].pc = "sync" /\ go'[g].dbs = {db}
           /\ Punctual(go'[g])
  <1>1. Becomes(g, SyncOf(db)) /\ g \in Goroutines /\ g \in Syncers /\ go[g].pc = "idle"
    BY Kinds DEF Drop, Arrives, At
  <1> QED BY <1>1, SyncOfFits, Moves DEF Alone

LEMMA DropDatabaseMoves ==
    ASSUME GoInv, NEW g \in Handlers, NEW db \in Dbs, DropDatabase(g, db)
    PROVE  GoInv'
  <1> DEFINE r == [Resting EXCEPT !.pc = "dropPolicies", !.db = db]
  <1>1. r \in Frames /\ Fits(g, r)
    BY LabelSets DEF Resting, Frames, Fits
  <1>2. Becomes(g, r) /\ g \in Goroutines
    BY Kinds DEF DropDatabase
  <1> HIDE DEF r
  <1> QED BY <1>1, <1>2, Moves

LEMMA DropPoliciesMoves ==
    ASSUME GoInv, NEW g \in Handlers, DropPolicies(g)
    PROVE  GoInv'
  BY Kinds, RestingFits, Moves DEF DropPolicies

(* The writers.                                                             *)

LEMMA WriteMoves ==
    ASSUME GoInv, NEW w \in Writers, NEW t \in Tables, Write(w, t)
    PROVE  GoInv' /\ Alone(w) /\ go'[w].pc = "ensure"
  <1> DEFINE r == [Resting EXCEPT !.pc = "ensure", !.at = t, !.db = DbOf[t]]
  <1>1. r \in Frames /\ Fits(w, r) /\ r.pc = "ensure"
    BY LabelSets DEF Resting, Frames, Fits, TablesOf
  <1>2. Becomes(w, r) /\ w \in Goroutines
    BY Kinds DEF Write
  <1> HIDE DEF r
  <1> QED BY <1>1, <1>2, Moves DEF Alone

\* From one label of EnsureTable to the next.
LEMMA WriterGoes ==
    ASSUME GoInv, NEW w \in Writers, NEW label \in InWriter, go[w].pc \in InWriter,
           Goto(w, label)
    PROVE  /\ GoInv' /\ Alone(w) /\ go'[w].pc = label
           /\ go'[w].at = go[w].at /\ go'[w].db = go[w].db
  <1> DEFINE r == [go[w] EXCEPT !.pc = label]
  <1>1. w \in Goroutines /\ go[w] \in Frames /\ Fits(w, go[w])
    BY Kinds DEF GoInv
  <1>2. r \in Frames /\ r.pc = label /\ r.at = go[w].at /\ r.db = go[w].db /\ r.todo = go[w].todo
    BY <1>1, LabelSets DEF Frames
  <1>3. Fits(w, r)
    BY <1>1, <1>2, LabelSets DEF Fits
  <1>4. Becomes(w, r)
    BY <1>1, GotoBecomes
  <1> HIDE DEF r
  <1> QED BY <1>1, <1>2, <1>3, <1>4, Moves DEF Alone

\* The intervals are numbers.
LEMMA IntervalTypes ==
    ASSUME NEW policy \in Policy \cup {NoPolicy}
    PROVE  ChunkOf(policy) \in Int /\ AfterOf(policy) \in Int
  <1>1. Second = 10 /\ Minute = 600 /\ Hour = 36000 /\ Day = 864000
    BY DEF Second, Minute, Hour, Day
  <1>2. ASSUME NEW d \in Int PROVE nsToInterval(d) \in Int
    BY <1>1 DEF nsToInterval
  <1>3. ASSUME NEW d \in Int PROVE AutoChunk(d) \in Int /\ CompressAfter(d) \in Int
    BY <1>1 DEF AutoChunk, CompressAfter
  <1>4. CASE policy = NoPolicy
    BY <1>1, <1>4 DEF ChunkOf, AfterOf, NoPolicyInterval
  <1>5. CASE policy # NoPolicy
    <2>1. policy.dur \in Int /\ policy.shard \in Int
      BY <1>5 DEF Policy
    <2> QED BY <1>2, <1>3, <1>5, <2>1 DEF ChunkOf, AfterOf, ChunkInterval
  <1> QED BY <1>4, <1>5

LEMMA WriteStepMoves ==
    ASSUME GoInv, TypeOK, NEW w \in Writers, WriteStep(w)
    PROVE  /\ GoInv' /\ Alone(w) /\ go[w].pc \in InWriter
           /\ \/ go'[w].pc = "idle"
              \/ go'[w].pc \in InWriter /\ go'[w].at = go[w].at /\ go'[w].db = go[w].db
  <1>1. w \in Goroutines /\ go[w] \in Frames /\ Fits(w, go[w])
    BY Kinds DEF GoInv
  <1>2. CASE EnsurePolicies(w)
    <2>1. Goto(w, "lockTable") /\ go[w].pc \in InWriter /\ "lockTable" \in InWriter
      BY <1>2, LabelSets DEF EnsurePolicies, At
    <2> QED BY <2>1, WriterGoes
  <1>3. CASE CreateHypertable(w)
    <2>1. Goto(w, "readChunk") /\ go[w].pc \in InWriter /\ "readChunk" \in InWriter
      BY <1>3, LabelSets DEF CreateHypertable, At
    <2> QED BY <2>1, WriterGoes
  <1>4. CASE ReadInterval(w)
    <2>1. PICK policy \in Choices(go[w].db) :
             \/ /\ At(w, "readChunk")
                /\ Becomes(w, [go[w] EXCEPT !.pc = "newChunk", !.value = ChunkOf(policy)])
             \/ /\ At(w, "readCompress")
                /\ Becomes(w, [go[w] EXCEPT !.pc = "newCompression", !.value = AfterOf(policy)])
      BY <1>4 DEF ReadInterval
    <2>2. ChunkOf(policy) \in Int /\ AfterOf(policy) \in Int
      BY ChoicesAreFrames, IntervalTypes DEF TypeOK
    <2>3. ASSUME NEW label \in InWriter, NEW value \in Int, go[w].pc \in InWriter,
                 Becomes(w, [go[w] EXCEPT !.pc = label, !.value = value])
          PROVE  /\ GoInv' /\ Alone(w) /\ go'[w].pc \in InWriter
                 /\ go'[w].at = go[w].at /\ go'[w].db = go[w].db
      <3> DEFINE r == [go[w] EXCEPT !.pc = label, !.value = value]
      <3>1. value \in Names \cup Int \cup {NoJob}
        OBVIOUS
      <3>2. /\ r \in Frames /\ r.pc = label /\ r.at = go[w].at /\ r.db = go[w].db
            /\ r.todo = go[w].todo
        BY <1>1, <3>1, LabelSets DEF Frames
      <3> HIDE DEF r
      <3>3. Fits(w, r)
        BY <1>1, <2>3, <3>2, LabelSets DEF Fits
      <3>4. Becomes(w, r)
        BY <2>3 DEF r
      <3> QED BY <1>1, <3>2, <3>3, <3>4, Moves DEF Alone
    <2>4. CASE At(w, "readChunk") /\ Becomes(w, [go[w] EXCEPT !.pc = "newChunk", !.value = ChunkOf(policy)])
      BY <2>2, <2>3, <2>4, LabelSets DEF At
    <2>5. CASE At(w, "readCompress")
               /\ Becomes(w, [go[w] EXCEPT !.pc = "newCompression", !.value = AfterOf(policy)])
      BY <2>2, <2>3, <2>5, LabelSets DEF At
    <2> QED BY <2>1, <2>4, <2>5
  <1>5. CASE NewChunk(w)
    <2>1. Goto(w, "dropCompression") /\ go[w].pc \in InWriter /\ "dropCompression" \in InWriter
      BY <1>5, LabelSets DEF NewChunk, At
    <2> QED BY <2>1, WriterGoes
  <1>6. CASE DropCompression(w)
    <2>1. PICK over \in BOOLEAN :
             Becomes(w, [go[w] EXCEPT !.pc = "readCompress", !.late = over])
      BY <1>6 DEF DropCompression
    <2> DEFINE r == [go[w] EXCEPT !.pc = "readCompress", !.late = over]
    <2>2. /\ r \in Frames /\ r.pc = "readCompress" /\ r.at = go[w].at /\ r.db = go[w].db
          /\ r.todo = go[w].todo
      BY <1>1, LabelSets DEF Frames
    <2>3. go[w].pc \in InWriter /\ Becomes(w, r)
      BY <1>6, <2>1, LabelSets DEF DropCompression, At
    <2> HIDE DEF r
    <2>4. Fits(w, r)
      BY <1>1, <2>2, <2>3, LabelSets DEF Fits
    <2> QED BY <1>1, <2>2, <2>3, <2>4, LabelSets, Moves DEF Alone
  <1>7. CASE NewCompression(w)
    <2>1. Becomes(w, Resting) /\ go[w].pc \in InWriter
      BY <1>7, LabelSets DEF NewCompression, At
    <2> QED BY <1>1, <2>1, RestingFits, Moves DEF Alone
  <1> QED BY <1>2, <1>3, <1>4, <1>5, <1>6, <1>7 DEF WriteStep

(* The syncs.                                                               *)

LEMMA ResultTypes == ASSUME NEW g PROVE Results(g) \subseteq {"ok", "timeout", "error"}
  BY DEF Results

\* A database's turn begins, with its hypertables before it, or ends at once.
LEMMA LockSyncMoves ==
    ASSUME GoInv, TypeOK, NEW g \in Syncers, NEW db \in Dbs, LockSync(g, db)
    PROVE  /\ GoInv' /\ Alone(g) /\ Punctual(go'[g])
           /\ go[g].pc = "sync" /\ pending = Idle
           /\ go'[g].dbs = go[g].dbs \ {db}
           /\ go'[g].pc \in {"idle", "sync", "remove"}
           /\ go'[g].pc = "remove" => go'[g].db = db /\ go'[g].policy \in Choices(db)
           /\ Results(g) = {"ok"} /\ Punctual(go[g]) /\ Listed(db) # {}
                 => go'[g].pc = "remove" /\ go'[g].todo = Listed(db)
  <1>1. g \in Goroutines /\ go[g] \in Frames /\ Fits(g, go[g])
    BY Kinds DEF GoInv
  <1>2. PICK result \in Results(g) : \E policy \in Choices(db) :
           LET r == [go[g] EXCEPT !.dbs = @ \ {db}, !.db = db, !.policy = policy,
                                  !.todo = Listed(db)]
           IN Continue(g, IF result = "ok" THEN NextTable(r) ELSE Ended(r))
    BY DEF LockSync
  <1>3. PICK policy \in Choices(db) :
           LET r == [go[g] EXCEPT !.dbs = @ \ {db}, !.db = db, !.policy = policy,
                                  !.todo = Listed(db)]
           IN Continue(g, IF result = "ok" THEN NextTable(r) ELSE Ended(r))
    BY <1>2
  <1> DEFINE r == [go[g] EXCEPT !.dbs = @ \ {db}, !.db = db, !.policy = policy,
                                !.todo = Listed(db)]
  <1>4. policy \in Policy \cup {NoPolicy}
    BY ChoicesAreFrames DEF TypeOK
  <1>5. Listed(db) \subseteq TablesOf(db) /\ Listed(db) \subseteq Tables
    BY DEF Listed, TablesOf
  <1>6. /\ r \in Frames /\ r.dbs = go[g].dbs \ {db} /\ r.db = db /\ r.policy = policy
        /\ r.todo = Listed(db) /\ r.expired = go[g].expired
    BY <1>1, <1>4, <1>5 DEF Frames
  <1>7. Becomes(g, IF result = "ok" THEN NextTable(r) ELSE Ended(r))
    BY <1>3 DEF Continue
  <1> HIDE DEF r
  <1>8. CASE result = "ok"
    BY <1>1, <1>3, <1>5, <1>6, <1>7, <1>8, NextTableFits, Moves DEF LockSync, At, Alone, Punctual
  <1>9. CASE result # "ok"
    BY <1>1, <1>3, <1>5, <1>6, <1>7, <1>9, EndedFits, Moves DEF LockSync, At, Alone
  <1> QED BY <1>8, <1>9

\* A table's turn begins.
LEMMA RemoveJobMoves ==
    ASSUME GoInv, NEW g \in Syncers, NEW t \in Tables, RemoveJob(g, t)
    PROVE  /\ GoInv' /\ Alone(g)
           /\ go[g].pc = "remove" /\ go'[g].pc \in {"add", "setChunk"}
           /\ go'[g].pc = "add" => Expires(go'[g].policy)
           /\ go'[g].policy = go[g].policy /\ go'[g].db = go[g].db /\ go'[g].dbs = go[g].dbs
           /\ go'[g].todo = go[g].todo \ {t} /\ go'[g].at = t /\ t \in TablesOf(go[g].db)
           /\ Results(g) = {"ok"} /\ Punctual(go[g]) => Punctual(go'[g]) /\ job' = JobRemoved(t)
  <1>1. g \in Goroutines /\ go[g] \in Frames /\ Fits(g, go[g])
    BY Kinds DEF GoInv
  <1>2. PICK result \in Results(g) :
           /\ job' \in Tried(g, result, job, JobRemoved(t))
           /\ LET r == [go[g] EXCEPT !.todo = @ \ {t}, !.at = t,
                                     !.expired = @ \/ result = "timeout"]
              IN Continue(g, [r EXCEPT !.pc = IF Expires(r.policy) THEN "add" ELSE "setChunk"])
    BY DEF RemoveJob
  <1>3. PICK over \in BOOLEAN :
           /\ over = (go[g].expired \/ result = "timeout")
           /\ LET r == [go[g] EXCEPT !.todo = @ \ {t}, !.at = t, !.expired = over]
              IN Becomes(g, [r EXCEPT !.pc = IF Expires(r.policy) THEN "add" ELSE "setChunk"])
    BY <1>2, Zenon DEF Continue
  <1> DEFINE q == [go[g] EXCEPT !.todo = @ \ {t}, !.at = t, !.expired = over]
             r == [q EXCEPT !.pc = IF Expires(q.policy) THEN "add" ELSE "setChunk"]
  <1>4. t \in go[g].todo /\ t \in TablesOf(go[g].db) /\ go[g].pc = "remove"
    BY <1>1 DEF RemoveJob, At, Fits
  <1>5. /\ q \in Frames /\ q.todo = go[g].todo \ {t} /\ q.at = t /\ q.policy = go[g].policy
        /\ q.db = go[g].db /\ q.dbs = go[g].dbs
    BY <1>1 DEF Frames
  <1>6. q.expired = over /\ q.late = go[g].late
    BY <1>1, Zenon DEF Frames
  <1>7. Becomes(g, r)
    BY <1>3
  <1> HIDE DEF q
  <1>8. /\ r \in Frames /\ r.todo = q.todo /\ r.at = q.at /\ r.policy = q.policy
        /\ r.db = q.db /\ r.dbs = q.dbs
        /\ r.pc \in {"add", "setChunk"}
        /\ r.pc = "add" => Expires(r.policy)
    BY <1>5, LabelSets DEF Frames
  <1>9. SameClocks(r, q)
    BY <1>5, Zenon DEF Frames, SameClocks
  <1> HIDE DEF r
  <1>10. Fits(g, r)
    BY <1>1, <1>4, <1>5, <1>8, LabelSets DEF Fits
  <1>11. GoInv' /\ go'[g] = r /\ Alone(g)
    BY <1>1, <1>7, <1>8, <1>10, Moves DEF Alone
  <1>12. ASSUME Results(g) = {"ok"}, Punctual(go[g]) PROVE Punctual(go'[g]) /\ job' = JobRemoved(t)
    <2>1. result = "ok"
      BY <1>12
    <2>2. ~over /\ ~go[g].late /\ job' = JobRemoved(t)
      BY <1>2, <1>3, <1>12, <2>1 DEF Punctual, Tried
    <2> QED BY <1>6, <1>9, <1>11, <2>2 DEF Punctual, SameClocks
  <1> QED BY <1>4, <1>5, <1>8, <1>11, <1>12

\* The retention job is added, and the table's turn goes on or ends.
LEMMA AddJobMoves ==
    ASSUME GoInv, NEW g \in Syncers, AddJob(g)
    PROVE  /\ GoInv' /\ Alone(g)
           /\ go[g].pc = "add" /\ go'[g].dbs = go[g].dbs
           /\ go'[g].pc \in {"idle", "sync", "remove", "setChunk"}
           /\ Punctual(go[g]) => Punctual(go'[g])
           /\ go'[g].pc \in Syncing => /\ go'[g].policy = go[g].policy /\ go'[g].db = go[g].db
                                       /\ go'[g].todo = go[g].todo
           /\ Results(g) = {"ok"} /\ Punctual(go[g]) /\ go[g].todo # {} => go'[g].pc \in Syncing
  <1>1. g \in Goroutines /\ go[g] \in Frames /\ Fits(g, go[g])
    BY Kinds DEF GoInv
  <1>2. PICK result \in Results(g) :
           Becomes(g, IF result = "timeout" THEN Ended(go[g])
                      ELSE IF result = "ok" /\ go[g].at \in hypertables /\ job[go[g].at] = NoJob
                      THEN [go[g] EXCEPT !.pc = "setChunk"] ELSE NextTable(go[g]))
    BY DEF AddJob, Continue
  <1>3. go[g].pc = "add" /\ go[g].todo \subseteq TablesOf(go[g].db)
    BY <1>1 DEF AddJob, At, Fits
  <1>4. CASE Becomes(g, Ended(go[g])) /\ result = "timeout"
    BY <1>1, <1>3, <1>4, EndedFits, Moves, LabelSets DEF Alone
  <1>5. CASE Becomes(g, NextTable(go[g]))
    BY <1>1, <1>3, <1>5, NextTableFits, Moves, LabelSets DEF Alone, Punctual
  <1>6. CASE Becomes(g, [go[g] EXCEPT !.pc = "setChunk"])
    <2> DEFINE r == [go[g] EXCEPT !.pc = "setChunk"]
    <2>1. /\ r \in Frames /\ r.pc = "setChunk" /\ r.dbs = go[g].dbs /\ r.policy = go[g].policy
          /\ r.db = go[g].db /\ r.todo = go[g].todo /\ r.at = go[g].at
      BY <1>1, LabelSets DEF Frames
    <2>2. SameClocks(r, go[g])
      BY <1>1, Zenon DEF Frames, SameClocks
    <2>3. Becomes(g, r)
      BY <1>6
    <2> HIDE DEF r
    <2>4. Fits(g, r)
      BY <1>1, <1>3, <2>1, LabelSets DEF Fits
    <2>5. GoInv' /\ go'[g] = r /\ Alone(g)
      BY <1>1, <2>1, <2>3, <2>4, Moves DEF Alone
    <2> QED BY <1>3, <2>1, <2>2, <2>5, LabelSets DEF Punctual, SameClocks
  <1> QED BY <1>2, <1>4, <1>5, <1>6

\* From one label of a table's turn to the next.
SameTurn(r, q) ==
    r.policy = q.policy /\ r.db = q.db /\ r.dbs = q.dbs /\ r.todo = q.todo /\ r.at = q.at

LEMMA SyncerGoes ==
    ASSUME GoInv, NEW g \in Syncers, NEW r \in Frames, r.pc \in Syncing \ {"remove", "add"},
           SameTurn(r, go[g]), go[g].pc \in Syncing \ {"remove"}, Becomes(g, r)
    PROVE  GoInv' /\ Alone(g) /\ go'[g] = r
  <1>1. g \in Goroutines /\ go[g] \in Frames /\ Fits(g, go[g])
    BY Kinds DEF GoInv
  <1>2. Fits(g, r)
    BY <1>1, LabelSets DEF Fits, SameTurn
  <1> QED BY <1>1, <1>2, Moves DEF Alone

LEMMA SetChunkMoves ==
    ASSUME GoInv, NEW g \in Syncers, SetChunk(g)
    PROVE  /\ GoInv' /\ Alone(g) /\ SameTurn(go'[g], go[g])
           /\ go[g].pc = "setChunk" /\ go'[g].pc = "readTags"
           /\ Results(g) = {"ok"} /\ Punctual(go[g]) => Punctual(go'[g])
  <1>1. g \in Goroutines /\ go[g] \in Frames /\ go[g].pc = "setChunk"
    BY Kinds DEF GoInv, SetChunk, At
  <1>2. PICK result \in Results(g) :
           Becomes(g, [go[g] EXCEPT !.pc = "readTags", !.expired = @ \/ result = "timeout"])
    BY DEF SetChunk
  <1>3. PICK over \in BOOLEAN :
           /\ over = (go[g].expired \/ result = "timeout")
           /\ Becomes(g, [go[g] EXCEPT !.pc = "readTags", !.expired = over])
    BY <1>2, Zenon
  <1> DEFINE r == [go[g] EXCEPT !.pc = "readTags", !.expired = over]
  <1>4. r \in Frames /\ r.pc = "readTags" /\ SameTurn(r, go[g])
    BY <1>1, LabelSets DEF Frames, SameTurn
  <1>5. r.expired = over /\ r.late = go[g].late
    BY <1>1, Zenon DEF Frames
  <1>6. Becomes(g, r)
    BY <1>3
  <1> HIDE DEF r
  <1>7. GoInv' /\ Alone(g) /\ go'[g] = r
    BY <1>1, <1>4, <1>6, LabelSets, SyncerGoes
  <1>8. ASSUME Results(g) = {"ok"}, Punctual(go[g]) PROVE Punctual(r)
    BY <1>3, <1>5, <1>8 DEF Punctual
  <1> QED BY <1>1, <1>4, <1>7, <1>8

LEMMA ReadTagsMoves ==
    ASSUME GoInv, NEW g \in Syncers, ReadTags(g)
    PROVE  /\ GoInv' /\ Alone(g) /\ SameTurn(go'[g], go[g])
           /\ go[g].pc = "readTags" /\ go'[g].pc = "uncompress"
           /\ Punctual(go[g]) => Punctual(go'[g])
  <1> DEFINE r == [go[g] EXCEPT !.pc = "uncompress"]
  <1>1. g \in Goroutines /\ go[g] \in Frames /\ go[g].pc = "readTags"
    BY Kinds DEF GoInv, ReadTags, At
  <1>2. r \in Frames /\ r.pc = "uncompress" /\ SameTurn(r, go[g])
    BY <1>1, LabelSets DEF Frames, SameTurn
  <1>3. SameClocks(r, go[g])
    BY <1>1, Zenon DEF Frames, SameClocks
  <1>4. Becomes(g, r)
    BY <1>1, GotoBecomes DEF ReadTags
  <1> HIDE DEF r
  <1>5. GoInv' /\ Alone(g) /\ go'[g] = r
    BY <1>1, <1>2, <1>4, LabelSets, SyncerGoes
  <1> QED BY <1>1, <1>2, <1>3, <1>5 DEF Punctual, SameClocks

LEMMA UncompressMoves ==
    ASSUME GoInv, NEW g \in Syncers, Uncompress(g)
    PROVE  /\ GoInv' /\ Alone(g) /\ SameTurn(go'[g], go[g])
           /\ go[g].pc = "uncompress" /\ go'[g].pc = "compress"
           /\ Results(g) = {"ok"} /\ Punctual(go[g]) => Punctual(go'[g])
  <1>1. g \in Goroutines /\ go[g] \in Frames /\ go[g].pc = "uncompress"
    BY Kinds DEF GoInv, Uncompress, At
  <1>2. PICK result \in Results(g) :
           Becomes(g, [go[g] EXCEPT !.pc = "compress", !.late = (result = "timeout"),
                                    !.expired = @ \/ result = "timeout"])
    BY DEF Uncompress
  <1>3. PICK over \in BOOLEAN, late \in BOOLEAN :
           /\ over = (go[g].expired \/ result = "timeout") /\ late = (result = "timeout")
           /\ Becomes(g, [go[g] EXCEPT !.pc = "compress", !.late = late, !.expired = over])
    BY <1>2, Zenon
  <1> DEFINE r == [go[g] EXCEPT !.pc = "compress", !.late = late, !.expired = over]
  <1>4. r \in Frames /\ r.pc = "compress" /\ SameTurn(r, go[g])
    BY <1>1, LabelSets DEF Frames, SameTurn
  <1>5. r.expired = over /\ r.late = late
    BY <1>1, Zenon DEF Frames
  <1>6. Becomes(g, r)
    BY <1>3
  <1> HIDE DEF r
  <1>7. GoInv' /\ Alone(g) /\ go'[g] = r
    BY <1>1, <1>4, <1>6, LabelSets, SyncerGoes
  <1>8. ASSUME Results(g) = {"ok"}, Punctual(go[g]) PROVE Punctual(r)
    BY <1>3, <1>5, <1>8 DEF Punctual
  <1> QED BY <1>1, <1>4, <1>7, <1>8

LEMMA CompressMoves ==
    ASSUME GoInv, NEW g \in Syncers, Compress(g)
    PROVE  /\ GoInv' /\ Alone(g) /\ Punctual(go'[g])
           /\ go[g].pc = "compress" /\ go'[g].dbs = go[g].dbs
           /\ go'[g].pc \in {"idle", "sync", "remove"}
           /\ go'[g].pc = "remove" => /\ go'[g].policy = go[g].policy /\ go'[g].db = go[g].db
                                      /\ go'[g].todo = go[g].todo
           /\ Results(g) = {"ok"} /\ Punctual(go[g]) /\ go[g].todo # {} => go'[g].pc = "remove"
  <1>1. g \in Goroutines /\ go[g] \in Frames /\ Fits(g, go[g])
    BY Kinds DEF GoInv
  <1>2. PICK result \in Results(g) :
           Becomes(g, NextTable([go[g] EXCEPT !.expired = @ \/ result = "timeout"]))
    BY DEF Compress, Continue
  <1>3. PICK over \in BOOLEAN :
           /\ over = (go[g].expired \/ result = "timeout")
           /\ Becomes(g, NextTable([go[g] EXCEPT !.expired = over]))
    BY <1>2, Zenon
  <1> DEFINE r == [go[g] EXCEPT !.expired = over]
  <1>4. r \in Frames /\ SameTurn(r, go[g]) /\ go[g].pc = "compress"
    BY <1>1 DEF Frames, SameTurn, Compress, At
  <1>5. r.expired = over
    BY <1>1, Zenon DEF Frames
  <1>6. Becomes(g, NextTable(r))
    BY <1>3
  <1> HIDE DEF r
  <1>7. r.todo \subseteq TablesOf(r.db)
    BY <1>1, <1>4 DEF Fits, SameTurn
  <1>8. ASSUME Results(g) = {"ok"}, Punctual(go[g]) PROVE ~r.expired
    BY <1>3, <1>5, <1>8 DEF Punctual
  <1> QED BY <1>1, <1>4, <1>6, <1>7, <1>8, NextTableFits, Moves DEF Alone, SameTurn

\* The ticker sends the loop to all databases that have policies.
LEMMA TickMoves ==
    ASSUME GoInv, Tick
    PROVE  /\ GoInv' /\ Alone(Loop) /\ Punctual(go'[Loop])
           /\ go[Loop].pc = "idle" /\ go'[Loop].pc \in {"idle", "sync"}
  <1> DEFINE dbs == {k[1] : k \in {l \in Keys : cache[l] # NoPolicy}}
             r == [Resting EXCEPT !.pc = "sync", !.dbs = dbs]
  <1>1. dbs \in SUBSET Dbs
    BY KeyDb
  <1>2. r \in Frames /\ Fits(Loop, r) /\ r.pc = "sync" /\ Punctual(r)
    BY <1>1, Kinds, LabelSets DEF Resting, Frames, Fits, Punctual
  <1>3. (Becomes(Loop, r) \/ Becomes(Loop, Resting)) /\ go[Loop].pc = "idle"
    BY DEF Tick, At
  <1>4. Loop \in Goroutines
    BY Kinds
  <1> HIDE DEF r
  <1> QED BY <1>2, <1>3, <1>4, RestingFits, Moves DEF Alone

LEMMA RestartMoves == ASSUME GoInv, Restart PROVE GoInv'
  <1>1. go' = [g \in Goroutines |-> IF g = Loop THEN SyncOf(DefaultDb) ELSE Resting]
    BY DEF Restart
  <1> QED BY <1>1, Kinds, RestingFits, SyncOfFits DEF GoInv

-----------------------------------------------------------------------------
(* Type correctness.                                                        *)

\* What a step does to the policies: nothing, a step of the store, or what a start does.
StoreMoves == [Next]_vars \/ Restart

LEMMA StoreMoved ==
    ASSUME GoInv, TypeOK, [SyncNext]_syncVars
    PROVE  StoreMoves
  <1>1. ASSUME UNCHANGED store PROVE StoreMoves
    BY <1>1 DEF store, vars, StoreMoves
  <1>2. ASSUME Next PROVE StoreMoves
    BY <1>2 DEF StoreMoves
  <1>3. ASSUME NEW g \in Handlers, NEW db \in Dbs, NEW name \in Names,
               Create(g, db, name) \/ Alter(g, db, name) \/ Drop(g, db, name)
               \/ MakeDefault(g, db, name)
        PROVE  StoreMoves
    <2>1. CASE Create(g, db, name)
      BY <1>2, <2>1 DEF Create, Next
    <2>2. CASE Alter(g, db, name)
      BY <1>2, <2>2 DEF Alter, Next
    <2>3. CASE Drop(g, db, name)
      BY <1>2, <2>3 DEF Drop, Next
    <2>4. CASE MakeDefault(g, db, name)
      BY <1>2, <2>4 DEF MakeDefault, Next
    <2> QED BY <1>3, <2>1, <2>2, <2>3, <2>4
  <1>4. ASSUME NEW g \in Handlers, Request(g) \/ HandlerStep(g) PROVE StoreMoves
    <2>1. CASE Request(g)
      <3>1. ASSUME NEW db \in Dbs, DropDatabase(g, db) PROVE StoreMoves
        BY <1>1, <3>1 DEF DropDatabase
      <3> QED BY <1>3, <2>1, <3>1 DEF Request
    <2>2. ASSUME NEW db \in go[g].dbs, NEW name \in {go[g].value},
                 At(g, "setDefault"), MakeDefault(g, db, name)
          PROVE  StoreMoves
      <3>1. db \in Dbs /\ name \in Names
        BY <2>2, Kinds DEF GoInv, Frames, Fits, At
      <3> QED BY <1>3, <2>2, <3>1
    <2>3. CASE MakeDefaultFails(g)
      BY <1>1, <2>3 DEF MakeDefaultFails
    <2>4. CASE FinishMutator(g)
      BY <1>2, <2>4 DEF FinishMutator, Next
    <2>5. CASE DropPolicies(g)
      <3>1. go[g].db \in Dbs
        BY Kinds DEF GoInv, Frames
      <3> QED BY <1>2, <2>5, <3>1 DEF DropPolicies, Next
    <2> QED BY <1>4, <2>1, <2>2, <2>3, <2>4, <2>5 DEF HandlerStep
  <1>5. ASSUME NEW w \in Writers, (\E t \in Tables : Write(w, t)) \/ WriteStep(w) PROVE StoreMoves
    <2>1. CASE EnsurePolicies(w)
      <3>1. go[w].db \in Dbs
        BY Kinds DEF GoInv, Frames
      <3> QED BY <1>1, <1>2, <2>1, <3>1 DEF EnsurePolicies, Next
    <2>2. CASE ~EnsurePolicies(w)
      BY <1>1, <1>5, <2>2 DEF Write, WriteStep, CreateHypertable, ReadInterval, NewChunk,
                              DropCompression, NewCompression
    <2> QED BY <2>1, <2>2
  <1>6. ASSUME NEW g \in Syncers, SyncStep(g) PROVE StoreMoves
    BY <1>1, <1>6 DEF SyncStep, LockSync, RemoveJob, AddJob, SetChunk, ReadTags, Uncompress, Compress
  <1>7. CASE Tick
    BY <1>1, <1>7 DEF Tick
  <1>8. CASE Restart
    BY <1>8 DEF StoreMoves
  <1>9. CASE UNCHANGED syncVars
    BY <1>1, <1>9 DEF syncVars
  <1> QED BY <1>4, <1>5, <1>6, <1>7, <1>8, <1>9 DEF SyncNext

\* The policies a start loads, with the autogen policy of the default database.
LEMMA RestartLoads ==
    ASSUME TypeOK, Restart
    PROVE  \E dflt \in BOOLEAN :
              /\ AutogenPolicy(dflt) \in Policy /\ <<DefaultDb, Autogen>> \in Keys
              /\ dflt => DefaultsOf(rows, DefaultDb) = {}
              /\ rows' = InsertIfAbsent(rows, <<DefaultDb, Autogen>>, AutogenPolicy(dflt))
              /\ cache' = rows' /\ pending' = Idle
  <1>1. PICK b \in BOOLEAN : b = (DefaultsOf(rows, DefaultDb) = {})
    OBVIOUS
  <1>2. /\ rows' = InsertIfAbsent(rows, <<DefaultDb, Autogen>>, AutogenPolicy(b))
        /\ cache' = rows' /\ pending' = Idle
    BY <1>1 DEF Restart
  <1>3. AutogenPolicy(b) \in Policy
    BY DEF AutogenPolicy, Policy
  <1>4. <<DefaultDb, Autogen>> \in Keys
    BY KeyParts
  <1> QED BY <1>1, <1>2, <1>3, <1>4

LEMMA StoreStep ==
    ASSUME GoInv, TypeOK, [SyncNext]_syncVars
    PROVE  TypeOK'
  <1>1. CASE [Next]_vars
    BY <1>1, TypeStep
  <1>2. CASE Restart
    BY <1>2, RestartLoads, InsertIfAbsentTable DEF TypeOK
  <1> QED BY <1>1, <1>2, StoreMoved DEF StoreMoves

LEMMA GoStep ==
    ASSUME GoInv, TypeOK, [SyncNext]_syncVars
    PROVE  GoInv'
  <1>1. ASSUME NEW g \in Handlers, Request(g) PROVE GoInv'
    BY <1>1, CreateMoves, AlterMoves, DropMoves, MakeDefaultMoves, DropDatabaseMoves DEF Request
  <1>2. ASSUME NEW g \in Handlers, HandlerStep(g) PROVE GoInv'
    <2>1. \A db \in go[g].dbs : db \in Dbs
      BY Kinds DEF GoInv, Frames
    <2> QED BY <1>2, <2>1, MakeDefaultMoves, MakeDefaultFailsMoves, FinishMutatorMoves,
               DropPoliciesMoves DEF HandlerStep
  <1>3. ASSUME NEW w \in Writers, (\E t \in Tables : Write(w, t)) \/ WriteStep(w) PROVE GoInv'
    BY <1>3, WriteMoves, WriteStepMoves
  <1>5. ASSUME NEW g \in Syncers, SyncStep(g) PROVE GoInv'
    BY <1>5, LockSyncMoves, RemoveJobMoves, AddJobMoves, SetChunkMoves, ReadTagsMoves,
       UncompressMoves, CompressMoves DEF SyncStep
  <1>6. CASE Tick
    BY <1>6, TickMoves
  <1>7. CASE Restart
    BY <1>7, RestartMoves
  <1>8. CASE UNCHANGED syncVars
    BY <1>8 DEF syncVars, GoInv
  <1> QED BY <1>1, <1>2, <1>3, <1>5, <1>6, <1>7, <1>8 DEF SyncNext

\* A job is that of a hypertable.
Jobs == [dropAfter : Int, every : Int]
JobTypes ==
    /\ hypertables \subseteq Tables
    /\ job \in [Tables -> Jobs \cup {NoJob}]
    /\ \A t \in Tables : job[t] # NoJob => t \in hypertables

\* A statement is executed or not, whatever its result.
LEMMA TriedEither ==
    ASSUME NEW g, NEW result \in Results(g), NEW before, NEW after
    PROVE  Tried(g, result, before, after) \subseteq {before, after}
  BY ResultTypes DEF Tried

\* AddJob adds a job to a hypertable, or none.
LEMMA AddedJob ==
    ASSUME NEW g, AddJob(g)
    PROVE  \E every \in Schedules :
              job' = job \/ (go[g].at \in hypertables /\ job' = JobAdded(g, every))
  <1>1. PICK result \in Results(g), every \in Schedules :
           job' \in Tried(g, result, job,
                    IF go[g].at \in hypertables /\ job[go[g].at] = NoJob
                    THEN JobAdded(g, every) ELSE job)
    BY DEF AddJob
  <1> QED BY <1>1, TriedEither

LEMMA JobRecord ==
    ASSUME TypeOK, NEW policy \in Policy, NEW every \in Schedules
    PROVE  [dropAfter |-> DropAfter(policy), every |-> every] \in Jobs
  <1>1. policy.dur \in Int
    BY DEF Policy
  <1>2. DropAfter(policy) \in Int
    BY <1>1 DEF DropAfter, Second
  <1>3. RetentionSchedule(0) \in Int /\ \A d \in Int : RetentionSchedule(d) \in Int
    BY DEF RetentionSchedule, Second, Minute, Hour
  <1>4. \A k \in Keys : cache[k] # NoPolicy => cache[k].dur \in Int
    BY DEF TypeOK, Table, Policy
  <1>5. every \in Int
    BY <1>3, <1>4 DEF Schedules, Second, Minute, Hour
  <1> QED BY <1>2, <1>5 DEF Jobs

LEMMA JobStep ==
    ASSUME GoInv, TypeOK, JobTypes, [SyncNext]_syncVars
    PROVE  JobTypes'
  <1>1. ASSUME UNCHANGED <<hypertables, job>> PROVE JobTypes'
    BY <1>1 DEF JobTypes
  <1>2. ASSUME NEW g \in Handlers, NEW db \in Dbs, DropDatabase(g, db) PROVE JobTypes'
    BY <1>2 DEF DropDatabase, JobTypes, Cleared, TablesOf
  <1>3. ASSUME NEW g \in Handlers, Request(g) \/ HandlerStep(g) PROVE JobTypes'
    BY <1>1, <1>2, <1>3 DEF Request, HandlerStep, Create, Alter, Drop, MakeDefault,
         MakeDefaultFails, FinishMutator, DropPolicies, tsdb
  <1>4. ASSUME NEW w \in Writers, CreateHypertable(w) PROVE JobTypes'
    <2>1. go[w].at \in Tables
      BY <1>4, Kinds, LabelSets DEF CreateHypertable, At, GoInv, Fits, TablesOf
    <2> QED BY <1>4, <2>1 DEF CreateHypertable, JobTypes
  <1>5. ASSUME NEW w \in Writers, (\E t \in Tables : Write(w, t)) \/ WriteStep(w) PROVE JobTypes'
    BY <1>1, <1>4, <1>5 DEF Write, WriteStep, EnsurePolicies, ReadInterval, NewChunk,
         DropCompression, NewCompression, tsdb
  <1>6. ASSUME NEW g \in Syncers, NEW t \in Tables, RemoveJob(g, t) PROVE JobTypes'
    <2>1. job' \in {job, JobRemoved(t)} /\ hypertables' = hypertables
      BY <1>6, ResultTypes, TriedEither DEF RemoveJob
    <2> QED BY <2>1 DEF JobTypes, JobRemoved
  <1>7. ASSUME NEW g \in Syncers, AddJob(g) PROVE JobTypes'
    <2>1. PICK every \in Schedules :
             job' = job \/ (go[g].at \in hypertables /\ job' = JobAdded(g, every))
      BY <1>7, AddedJob
    <2>2. go[g].policy \in Policy
      BY <1>7, Kinds DEF AddJob, At, GoInv, Frames, Fits, Expires
    <2>3. [dropAfter |-> DropAfter(go[g].policy), every |-> every] \in Jobs
      BY <2>2, JobRecord
    <2> QED BY <1>7, <2>1, <2>3 DEF AddJob, JobAdded, JobTypes
  <1>8. ASSUME NEW g \in Syncers, SyncStep(g) PROVE JobTypes'
    BY <1>1, <1>6, <1>7, <1>8 DEF SyncStep, LockSync, SetChunk, ReadTags, Uncompress, Compress, tsdb
  <1>9. CASE Tick \/ Restart \/ UNCHANGED syncVars
    BY <1>1, <1>9 DEF Tick, Restart, syncVars, tsdb
  <1> QED BY <1>3, <1>5, <1>8, <1>9 DEF SyncNext

Bounds == faults \in 0 .. MaxFaults /\ requests \in 0 .. MaxRequests

LEMMA FaultStep ==
    ASSUME Bounds, NEW g, NEW result \in Results(g), CountFault(g, result), UNCHANGED requests
    PROVE  Bounds'
  <1>1. CASE faults' = faults
    BY <1>1 DEF Bounds
  <1>2. CASE faults' = faults + 1
    <2>1. result # "ok" /\ ~Over(g)
      BY <1>2 DEF CountFault, Bounds
    <2>2. faults < MaxFaults
      BY <2>1 DEF Results
    <2> QED BY <1>2, <2>2 DEF Bounds
  <1> QED BY <1>1, <1>2 DEF CountFault

LEMMA BoundsStep ==
    ASSUME Bounds, [SyncNext]_syncVars
    PROVE  Bounds'
  <1>1. ASSUME UNCHANGED bounds PROVE Bounds'
    BY <1>1 DEF bounds, Bounds
  <1>2. ASSUME NEW g, NEW op, Arrives(g, op) PROVE Bounds'
    BY <1>2 DEF Arrives, Bounds
  <1>3. ASSUME NEW g \in Handlers, Request(g) PROVE Bounds'
    BY <1>2, <1>3 DEF Request, Create, Alter, Drop, DropDatabase
  <1>4. ASSUME NEW g \in Handlers, HandlerStep(g) PROVE Bounds'
    BY <1>1, <1>4 DEF HandlerStep, MakeDefaultFails, FinishMutator, DropPolicies
  <1>5. ASSUME NEW w \in Writers, (\E t \in Tables : Write(w, t)) \/ WriteStep(w) PROVE Bounds'
    <2>1. CASE NewChunk(w)
      BY <2>1, FaultStep DEF NewChunk
    <2>2. CASE DropCompression(w)
      BY <2>2, FaultStep DEF DropCompression
    <2>3. CASE NewCompression(w)
      BY <2>3, FaultStep DEF NewCompression
    <2> QED BY <1>1, <1>2, <1>5, <2>1, <2>2, <2>3 DEF Write, WriteStep, EnsurePolicies,
                CreateHypertable, ReadInterval
  <1>6. ASSUME NEW g \in Syncers, SyncStep(g) PROVE Bounds'
    <2>1. ASSUME NEW db \in Dbs, LockSync(g, db) PROVE Bounds'
      BY <2>1, FaultStep DEF LockSync
    <2>2. ASSUME NEW t \in Tables, RemoveJob(g, t) PROVE Bounds'
      BY <2>2, FaultStep DEF RemoveJob
    <2>3. CASE AddJob(g)
      BY <2>3, FaultStep DEF AddJob
    <2>4. CASE SetChunk(g)
      BY <2>4, FaultStep DEF SetChunk
    <2>5. CASE ReadTags(g)
      BY <1>1, <2>5 DEF ReadTags
    <2>6. CASE Uncompress(g)
      BY <2>6, FaultStep DEF Uncompress
    <2>7. CASE Compress(g)
      BY <2>7, FaultStep DEF Compress
    <2> QED BY <1>6, <2>1, <2>2, <2>3, <2>4, <2>5, <2>6, <2>7 DEF SyncStep
  <1>7. CASE Restart
    BY <1>7 DEF Restart, Bounds
  <1>8. CASE Tick \/ UNCHANGED syncVars
    BY <1>1, <1>8 DEF Tick, syncVars
  <1> QED BY <1>3, <1>4, <1>5, <1>6, <1>7, <1>8 DEF SyncNext

SyncInv == TypeOK /\ GoInv /\ JobTypes /\ Bounds

LEMMA SyncInvStep == SyncInv /\ [SyncNext]_syncVars => SyncInv'
  BY StoreStep, GoStep, JobStep, BoundsStep DEF SyncInv

LEMMA SyncInvStart == SyncInit => SyncInv
  <1> SUFFICES ASSUME SyncInit PROVE SyncInv
    OBVIOUS
  <1>1. AutogenPolicy(TRUE) \in Policy
    BY DEF AutogenPolicy, Policy
  <1>2. TypeOK
    BY <1>1 DEF SyncInit, TypeOK, Table
  <1>3. GoInv
    BY RestingFits DEF SyncInit, GoInv
  <1>4. JobTypes /\ Bounds
    BY DEF SyncInit, JobTypes, Bounds
  <1> QED BY <1>2, <1>3, <1>4 DEF SyncInv


\* Whatever fails, times out or is restarted: only a hypertable has a job, a sync works on
\* tables of its database only, and the store is well formed.
THEOREM SyncTypesCorrect == SyncSpec => []SyncTypeOK
  <1>1. SyncInv => SyncTypeOK
    BY DEF SyncInv, GoInv, JobTypes, Bounds, SyncTypeOK, Frames, Fits
  <1> QED BY <1>1, SyncInvStart, SyncInvStep, PTL DEF SyncSpec

-----------------------------------------------------------------------------
(* The store among the syncs.                                               *)

\* The policy a sync, a new chunk interval and a compression job go by does not depend on
\* the order of a Go map, as long as the database has a default.
PolicyIsDefinite ==
    \A db \in Dbs : DefaultsOf(cache, db) # {} => \A m, n \in Choices(db) : m = n

\* A database has one default in the cache too.  In the middle of a SetDefault the cache
\* keeps the old one, which the table has lost: this is why it is said separately.
OneDefaultCached == \A db \in Dbs : \A k, l \in DefaultsOf(cache, db) : k = l

StoreInv ==
    /\ OneDefaultRow /\ ClearedBeforeGranted
    /\ CacheMatchesTable /\ HalfwayInStep
    /\ OneDefaultCached

\* Only the first half of a SetDefault leads into the middle of one, and leaves the cache alone.
LEMMA MiddleOfSetDefault ==
    ASSUME [Next]_vars, pending'.op = "setDefault"
    PROVE  cache' = cache
  <1> DEFINE Kept == cache' = cache
  <1>1. Idle.op # "setDefault"
    BY DEF Idle
  <1>2. ASSUME NEW db \in Dbs, NEW name \in Names, NEW d, NEW s, NEW dflt,
               CreatePolicy(db, name, d, s, dflt)
        PROVE  Kept
    BY <1>1, <1>2 DEF CreatePolicy
  <1>3. ASSUME NEW db \in Dbs, NEW name \in Names, NEW d, NEW s, AlterPolicy(db, name, d, s)
        PROVE  Kept
    BY <1>1, <1>3 DEF AlterPolicy
  <1>4. ASSUME NEW db \in Dbs, NEW name \in Names, SetDefault(db, name) \/ DropPolicy(db, name)
        PROVE  Kept
    BY <1>1, <1>4 DEF SetDefault, DropPolicy
  <1>5. ASSUME NEW db \in Dbs, DropDatabasePolicies(db) \/ EnsureDatabasePolicies(db)
        PROVE  Kept
    BY <1>1, <1>5 DEF DropDatabasePolicies, EnsureDatabasePolicies
  <1>6. CASE CreatePolicyUpsert \/ SetDefaultMark \/ CrashRestart
    BY <1>1, <1>6 DEF CreatePolicyUpsert, SetDefaultMark, CrashRestart
  <1>7. CASE UNCHANGED vars
    BY <1>7 DEF vars
  <1> QED BY <1>2, <1>3, <1>4, <1>5, <1>6, <1>7 DEF Next

LEMMA StoreInvStep ==
    ASSUME ClauseErrors = {}, TypeOK, TypeOK', GoInv, StoreInv, [SyncNext]_syncVars
    PROVE  StoreInv'
  <1>1. CASE [Next]_vars
    <2>1. (OneDefaultRow /\ ClearedBeforeGranted)'
      BY <1>1, OneDefaultStep DEF StoreInv
    <2>2. (CacheMatchesTable /\ HalfwayInStep)'
      BY <1>1, InStepKept DEF StoreInv
    <2>3. CASE pending'.op = "setDefault"
      BY <1>1, <2>1, <2>2, <2>3, MiddleOfSetDefault DEF StoreInv, OneDefaultCached, DefaultsOf
    <2>4. CASE pending'.op # "setDefault"
      <3>1. pending' = Idle \/ pending'.op = "upsert"
        BY <2>4 DEF TypeOK, Upserts, SetDefaults
      <3>2. cache' = rows'
        BY <2>2, <3>1 DEF CacheMatchesTable, HalfwayInStep
      <3> QED BY <2>1, <2>2, <3>2 DEF StoreInv, OneDefaultRow, OneDefaultCached
    <2> QED BY <2>3, <2>4
  <1>2. CASE Restart
    <2> DEFINE key == <<DefaultDb, Autogen>>
    <2>1. key \in Keys /\ key[1] = DefaultDb
      BY KeyParts
    <2>2. PICK dflt \in BOOLEAN :
              /\ AutogenPolicy(dflt) \in Policy
              /\ dflt => DefaultsOf(rows, DefaultDb) = {}
              /\ rows' = InsertIfAbsent(rows, key, AutogenPolicy(dflt))
              /\ cache' = rows' /\ pending' = Idle
      BY <1>2, RestartLoads
    <2> HIDE DEF key
    <2>3. \A e \in Dbs : DefaultsOf(rows', e) \subseteq
              DefaultsOf(rows, e) \cup {k \in {key} : k[1] = e /\ AutogenPolicy(dflt).dflt}
      BY <2>1, <2>2, InsertIfAbsentTable DEF TypeOK
    <2>4. AutogenPolicy(dflt).dflt = dflt
      BY DEF AutogenPolicy
    <2>5. OneDefaultRow'
      BY <2>1, <2>2, <2>3, <2>4, DefaultsGain, DefaultsShrink DEF StoreInv
    <2> QED BY <2>2, <2>5 DEF StoreInv, OneDefaultRow, OneDefaultCached, ClearedBeforeGranted,
                              CacheMatchesTable, HalfwayInStep, Idle
  <1> QED BY <1>1, <1>2, StoreMoved DEF StoreMoves

LEMMA StoreInvStart == SyncInit => StoreInv
  <1> SUFFICES ASSUME SyncInit PROVE StoreInv
    OBVIOUS
  <1>1. cache = rows /\ pending = Idle
    BY DEF SyncInit
  <1>2. \A db \in Dbs : DefaultsOf(rows, db) \subseteq {<<DefaultDb, Autogen>>}
    BY DEF SyncInit, DefaultsOf
  <1> QED BY <1>1, <1>2 DEF StoreInv, OneDefaultRow, OneDefaultCached, ClearedBeforeGranted,
                            CacheMatchesTable, HalfwayInStep, Idle

\* What RetentionPolicies promises holds among the handlers, the writes, the loop and the
\* restarts of the whole proxy, which take the steps of the store only while rs.mu lets them:
\* one stored default for a database, and a cache that is the table whenever rs.mu is free.
THEOREM StoreStaysSound ==
    ASSUME ClauseErrors = {}
    PROVE  SyncSpec => [](OneDefaultRow /\ CacheMatchesTable)
  <1>1. SyncInv /\ SyncInv' /\ StoreInv /\ [SyncNext]_syncVars => StoreInv'
    BY StoreInvStep DEF SyncInv
  <1>2. StoreInv => OneDefaultRow /\ CacheMatchesTable
    BY DEF StoreInv
  <1> QED BY <1>1, <1>2, StoreInvStart, SyncInvStart, SyncInvStep, PTL DEF SyncSpec

\* So the handler's sync, the loop's and EnsureTable, each of which looks for the policy of a
\* database anew, find the same one at any one time, as long as the database has a default.
THEOREM SyncersAgree ==
    ASSUME ClauseErrors = {}
    PROVE  SyncSpec => []PolicyIsDefinite
  <1>1. SyncInv /\ SyncInv' /\ StoreInv /\ [SyncNext]_syncVars => StoreInv'
    BY StoreInvStep DEF SyncInv
  <1>2. StoreInv => PolicyIsDefinite
    BY DEF StoreInv, OneDefaultCached, PolicyIsDefinite, Choices, PolicyKeys
  <1> QED BY <1>1, <1>2, StoreInvStart, SyncInvStart, SyncInvStep, PTL DEF SyncSpec

-----------------------------------------------------------------------------
(* No job of a policy that is gone.                                         *)

\* The job of a table is none that a policy of its database asks for.
Stale(t) ==
    /\ job[t] # NoJob
    /\ ~ \E policy \in Choices(DbOf[t]) : Expires(policy) /\ job[t].dropAfter = DropAfter(policy)

\* Handler g will remove the job of t: the sync of its database is ahead of it (but not if
\* it is about to make a policy the default that is not there), or t is.
WillSync(g, t) ==
    \/ /\ DbOf[t] \in go[g].dbs
       /\ At(g, "setDefault") => cache[<<DbOf[t], go[g].value>>] # NoPolicy
    \/ go[g].pc \in Syncing /\ go[g].db = DbOf[t] /\ t \in go[g].todo

\* The invariant, while nothing times out and neither a database nor an autogen policy is
\* dropped.
OnTime ==
    /\ \A g \in Syncers : Punctual(go[g])
    /\ \A g \in Handlers : ~At(g, "dropPolicies")

\* rs.mu is held by one mutator, of a database its handler is about to synchronise, or by
\* syncs.
MutatorInv ==
    /\ pending # Idle => RsUnread
    /\ \A g \in Handlers : At(g, "mutator") => pending # Idle /\ go[g].dbs = {pending.key[1]}
    /\ \A g, h \in Handlers : At(g, "mutator") /\ At(h, "mutator") => g = h

\* EnsureDatabasePolicies, which nothing synchronises, adds no policy to a database that has
\* a hypertable.
AutogenStays ==
    /\ \A t \in hypertables : cache[<<DbOf[t], Autogen>>] # NoPolicy
    /\ \A w \in Writers :
          go[w].pc \in InWriter \ {"ensure"} => cache[<<go[w].db, Autogen>>] # NoPolicy

\* The policy a sync works with is still one of its database.
PolicyHeld == \A g \in Syncers : go[g].pc \in Syncing => go[g].policy \in Choices(go[g].db)

\* A stale job is one that a handler will remove.
Owing == \A t \in Tables : Stale(t) => \E g \in Handlers : WillSync(g, t)

OwingInv == OnTime /\ MutatorInv /\ AutogenStays /\ PolicyHeld /\ Owing
JobInv == SyncInv /\ OwingInv

(* What the mutators do to the cache.                                       *)

OnlyIn(db) == \A k \in Keys : k[1] # db => cache'[k] = cache[k]
Keeps(k) == cache[k] # NoPolicy => cache'[k] # NoPolicy

LEMMA AllSucceed == Outcomes = {"ok"} /\ Executed("ok")
  BY DEF Outcomes, Executed

LEMMA CreateStore ==
    ASSUME TypeOK, NEW db \in Dbs, NEW name \in Names, NEW d \in Durations,
           NEW s \in Shards \cup {Omitted}, NEW dflt \in BOOLEAN,
           CreatePolicy(db, name, d, s, dflt)
    PROVE  /\ OnlyIn(db) /\ \A k \in Keys : Keeps(k)
           /\ pending = Idle /\ pending' # Idle /\ pending'.key[1] = db
  <1>1. /\ cache' = IF dflt THEN ClearDefaults(cache, db) ELSE cache
        /\ pending' = [op |-> "upsert", key |-> <<db, name>>,
                       policy |-> [dur |-> d, shard |-> ShardOf(s), dflt |-> dflt]]
        /\ pending = Idle
    BY AllSucceed DEF CreatePolicy
  <1>2. pending' # Idle /\ pending'.key[1] = db
    <2>1. pending'.op = "upsert" /\ Idle.op = "idle"
      BY <1>1 DEF Idle
    <2> QED BY <1>1, <2>1
  <1>3. \A k \in Keys : k[1] # db => ClearDefaults(cache, db)[k] = cache[k]
    BY DEF ClearDefaults
  <1>4. \A k \in Keys : (ClearDefaults(cache, db)[k] = NoPolicy) = (cache[k] = NoPolicy)
    BY ClearDefaultsTable DEF TypeOK
  <1> QED BY <1>1, <1>2, <1>3, <1>4 DEF OnlyIn, Keeps

LEMMA UpsertStore ==
    ASSUME TypeOK, CreatePolicyUpsert
    PROVE  /\ OnlyIn(pending.key[1]) /\ \A k \in Keys : Keeps(k)
           /\ pending.key[1] \in Dbs /\ pending # Idle /\ pending' = Idle
  <1> DEFINE key == pending.key  stored == Upsert(cache, pending.key, pending.policy)
  <1>1. /\ key \in Keys /\ pending.policy \in Policy /\ key[1] \in Dbs /\ pending' = Idle
        /\ rows' \in Table /\ cache \in Table
        /\ cache' \in {cache, stored, ReloadDefaults(stored, rows', key[1])}
    BY UpsertStep DEF TypeOK
  <1>2. pending # Idle
    BY DEF CreatePolicyUpsert, Idle
  <1> HIDE DEF key
  <1>3. /\ stored \in Table
        /\ \A k \in Keys : stored[k] = NoPolicy => cache[k] = NoPolicy
        /\ \A k \in Keys : k # key => stored[k] = cache[k]
    BY <1>1, UpsertTable DEF Upsert, Table, key
  <1> HIDE DEF stored
  <1>4. \A k \in Keys : k[1] # key[1] => ReloadDefaults(stored, rows', key[1])[k] = stored[k]
    BY DEF ReloadDefaults
  <1>5. \A k \in Keys : (ReloadDefaults(stored, rows', key[1])[k] = NoPolicy)
                             = (stored[k] = NoPolicy)
    <2>1. ASSUME NEW t \in Table, NEW db \in Dbs
          PROVE  \A k \in Keys : (ReloadDefaults(stored, t, db)[k] = NoPolicy)
                                      = (stored[k] = NoPolicy)
      BY <1>3, ReloadDefaultsTable
    <2> QED BY <1>1, <2>1
  <1> QED BY <1>1, <1>2, <1>3, <1>4, <1>5 DEF OnlyIn, Keeps, key

LEMMA AlterStore ==
    ASSUME TypeOK, NEW db \in Dbs, NEW name \in Names, NEW d \in Durations,
           NEW s \in Shards \cup {Omitted}, AlterPolicy(db, name, d, s)
    PROVE  /\ OnlyIn(db) /\ \A k \in Keys : Keeps(k)
           /\ cache'[<<db, name>>] # NoPolicy /\ pending = Idle /\ pending' = pending
  <1>1. <<db, name>> \in Keys /\ <<db, name>>[1] = db /\ cache[<<db, name>>] # NoPolicy
    BY KeyParts DEF AlterPolicy
  <1>2. \A k \in Keys : (cache'[k] = NoPolicy) = (cache[k] = NoPolicy)
    BY AlterKeeps
  <1>3. \A k \in Keys : k # <<db, name>> => cache'[k] = cache[k]
    BY <1>1 DEF AlterPolicy, TypeOK, Table
  <1> QED BY <1>1, <1>2, <1>3 DEF AlterPolicy, OnlyIn, Keeps

LEMMA DefaultStore ==
    ASSUME TypeOK, NEW db \in Dbs, NEW name, SetDefault(db, name)
    PROVE  /\ cache' = cache
           /\ pending = Idle /\ pending' # Idle /\ pending'.key[1] = db
  <1>1. /\ cache' = cache /\ pending = Idle
        /\ pending' = [op |-> "setDefault", key |-> <<db, name>>]
    BY AllSucceed DEF SetDefault
  <1>2. pending'.op = "setDefault" /\ Idle.op = "idle"
    BY <1>1 DEF Idle
  <1> QED BY <1>1, <1>2

LEMMA MarkStore ==
    ASSUME TypeOK, SetDefaultMark
    PROVE  /\ OnlyIn(pending.key[1]) /\ \A k \in Keys : Keeps(k)
           /\ pending.key[1] \in Dbs /\ pending # Idle /\ pending' = Idle
  <1> DEFINE key == pending.key  cleared == ClearDefaults(cache, pending.key[1])
  <1>1. pending \in SetDefaults
    BY DEF SetDefaultMark, TypeOK, Idle, Upserts
  <1>2. key \in Keys /\ key[1] \in Dbs
    BY <1>1, KeyDb DEF SetDefaults
  <1>3. pending # Idle /\ pending' = Idle /\ cache' = MarkDefault(cleared, key)
    BY AllSucceed DEF SetDefaultMark, Idle
  <1> HIDE DEF key
  <1>4. /\ cleared \in Table
        /\ \A k \in Keys : (cleared[k] = NoPolicy) = (cache[k] = NoPolicy)
        /\ \A k \in Keys : k[1] # key[1] => cleared[k] = cache[k]
    BY <1>2, ClearDefaultsTable DEF TypeOK, ClearDefaults, key
  <1> HIDE DEF cleared
  <1>5. \A k \in Keys : (MarkDefault(cleared, key)[k] = NoPolicy) = (cleared[k] = NoPolicy)
    BY <1>2, <1>4, MarkDefaultTable
  <1>6. \A k \in Keys : k # key => MarkDefault(cleared, key)[k] = cleared[k]
    BY DEF MarkDefault
  <1> QED BY <1>2, <1>3, <1>4, <1>5, <1>6 DEF OnlyIn, Keeps, key

LEMMA DropStore ==
    ASSUME TypeOK, NEW db \in Dbs, NEW name \in Names, DropPolicy(db, name)
    PROVE  /\ OnlyIn(db) /\ \A k \in Keys : k # <<db, name>> => Keeps(k)
           /\ pending = Idle /\ pending' = pending
  <1>1. <<db, name>> \in Keys /\ <<db, name>>[1] = db
    BY KeyParts
  <1>2. cache' = [cache EXCEPT ![<<db, name>>] = NoPolicy] /\ pending = Idle /\ pending' = pending
    BY AllSucceed DEF DropPolicy
  <1> QED BY <1>1, <1>2 DEF TypeOK, Table, OnlyIn, Keeps

LEMMA EnsureStore ==
    ASSUME TypeOK, NEW db \in Dbs, EnsureDatabasePolicies(db)
    PROVE  /\ OnlyIn(db) /\ \A k \in Keys : Keeps(k)
           /\ cache'[<<db, Autogen>>] # NoPolicy /\ pending = Idle /\ pending' = pending
  <1> DEFINE key == <<db, Autogen>>
  <1>1. key \in Keys /\ key[1] = db /\ pending = Idle /\ pending' = Idle
    BY EnsureStep, KeyParts
  <1>2. PICK b \in BOOLEAN : AutogenPolicy(b) \in Policy /\ cache' = Upsert(cache, key, AutogenPolicy(b))
    BY AllSucceed, EnsureStep
  <1> HIDE DEF key
  <1>3. /\ cache'[key] # NoPolicy
        /\ \A k \in Keys : cache'[k] = NoPolicy => cache[k] = NoPolicy
        /\ \A k \in Keys : k # key => cache'[k] = cache[k]
    BY <1>1, <1>2, UpsertTable DEF TypeOK, Upsert, Table
  <1> QED BY <1>1, <1>3 DEF OnlyIn, Keeps, key

\* A database that a step leaves alone has the policies to choose from that it had.
LEMMA ChoicesKept ==
    ASSUME NEW db, OnlyIn(db), NEW e \in Dbs, e # db
    PROVE  Choices(e)' = Choices(e)
  <1>1. \A k \in Keys : k[1] = e => cache'[k] = cache[k]
    BY DEF OnlyIn
  <1>2. DefaultsOf(cache', e) = DefaultsOf(cache, e)
    BY <1>1 DEF DefaultsOf
  <1>3. PolicyKeys(e)' = PolicyKeys(e) /\ \A k \in PolicyKeys(e) : k \in Keys /\ k[1] = e
    BY <1>1, <1>2 DEF PolicyKeys, DefaultsOf
  <1>4. {cache'[k] : k \in PolicyKeys(e)} = {cache[k] : k \in PolicyKeys(e)}
    BY <1>1, <1>3
  <1>5. Choices(e)' = IF PolicyKeys(e) = {} THEN {NoPolicy} ELSE {cache'[k] : k \in PolicyKeys(e)}
    BY <1>3 DEF Choices
  <1> QED BY <1>4, <1>5 DEF Choices

(* What one goroutine's step does to the parts of the invariant.            *)

LEMMA OnTimeKept ==
    ASSUME OnTime, NEW g, Alone(g), g \in Syncers => Punctual(go'[g]),
           g \in Handlers => go'[g].pc # "dropPolicies"
    PROVE  OnTime'
  BY Kinds DEF OnTime, Alone, At

LEMMA MutatorBegins ==
    ASSUME MutatorInv, NEW g \in Handlers, Alone(g), RsUnread, NEW db, pending = Idle,
           pending' # Idle, pending'.key[1] = db, go'[g].pc = "mutator", go'[g].dbs = {db}
    PROVE  MutatorInv'
  BY Kinds, LabelSets DEF MutatorInv, RsUnread, Alone, At

LEMMA MutatorEnds ==
    ASSUME MutatorInv, NEW g \in Handlers, Alone(g), go[g].pc = "mutator",
           pending' = Idle, go'[g].pc = "sync"
    PROVE  MutatorInv'
  BY Kinds DEF MutatorInv, Alone, At

LEMMA MutatorKept ==
    ASSUME MutatorInv, NEW g \in Goroutines, Alone(g), pending' = pending,
           go'[g].pc # "mutator", pending = Idle \/ go'[g].pc \notin Syncing
    PROVE  MutatorInv'
  BY Kinds DEF MutatorInv, RsUnread, Alone, At

LEMMA AutogenKept ==
    ASSUME AutogenStays, SyncInv, NEW g \in Goroutines \ Writers, Alone(g),
           hypertables' = hypertables, \A db \in Dbs : Keeps(<<db, Autogen>>)
    PROVE  AutogenStays'
  <1>1. \A w \in Writers : go'[w] = go[w] /\ go[w].db \in Dbs
    BY Kinds DEF Alone, SyncInv, GoInv, Frames
  <1>2. \A t \in hypertables : DbOf[t] \in Dbs
    BY DEF SyncInv, JobTypes
  <1> QED BY <1>1, <1>2 DEF AutogenStays, Keeps

LEMMA SameChoices == ASSUME cache' = cache PROVE \A e : Choices(e)' = Choices(e)
  BY DEF Choices, PolicyKeys

LEMMA PolicyHeldKept ==
    ASSUME PolicyHeld, cache' = cache, NEW g \in Goroutines, Alone(g),
           g \in Syncers /\ go'[g].pc \in Syncing => go'[g].policy \in Choices(go'[g].db)
    PROVE  PolicyHeld'
  BY Kinds, SameChoices DEF PolicyHeld, Alone

\* No job becomes stale, and the owner of a stale one still owes it.
LEMMA OwingKept ==
    ASSUME Owing, cache' = cache, NEW g \in Goroutines, Alone(g),
           \A t \in Tables : Stale(t)'
              => Stale(t) /\ (g \in Handlers /\ WillSync(g, t) => WillSync(g, t)')
    PROVE  Owing'
  <1> SUFFICES ASSUME NEW t \in Tables, Stale(t)' PROVE \E h \in Handlers : WillSync(h, t)'
    BY DEF Owing
  <1>1. PICK h \in Handlers : WillSync(h, t)
    BY DEF Owing
  <1>2. CASE h = g
    BY <1>1, <1>2
  <1>3. CASE h # g
    <2>1. go'[h] = go[h]
      BY <1>3, Kinds DEF Alone
    <2>2. WillSync(h, t)'
      BY <1>1, <2>1 DEF WillSync, At
    <2> QED BY <2>2
  <1> QED BY <1>2, <1>3

\* A mutator of the policies of db, whose handler will synchronise db, while no sync is
\* under way.
LEMMA PolicyStep ==
    ASSUME JobInv, NEW g \in Handlers, NEW db \in Dbs, Alone(g), UNCHANGED tsdb, RsUnread,
           OnlyIn(db), \A e \in Dbs : Keeps(<<e, Autogen>>),
           go[g].dbs \subseteq {db}, go'[g].dbs = {db},
           \/ go'[g].pc \in {"mutator", "sync"}
           \/ go'[g].pc = "setDefault" /\ cache'[<<db, go'[g].value>>] # NoPolicy
    PROVE  AutogenStays' /\ PolicyHeld' /\ Owing'
  <1>1. AutogenStays'
    <2>1. g \in Goroutines \ Writers
      BY Kinds
    <2> QED BY <2>1, AutogenKept DEF JobInv, OwingInv, tsdb
  <1>2. PolicyHeld'
    BY Kinds, LabelSets DEF RsUnread, PolicyHeld, Alone
  <1>3. ASSUME NEW t \in Tables, Stale(t)' PROVE \E h \in Handlers : WillSync(h, t)'
    <2>1. CASE DbOf[t] = db
      <3>1. WillSync(g, t)'
        BY <2>1 DEF WillSync, At
      <3> QED BY <3>1
    <2>2. CASE DbOf[t] # db
      <3>1. DbOf[t] \in Dbs /\ Choices(DbOf[t])' = Choices(DbOf[t]) /\ job' = job
        BY <2>2, ChoicesKept DEF tsdb
      <3>2. Stale(t)
        BY <1>3, <3>1 DEF Stale
      <3>3. PICK h \in Handlers : WillSync(h, t)
        BY <3>2 DEF JobInv, OwingInv, Owing
      <3>4. /\ DbOf[t] \in go[h].dbs
            /\ At(h, "setDefault") => cache[<<DbOf[t], go[h].value>>] # NoPolicy
        BY <3>3, Kinds DEF WillSync, RsUnread
      <3>5. h # g /\ go'[h] = go[h]
        BY <2>2, <3>4, Kinds DEF Alone
      <3>6. At(h, "setDefault") => cache'[<<DbOf[t], go[h].value>>] # NoPolicy
        <4>1. At(h, "setDefault") => go[h].value \in Names
          BY Kinds DEF JobInv, SyncInv, GoInv, Fits, At
        <4> QED BY <2>2, <3>1, <3>4, <4>1, KeyParts DEF OnlyIn
      <3>7. WillSync(h, t)'
        BY <3>4, <3>5, <3>6 DEF WillSync, At
      <3> QED BY <3>7
    <2> QED BY <2>1, <2>2
  <1> QED BY <1>1, <1>2, <1>3 DEF Owing

(* The handlers' steps.                                                     *)

LEMMA CreateOwes ==
    ASSUME JobInv, NEW g \in Handlers, NEW db \in Dbs, NEW name \in Names, Create(g, db, name)
    PROVE  OwingInv'
  <1>1. /\ Alone(g) /\ go[g].pc = "idle" /\ go'[g].pc = "mutator" /\ go'[g].dbs = {db}
        /\ Punctual(go'[g])
    BY CreateMoves DEF JobInv, SyncInv
  <1>2. go[g].dbs = {} /\ RsUnread /\ UNCHANGED tsdb
    BY <1>1, Kinds DEF JobInv, SyncInv, GoInv, Fits, Create
  <1>3. /\ OnlyIn(db) /\ \A k \in Keys : Keeps(k)
        /\ pending = Idle /\ pending' # Idle /\ pending'.key[1] = db
    BY CreateStore DEF JobInv, SyncInv, Create
  <1>4. \A e \in Dbs : Keeps(<<e, Autogen>>)
    BY <1>3, KeyParts
  <1>5. OnTime' /\ MutatorInv'
    BY <1>1, <1>2, <1>3, OnTimeKept, MutatorBegins DEF JobInv, OwingInv
  <1> QED BY <1>1, <1>2, <1>3, <1>4, <1>5, PolicyStep DEF OwingInv

LEMMA AlterOwes ==
    ASSUME JobInv, NEW g \in Handlers, NEW db \in Dbs, NEW name \in Names, Alter(g, db, name)
    PROVE  OwingInv'
  <1>1. /\ Alone(g) /\ go[g].pc = "idle" /\ go'[g].dbs = {db} /\ Punctual(go'[g])
        /\ go'[g].pc = "sync" \/ (go'[g].pc = "setDefault" /\ go'[g].value = name)
    BY AlterMoves DEF JobInv, SyncInv
  <1>2. go[g].dbs = {} /\ RsUnread /\ UNCHANGED tsdb
    BY <1>1, Kinds DEF JobInv, SyncInv, GoInv, Fits, Alter
  <1>3. /\ OnlyIn(db) /\ \A k \in Keys : Keeps(k)
        /\ cache'[<<db, name>>] # NoPolicy /\ pending = Idle /\ pending' = pending
    BY AlterStore DEF JobInv, SyncInv, Alter
  <1>4. \A e \in Dbs : Keeps(<<e, Autogen>>)
    BY <1>3, KeyParts
  <1>5. OnTime' /\ MutatorInv'
    BY <1>1, <1>3, Kinds, OnTimeKept, MutatorKept DEF JobInv, OwingInv
  <1> QED BY <1>1, <1>2, <1>3, <1>4, <1>5, PolicyStep DEF OwingInv

LEMMA MakeDefaultOwes ==
    ASSUME JobInv, NEW g \in Handlers, NEW db \in Dbs, NEW name \in Names,
           go[g].dbs \subseteq {db}, MakeDefault(g, db, name)
    PROVE  OwingInv'
  <1>1. Alone(g) /\ go'[g].pc = "mutator" /\ go'[g].dbs = {db} /\ Punctual(go'[g])
    BY MakeDefaultMoves DEF JobInv, SyncInv
  <1>2. RsUnread /\ UNCHANGED tsdb
    BY DEF MakeDefault
  <1>3. cache' = cache /\ pending = Idle /\ pending' # Idle /\ pending'.key[1] = db
    BY DefaultStore DEF JobInv, SyncInv, MakeDefault
  <1>4. OnlyIn(db) /\ \A e \in Dbs : Keeps(<<e, Autogen>>)
    BY <1>3 DEF OnlyIn, Keeps
  <1>5. OnTime' /\ MutatorInv'
    BY <1>1, <1>2, <1>3, OnTimeKept, MutatorBegins DEF JobInv, OwingInv
  <1> QED BY <1>1, <1>2, <1>4, <1>5, PolicyStep DEF OwingInv

\* The handler whose policy is gone owed nothing.
LEMMA MakeDefaultFailsOwes ==
    ASSUME JobInv, NEW g \in Handlers, MakeDefaultFails(g)
    PROVE  OwingInv'
  <1>1. /\ Alone(g) /\ go'[g].pc = "idle" /\ Punctual(go'[g]) /\ go[g].pc = "setDefault"
        /\ \E db \in go[g].dbs : cache[<<db, go[g].value>>] = NoPolicy
    BY MakeDefaultFailsMoves DEF JobInv, SyncInv
  <1>2. /\ cache' = cache /\ pending' = pending /\ hypertables' = hypertables /\ job' = job
        /\ g \in Goroutines \ Writers
    BY Kinds DEF MakeDefaultFails, store, tsdb
  <1>3. OnTime' /\ MutatorInv'
    BY <1>1, <1>2, LabelSets, OnTimeKept, MutatorKept DEF JobInv, OwingInv
  <1>4. AutogenStays' /\ PolicyHeld'
    BY <1>1, <1>2, LabelSets, AutogenKept, PolicyHeldKept DEF JobInv, OwingInv, Keeps
  <1>5. ASSUME NEW t \in Tables PROVE ~WillSync(g, t)
    <2>1. PICK db \in Dbs : go[g].dbs = {db}
      BY <1>1, Kinds DEF JobInv, SyncInv, GoInv, Fits
    <2> QED BY <1>1, <2>1, LabelSets DEF WillSync, At
  <1>6. \A t \in Tables : Stale(t)' = Stale(t)
    BY <1>2, SameChoices DEF Stale
  <1>7. Owing'
    BY <1>1, <1>2, <1>5, <1>6, OwingKept DEF JobInv, OwingInv
  <1> QED BY <1>3, <1>4, <1>7 DEF OwingInv

LEMMA FinishMutatorOwes ==
    ASSUME JobInv, NEW g \in Handlers, FinishMutator(g)
    PROVE  OwingInv'
  <1>1. /\ Alone(g) /\ go[g].pc = "mutator" /\ go'[g].pc = "sync" /\ go'[g].dbs = go[g].dbs
        /\ SameClocks(go'[g], go[g])
    BY FinishMutatorMoves DEF JobInv, SyncInv
  <1>2. go[g].dbs = {pending.key[1]} /\ RsUnread /\ Punctual(go[g]) /\ UNCHANGED tsdb
    BY <1>1, Kinds DEF JobInv, OwingInv, MutatorInv, OnTime, At, FinishMutator
  <1>3. /\ OnlyIn(pending.key[1]) /\ \A k \in Keys : Keeps(k)
        /\ pending.key[1] \in Dbs /\ pending' = Idle
    BY UpsertStore, MarkStore DEF JobInv, SyncInv, FinishMutator
  <1>4. \A e \in Dbs : Keeps(<<e, Autogen>>)
    BY <1>3, KeyParts
  <1>5. OnTime' /\ MutatorInv'
    BY <1>1, <1>2, <1>3, OnTimeKept, MutatorEnds DEF JobInv, OwingInv, Punctual, SameClocks
  <1> QED BY <1>1, <1>2, <1>3, <1>4, <1>5, PolicyStep DEF OwingInv

LEMMA DropOwes ==
    ASSUME JobInv, "dropAutogen" \notin Ops,
           NEW g \in Handlers, NEW db \in Dbs, NEW name \in Names, Drop(g, db, name)
    PROVE  OwingInv'
  <1>1. /\ Alone(g) /\ go[g].pc = "idle" /\ go'[g].pc = "sync" /\ go'[g].dbs = {db}
        /\ Punctual(go'[g])
    BY DropMoves DEF JobInv, SyncInv
  <1>2. go[g].dbs = {} /\ RsUnread /\ UNCHANGED tsdb /\ name # Autogen
    BY <1>1, Kinds DEF JobInv, SyncInv, GoInv, Fits, Drop, Arrives
  <1>3. /\ OnlyIn(db) /\ \A k \in Keys : k # <<db, name>> => Keeps(k)
        /\ pending = Idle /\ pending' = pending
    BY DropStore DEF JobInv, SyncInv, Drop
  <1>4. \A e \in Dbs : Keeps(<<e, Autogen>>)
    BY <1>2, <1>3, KeyParts
  <1>5. OnTime' /\ MutatorInv'
    BY <1>1, <1>3, Kinds, OnTimeKept, MutatorKept DEF JobInv, OwingInv
  <1> QED BY <1>1, <1>2, <1>3, <1>4, <1>5, PolicyStep DEF OwingInv

(* The writers' steps.                                                      *)

\* A write's first step, and all those of EnsureTable, leave policies and jobs alone.
LEMMA WriterOwes ==
    ASSUME JobInv, NEW w \in Writers, Alone(w), UNCHANGED <<store, job>>, go'[w].pc \notin InHandler,
           \A t \in hypertables' : cache[<<DbOf[t], Autogen>>] # NoPolicy,
           go'[w].pc \in InWriter \ {"ensure"} => cache[<<go'[w].db, Autogen>>] # NoPolicy
    PROVE  OwingInv'
  <1>1. /\ cache' = cache /\ pending' = pending /\ job' = job
        /\ w \in Goroutines /\ w \notin Syncers /\ w \notin Handlers
    BY Kinds DEF store
  <1>2. OnTime'
    BY <1>1, OnTimeKept DEF JobInv, OwingInv
  <1>3. MutatorInv'
    BY <1>1, Kinds DEF JobInv, OwingInv, MutatorInv, RsUnread, Alone, At
  <1>4. AutogenStays'
    BY <1>1, Kinds DEF JobInv, OwingInv, AutogenStays, Alone
  <1>5. PolicyHeld'
    BY <1>1, PolicyHeldKept DEF JobInv, OwingInv
  <1>6. \A t \in Tables : Stale(t)' = Stale(t)
    BY <1>1, SameChoices DEF Stale
  <1>7. Owing'
    BY <1>1, <1>6, OwingKept DEF JobInv, OwingInv
  <1> QED BY <1>2, <1>3, <1>4, <1>5, <1>7 DEF OwingInv

LEMMA EnsureOwes ==
    ASSUME JobInv, NEW w \in Writers, EnsurePolicies(w)
    PROVE  OwingInv'
  <1> DEFINE db == go[w].db
  <1>1. db \in Dbs /\ RsUnread /\ pending = Idle /\ hypertables' = hypertables /\ job' = job
    BY Kinds DEF JobInv, SyncInv, GoInv, Frames, EnsurePolicies, tsdb
  <1>2. Alone(w) /\ go'[w].pc = "lockTable" /\ go'[w].db = db
    <2>1. Goto(w, "lockTable") /\ go[w].pc \in InWriter /\ "lockTable" \in InWriter
      BY LabelSets DEF EnsurePolicies, At
    <2> QED BY <2>1, WriterGoes DEF JobInv, SyncInv
  <1>3. CASE cache[<<db, Autogen>>] # NoPolicy
    <2>1. UNCHANGED store
      BY <1>3 DEF EnsurePolicies
    <2> QED BY <1>1, <1>2, <1>3, <2>1, LabelSets, WriterOwes DEF JobInv, OwingInv, AutogenStays
  <1>4. CASE cache[<<db, Autogen>>] = NoPolicy
    <2>1. /\ OnlyIn(db) /\ \A k \in Keys : Keeps(k)
          /\ cache'[<<db, Autogen>>] # NoPolicy /\ pending' = pending
      BY <1>1, <1>4, EnsureStore DEF EnsurePolicies, JobInv, SyncInv
    <2>2. w \in Goroutines /\ w \notin Syncers /\ w \notin Handlers
      BY Kinds
    <2>3. OnTime'
      BY <1>2, <2>2, OnTimeKept DEF JobInv, OwingInv
    <2>4. MutatorInv'
      BY <1>1, <1>2, <2>1, <2>2, MutatorKept DEF JobInv, OwingInv
    <2>5. AutogenStays'
      <3>1. \A t \in hypertables : DbOf[t] \in Dbs
        BY DEF JobInv, SyncInv, JobTypes
      <3>2. \A e \in Dbs : Keeps(<<e, Autogen>>)
        BY <2>1, KeyParts
      <3>3. \A v \in Writers \ {w} : go'[v] = go[v] /\ go[v].db \in Dbs
        BY <1>2, Kinds DEF Alone, JobInv, SyncInv, GoInv, Frames
      <3> QED BY <1>1, <1>2, <2>1, <3>1, <3>2, <3>3
             DEF JobInv, OwingInv, AutogenStays, Keeps
    <2>6. PolicyHeld'
      BY <1>1, <1>2, <2>2, Kinds DEF RsUnread, PolicyHeld, Alone
    <2>7. ASSUME NEW t \in Tables, Stale(t)' PROVE \E h \in Handlers : WillSync(h, t)'
      <3>1. t \in hypertables /\ DbOf[t] # db
        BY <1>1, <1>4, <2>7 DEF Stale, JobInv, SyncInv, OwingInv, AutogenStays, JobTypes
      <3>2. DbOf[t] \in Dbs /\ Choices(DbOf[t])' = Choices(DbOf[t])
        BY <2>1, <3>1, ChoicesKept
      <3>3. Stale(t)
        BY <1>1, <2>7, <3>2 DEF Stale
      <3>4. PICK h \in Handlers : WillSync(h, t)
        BY <3>3 DEF JobInv, OwingInv, Owing
      <3>5. go'[h] = go[h]
        BY <1>2, <2>2, Kinds DEF Alone
      <3>6. At(h, "setDefault") => Keeps(<<DbOf[t], go[h].value>>)
        <4>1. At(h, "setDefault") => go[h].value \in Names
          BY Kinds DEF JobInv, SyncInv, GoInv, Fits, At
        <4> QED BY <2>1, <3>2, <4>1, KeyParts
      <3>7. WillSync(h, t)'
        BY <3>4, <3>5, <3>6 DEF WillSync, At, Keeps
      <3> QED BY <3>7
    <2> QED BY <2>3, <2>4, <2>5, <2>6, <2>7 DEF OwingInv, Owing
  <1> QED BY <1>3, <1>4

LEMMA WriteStepOwes ==
    ASSUME JobInv, NEW w \in Writers, WriteStep(w)
    PROVE  OwingInv'
  <1>1. CASE EnsurePolicies(w)
    BY <1>1, EnsureOwes
  <1>2. CASE ~EnsurePolicies(w)
    <2>1. /\ Alone(w) /\ go[w].pc \in InWriter
          /\ \/ go'[w].pc = "idle"
             \/ go'[w].pc \in InWriter /\ go'[w].at = go[w].at /\ go'[w].db = go[w].db
      BY WriteStepMoves DEF JobInv, SyncInv
    <2>2. UNCHANGED <<store, job>> /\ go[w].pc # "ensure"
      BY <1>2, LabelSets DEF WriteStep, CreateHypertable, ReadInterval, NewChunk, DropCompression,
                             NewCompression, tsdb, At
    <2>3. hypertables' = hypertables \/ hypertables' = hypertables \cup {go[w].at}
      BY <1>2 DEF WriteStep, CreateHypertable, ReadInterval, NewChunk, DropCompression,
                  NewCompression, tsdb
    <2>4. DbOf[go[w].at] = go[w].db
      BY <2>1, Kinds DEF JobInv, SyncInv, GoInv, Fits, TablesOf
    <2>5. cache[<<go[w].db, Autogen>>] # NoPolicy
      BY <2>1, <2>2 DEF JobInv, OwingInv, AutogenStays
    <2>6. \A t \in hypertables' : cache[<<DbOf[t], Autogen>>] # NoPolicy
      BY <2>3, <2>4, <2>5 DEF JobInv, OwingInv, AutogenStays
    <2>7. go'[w].pc \notin InHandler
      BY <2>1, LabelSets
    <2> QED BY <2>1, <2>2, <2>5, <2>6, <2>7, LabelSets, WriterOwes
  <1> QED BY <1>1, <1>2

LEMMA WriteOwes ==
    ASSUME JobInv, NEW w \in Writers, NEW t \in Tables, Write(w, t)
    PROVE  OwingInv'
  <1>1. Alone(w) /\ go'[w].pc = "ensure"
    BY WriteMoves DEF JobInv, SyncInv
  <1>2. UNCHANGED <<store, job>> /\ hypertables' = hypertables
    BY DEF Write, tsdb
  <1> QED BY <1>1, <1>2, LabelSets, WriterOwes DEF JobInv, OwingInv, AutogenStays

(* The syncs' steps.                                                        *)

\* A step of a sync that leaves the policies alone.
LEMMA SyncerOwes ==
    ASSUME JobInv, NEW g \in Syncers, Alone(g), UNCHANGED <<store, hypertables>>,
           Punctual(go'[g]), go'[g].pc \in {"idle"} \cup InSyncer,
           go'[g].pc \in Syncing => /\ pending = Idle
                                    /\ go'[g].policy \in Choices(go'[g].db),
           \A t \in Tables : Stale(t)'
              => Stale(t) /\ (g \in Handlers /\ WillSync(g, t) => WillSync(g, t)')
    PROVE  OwingInv'
  <1>1. cache' = cache /\ pending' = pending /\ g \in Goroutines \ Writers
    BY Kinds DEF store
  <1>2. OnTime' /\ MutatorInv'
    BY <1>1, LabelSets, OnTimeKept, MutatorKept DEF JobInv, OwingInv
  <1>3. AutogenStays' /\ PolicyHeld'
    BY <1>1, AutogenKept, PolicyHeldKept DEF JobInv, OwingInv, Keeps
  <1>4. Owing'
    BY <1>1, OwingKept DEF JobInv, OwingInv
  <1> QED BY <1>2, <1>3, <1>4 DEF OwingInv

\* Nothing fails.
LEMMA Answers ==
    ASSUME JobInv, SyncFaults = {}, NEW g \in Syncers
    PROVE  Punctual(go[g]) /\ Results(g) = {"ok"}
  BY DEF JobInv, OwingInv, OnTime, Results, Over, Punctual

\* While a sync works no mutator is half way, and its policy is one of its database's.
LEMMA Working ==
    ASSUME JobInv, NEW g \in Syncers, go[g].pc \in Syncing
    PROVE  pending = Idle /\ go[g].policy \in Choices(go[g].db)
  BY DEF JobInv, OwingInv, MutatorInv, PolicyHeld, RsUnread

LEMMA LockSyncOwes ==
    ASSUME JobInv, SyncFaults = {}, NEW g \in Syncers, NEW db \in Dbs, LockSync(g, db)
    PROVE  OwingInv'
  <1>1. /\ Alone(g) /\ Punctual(go'[g]) /\ go[g].pc = "sync" /\ pending = Idle
        /\ go'[g].dbs = go[g].dbs \ {db}
        /\ go'[g].pc \in {"idle", "sync", "remove"}
        /\ go'[g].pc = "remove" => go'[g].db = db /\ go'[g].policy \in Choices(db)
        /\ Listed(db) # {} => go'[g].pc = "remove" /\ go'[g].todo = Listed(db)
    BY Answers, LockSyncMoves DEF JobInv, SyncInv
  <1>2. UNCHANGED <<store, hypertables>> /\ job' = job /\ cache' = cache
    BY DEF LockSync, tsdb, store
  <1>3. ASSUME NEW t \in Tables, Stale(t)' PROVE Stale(t) /\ (WillSync(g, t) => WillSync(g, t)')
    <2>1. Stale(t) /\ t \in hypertables
      BY <1>2, <1>3, SameChoices DEF Stale, JobInv, SyncInv, JobTypes
    <2>2. ASSUME WillSync(g, t), DbOf[t] # db PROVE WillSync(g, t)'
      BY <1>1, <2>2, LabelSets DEF WillSync, At
    <2>3. ASSUME DbOf[t] = db PROVE WillSync(g, t)'
      <3>1. t \in Listed(db)
        BY <2>1, <2>3 DEF Listed, TablesOf
      <3> QED BY <1>1, <2>3, <3>1, LabelSets DEF WillSync
    <2> QED BY <2>1, <2>2, <2>3
  <1>4. go'[g].pc \in {"idle"} \cup InSyncer
    BY <1>1, LabelSets
  <1>5. go'[g].pc \in Syncing => go'[g].policy \in Choices(go'[g].db)
    BY <1>1, LabelSets
  <1> QED BY <1>1, <1>2, <1>3, <1>4, <1>5, SyncerOwes

LEMMA RemoveJobOwes ==
    ASSUME JobInv, SyncFaults = {}, NEW g \in Syncers, NEW u \in Tables, RemoveJob(g, u)
    PROVE  OwingInv'
  <1>1. /\ Alone(g) /\ Punctual(go'[g]) /\ go[g].pc = "remove"
        /\ go'[g].pc \in {"add", "setChunk"}
        /\ go'[g].policy = go[g].policy /\ go'[g].db = go[g].db /\ go'[g].dbs = go[g].dbs
        /\ go'[g].todo = go[g].todo \ {u} /\ job' = JobRemoved(u)
    BY Answers, RemoveJobMoves DEF JobInv, SyncInv
  <1>2. UNCHANGED <<store, hypertables>> /\ cache' = cache
    BY DEF RemoveJob, store
  <1>3. ASSUME NEW t \in Tables, Stale(t)' PROVE Stale(t) /\ (WillSync(g, t) => WillSync(g, t)')
    <2>1. t # u /\ job'[t] = job[t]
      BY <1>1, <1>3 DEF JobRemoved, Stale, JobInv, SyncInv, JobTypes
    <2>2. Stale(t)
      BY <1>2, <1>3, <2>1, SameChoices DEF Stale
    <2>3. WillSync(g, t) => WillSync(g, t)'
      BY <1>1, <2>1, LabelSets DEF WillSync, At
    <2> QED BY <2>2, <2>3
  <1>4. go[g].pc \in Syncing /\ go'[g].pc \in {"idle"} \cup InSyncer
    BY <1>1, LabelSets
  <1> QED BY <1>1, <1>2, <1>3, <1>4, Working, SyncerOwes

\* The job that is added is by a policy of the database.
LEMMA AddJobOwes ==
    ASSUME JobInv, SyncFaults = {}, NEW g \in Syncers, AddJob(g)
    PROVE  OwingInv'
  <1> DEFINE u == go[g].at
  <1>1. /\ Alone(g) /\ Punctual(go'[g]) /\ go[g].pc = "add" /\ go'[g].dbs = go[g].dbs
        /\ go'[g].pc \in {"idle", "sync", "remove", "setChunk"}
        /\ go'[g].pc \in Syncing => /\ go'[g].policy = go[g].policy /\ go'[g].db = go[g].db
                                    /\ go'[g].todo = go[g].todo
        /\ go[g].todo # {} => go'[g].pc \in Syncing
    BY Answers, AddJobMoves DEF JobInv, SyncInv
  <1>2. UNCHANGED <<store, hypertables>> /\ cache' = cache
    BY DEF AddJob, store
  <1>3. go[g].pc \in Syncing /\ go'[g].pc \in {"idle"} \cup InSyncer
    BY <1>1, LabelSets
  <1>4. pending = Idle /\ go[g].policy \in Choices(go[g].db)
    BY <1>3, Working
  <1>5. DbOf[u] = go[g].db /\ Expires(go[g].policy) /\ u \in Tables
    BY <1>1, Kinds, LabelSets DEF JobInv, SyncInv, GoInv, Fits, TablesOf
  <1>6. \/ job' = job
        \/ \E every \in Schedules :
              job' = [job EXCEPT ![u] = [dropAfter |-> DropAfter(go[g].policy), every |-> every]]
    BY AddedJob DEF JobAdded
  <1> HIDE DEF u
  <1>7. ASSUME NEW t \in Tables, Stale(t)' PROVE Stale(t) /\ (WillSync(g, t) => WillSync(g, t)')
    <2>1. job'[t] = job[t]
      <3>1. CASE job' = job
        BY <3>1
      <3>2. ASSUME NEW every \in Schedules,
                   job' = [job EXCEPT ![u] = [dropAfter |-> DropAfter(go[g].policy), every |-> every]]
            PROVE  job'[t] = job[t]
        <4>1. CASE t # u
          BY <3>2, <4>1 DEF JobInv, SyncInv, JobTypes
        <4>2. CASE t = u
          <5>1. job'[t].dropAfter = DropAfter(go[g].policy)
            BY <3>2, <4>2 DEF JobInv, SyncInv, JobTypes
          <5>2. go[g].policy \in Choices(DbOf[t])'
            BY <1>2, <1>4, <1>5, <4>2, SameChoices
          <5> QED BY <1>5, <1>7, <5>1, <5>2 DEF Stale
        <4> QED BY <4>1, <4>2
      <3> QED BY <1>6, <3>1, <3>2
    <2>2. Stale(t)
      BY <1>2, <1>7, <2>1, SameChoices DEF Stale
    <2>3. WillSync(g, t) => WillSync(g, t)'
      BY <1>1, LabelSets DEF WillSync, At
    <2> QED BY <2>2, <2>3
  <1> QED BY <1>1, <1>2, <1>3, <1>4, <1>7, SyncerOwes

\* The rest of a table's turn leaves the jobs alone.
LEMMA TurnOwes ==
    ASSUME JobInv, SyncFaults = {}, NEW g \in Syncers,
           SetChunk(g) \/ ReadTags(g) \/ Uncompress(g) \/ Compress(g)
    PROVE  OwingInv'
  <1>1. Punctual(go[g]) /\ Results(g) = {"ok"}
    BY Answers
  <1>2. UNCHANGED <<store, hypertables>> /\ cache' = cache /\ job' = job
    BY DEF SetChunk, ReadTags, Uncompress, Compress, store, tsdb
  <1>3. /\ Alone(g) /\ Punctual(go'[g])
        /\ go[g].pc \in Syncing /\ go'[g].dbs = go[g].dbs
        /\ go'[g].pc \in {"idle", "sync"} \cup Syncing
        /\ go'[g].pc \in Syncing => /\ go'[g].policy = go[g].policy /\ go'[g].db = go[g].db
                                    /\ go'[g].todo = go[g].todo
        /\ go[g].todo # {} => go'[g].pc \in Syncing
    BY <1>1, LabelSets, SetChunkMoves, ReadTagsMoves, UncompressMoves, CompressMoves
       DEF JobInv, SyncInv, SameTurn
  <1>4. pending = Idle /\ go[g].policy \in Choices(go[g].db)
    BY <1>3, Working
  <1>5. ASSUME NEW t \in Tables, Stale(t)' PROVE Stale(t) /\ (WillSync(g, t) => WillSync(g, t)')
    <2>1. Stale(t)
      BY <1>2, <1>5, SameChoices DEF Stale
    <2>2. WillSync(g, t) => WillSync(g, t)'
      BY <1>3, LabelSets DEF WillSync, At
    <2> QED BY <2>1, <2>2
  <1>6. go'[g].pc \in {"idle"} \cup InSyncer
    BY <1>3, LabelSets
  <1> QED BY <1>2, <1>3, <1>4, <1>5, <1>6, SyncerOwes

LEMMA TickOwes ==
    ASSUME JobInv, Tick
    PROVE  OwingInv'
  <1>1. Alone(Loop) /\ Punctual(go'[Loop]) /\ go'[Loop].pc \in {"idle", "sync"}
    BY TickMoves DEF JobInv, SyncInv
  <1>2. UNCHANGED <<store, hypertables>> /\ cache' = cache /\ job' = job
    BY DEF Tick, store, tsdb
  <1>3. \A t \in Tables : Stale(t)' = Stale(t)
    BY <1>2, SameChoices DEF Stale
  <1> QED BY <1>1, <1>2, <1>3, Kinds, LabelSets, SyncerOwes

-----------------------------------------------------------------------------
LEMMA JobInvStart == SyncInit => JobInv
  <1> SUFFICES ASSUME SyncInit PROVE JobInv
    OBVIOUS
  <1>1. SyncInv
    BY SyncInvStart
  <1>2. \A g \in Goroutines : go[g].pc = "idle" /\ Punctual(go[g])
    BY RestingFits DEF SyncInit
  <1>3. /\ \A g \in Handlers : go[g].pc = "idle"
        /\ \A g \in Writers : go[g].pc = "idle"
        /\ \A g \in Syncers : go[g].pc = "idle" /\ Punctual(go[g])
    BY <1>2, Kinds
  <1>4. OnTime
    BY <1>3 DEF OnTime, At
  <1>5. pending = Idle /\ hypertables = {} /\ \A t \in Tables : job[t] = NoJob
    BY DEF SyncInit
  <1>6. MutatorInv /\ AutogenStays /\ PolicyHeld
    BY <1>3, <1>5, LabelSets DEF MutatorInv, AutogenStays, PolicyHeld, At
  <1>7. Owing
    BY <1>5 DEF Owing, Stale
  <1> QED BY <1>1, <1>4, <1>6, <1>7 DEF JobInv, OwingInv

LEMMA JobInvStep ==
    ASSUME SyncFaults = {}, Ops \cap {"dropDb", "dropAutogen"} = {}
    PROVE  JobInv /\ [SyncNext]_syncVars => JobInv'
  <1> SUFFICES ASSUME JobInv, [SyncNext]_syncVars PROVE OwingInv'
    BY SyncInvStep DEF JobInv
  <1>1. ASSUME NEW g \in Handlers, Request(g) PROVE OwingInv'
    <2>1. ASSUME NEW db \in Dbs, DropDatabase(g, db) PROVE FALSE
      BY <2>1 DEF DropDatabase, Arrives
    <2>2. ASSUME NEW db \in Dbs, NEW name \in Names, Arrives(g, "setDefault"), MakeDefault(g, db, name)
          PROVE  OwingInv'
      <3>1. go[g].dbs = {}
        BY <2>2, Kinds DEF Arrives, At, JobInv, SyncInv, GoInv, Fits
      <3> QED BY <2>2, <3>1, MakeDefaultOwes
    <2> QED BY <1>1, <2>1, <2>2, CreateOwes, AlterOwes, DropOwes DEF Request
  <1>2. ASSUME NEW g \in Handlers, HandlerStep(g) PROVE OwingInv'
    <2>1. ASSUME NEW db \in go[g].dbs, At(g, "setDefault"), MakeDefault(g, db, go[g].value)
          PROVE  OwingInv'
      <3>1. db \in Dbs /\ go[g].value \in Names /\ go[g].dbs \subseteq {db}
        BY <2>1, Kinds DEF At, JobInv, SyncInv, GoInv, Fits
      <3> QED BY <2>1, <3>1, MakeDefaultOwes
    <2>2. ~DropPolicies(g)
      BY DEF DropPolicies, JobInv, OwingInv, OnTime
    <2> QED BY <1>2, <2>1, <2>2, MakeDefaultFailsOwes, FinishMutatorOwes DEF HandlerStep
  <1>3. ASSUME NEW w \in Writers, (\E t \in Tables : Write(w, t)) \/ WriteStep(w) PROVE OwingInv'
    BY <1>3, WriteOwes, WriteStepOwes
  <1>4. ASSUME NEW g \in Syncers, SyncStep(g) PROVE OwingInv'
    BY <1>4, LockSyncOwes, RemoveJobOwes, AddJobOwes, TurnOwes DEF SyncStep
  <1>5. CASE Tick
    BY <1>5, TickOwes
  <1>6. ~Restart
    BY DEF Restart
  <1>7. CASE UNCHANGED syncVars
    BY <1>7, SameChoices DEF syncVars, store, tsdb, JobInv, OwingInv, OnTime, MutatorInv,
         AutogenStays, PolicyHeld, Owing, Stale, WillSync, RsUnread, At
  <1> QED BY <1>1, <1>2, <1>3, <1>4, <1>5, <1>6, <1>7 DEF SyncNext

\* While no statement of a sync times out or fails, the process is not restarted and neither
\* a database nor an autogen policy is dropped, then however CREATE, ALTER and DROP RETENTION
\* POLICY, the writes and the loop interleave: once the handlers have synchronised a database
\* none of its tables has a job by a policy that was altered, dropped or replaced.
THEOREM JobsFollowPolicies ==
    ASSUME SyncFaults = {}, Ops \cap {"dropDb", "dropAutogen"} = {}
    PROVE  SyncSpec => []NoStaleJob
  <1>1. JobInv => NoStaleJob
    <2> SUFFICES ASSUME JobInv, NEW t \in hypertables, job[t] # NoJob, ~Owed(DbOf[t]), Stale(t)
                 PROVE  FALSE
      BY DEF NoStaleJob, Stale
    <2>1. t \in Tables
      BY DEF JobInv, SyncInv, JobTypes
    <2>2. PICK g \in Handlers : WillSync(g, t)
      BY <2>1 DEF JobInv, OwingInv, Owing
    <2> QED BY <2>2 DEF WillSync, Owed
  <1> QED BY <1>1, JobInvStart, JobInvStep, PTL DEF SyncSpec

=============================================================================
