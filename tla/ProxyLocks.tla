------------------------------ MODULE ProxyLocks ------------------------------
(***************************************************************************)
(* The two mutexes of the proxy, m.mu of MetaStore and rs.mu of            *)
(* RetentionStore, and the order in which each goroutine takes them and    *)
(* reads or writes what they guard.  A goroutine is the sequence of these  *)
(* operations that its handler performs; statements sent to Postgres are   *)
(* left out, because they all return.                                      *)
(*                                                                         *)
(* The mutexes are Go's sync.RWMutex: Lock first excludes other writers    *)
(* and new readers, and then waits for the readers there are; so RLock     *)
(* waits for a writer that waits.                                          *)
(***************************************************************************)
EXTENDS Integers, Sequences, FiniteSets

CONSTANTS
    Goroutines,
    Programs,     \* what clients and the ticker make goroutines do: names of Code
    None          \* no goroutine

Mutexes == {"meta", "rs"}
Data == {"databases",   \* the map m.databases
         "tables",      \* the map m.tables
         "schema",      \* the slices of a cached TableSchema
         "policies"}    \* the map rs.policies and the policies it points to

VARIABLES
    code,      \* the operations a goroutine has still to perform
    writer,    \* the goroutine that holds a mutex for writing or has announced it will
    held,      \* whether it holds it
    readers    \* how many times a goroutine holds a mutex for reading
vars == <<code, writer, held, readers>>

-----------------------------------------------------------------------------
(* The handlers, as sequences of operations.                                *)

Operation(do, on) == <<[do |-> do, on |-> on]>>
Look(data) == Operation("read", data)
Change(data) == Operation("write", data)
RLocked(mutex, body) == Operation("RLock", mutex) \o body \o Operation("RUnlock", mutex)
Locked(mutex, body) == Operation("Lock", mutex) \o body \o Operation("Unlock", mutex)

\* DefaultChunkInterval, DefaultCompressAfter, retentionScheduleInterval and
\* compressionScheduleInterval all search the policies under a read lock of their own.
\* A Mutant_ operator is a plausible bug in the definition that follows it, and is used by
\* no other definition.  Here: a second release, which Go answers with a
\* fatal error; below, a lock that is not taken.
Mutant_UnlocksTwice == RLocked("rs", Look("policies")) \o Operation("RUnlock", "rs")
SearchPolicies == RLocked("rs", Look("policies"))
applyCompression == SearchPolicies \o SearchPolicies

EnsureDatabasePolicies == Locked("rs", Look("policies") \o Change("policies"))
Mutant_NoLock == Look("databases")
DatabaseExists == RLocked("meta", Look("databases"))
AddDatabase == Locked("meta", Change("databases"))

EnsureTable ==
    Locked("meta", Look("tables") \o Change("tables") \o Look("schema") \o Change("schema")
                   \o SearchPolicies \o applyCompression)

\* The schema's slices are read after RUnlock.
InsertBatch == RLocked("meta", Look("tables")) \o Look("schema")

\* One hypertable of SyncToTimescaleDB whose statements succeed, and the whole of it: rs.mu
\* is held throughout.
SyncTable == SearchPolicies \o SearchPolicies
             \o RLocked("meta", Look("tables") \o Look("schema")) \o applyCompression
SyncToTimescaleDB == RLocked("rs", Look("policies") \o SyncTable)

\* CreatePolicy, AlterPolicy, SetDefault, DropPolicy and DropDatabasePolicies.  Mutant: they
\* ask whether the database exists when they have locked rs.mu.
Mutant_AsksInside == Locked("rs", DatabaseExists \o Look("policies") \o Change("policies"))
ChangePolicies == Locked("rs", Look("policies") \o Change("policies"))

Code ==
    [write |-> DatabaseExists \o EnsureDatabasePolicies \o EnsureTable \o InsertBatch,
     writeNewDatabase |-> DatabaseExists \o AddDatabase \o EnsureDatabasePolicies
                          \o EnsureTable \o InsertBatch,
     policyStatement |-> ChangePolicies \o SyncToTimescaleDB,
     alterDefault |-> ChangePolicies \o ChangePolicies \o SyncToTimescaleDB,
     createDatabase |-> Locked("meta", Look("databases") \o Change("databases"))
                        \o EnsureDatabasePolicies,
     dropDatabase |-> Locked("meta", Look("databases") \o Change("databases") \o Change("tables"))
                      \o ChangePolicies,
     showDatabases |-> DatabaseExists,
     showPolicies |-> SearchPolicies,
     syncAllDatabases |-> SearchPolicies \o SyncToTimescaleDB]

ASSUME ProgramAssumption == Programs \subseteq DOMAIN Code /\ None \notin Goroutines

-----------------------------------------------------------------------------
Init ==
    /\ code = [g \in Goroutines |-> <<>>]
    /\ writer = [m \in Mutexes |-> None]
    /\ held = [m \in Mutexes |-> FALSE]
    /\ readers = [m \in Mutexes |-> [g \in Goroutines |-> 0]]

Busy(g) == code[g] # <<>>
About(g, do) == Busy(g) /\ Head(code[g]).do = do
On(g) == Head(code[g]).on
Advance(g) == code' = [code EXCEPT ![g] = Tail(@)]

Start(g) ==
    /\ ~Busy(g)
    /\ \E program \in Programs : code' = [code EXCEPT ![g] = Code[program]]
    /\ UNCHANGED <<writer, held, readers>>

RLock(g) ==
    /\ About(g, "RLock") /\ writer[On(g)] = None
    /\ readers' = [readers EXCEPT ![On(g)][g] = @ + 1]
    /\ Advance(g)
    /\ UNCHANGED <<writer, held>>

RUnlock(g) ==
    /\ About(g, "RUnlock")
    /\ readers' = [readers EXCEPT ![On(g)][g] = @ - 1]
    /\ Advance(g)
    /\ UNCHANGED <<writer, held>>

\* Lock excludes the other writers, and keeps new readers out ...
Announce(g) ==
    /\ About(g, "Lock") /\ writer[On(g)] = None
    /\ writer' = [writer EXCEPT ![On(g)] = g]
    /\ UNCHANGED <<code, held, readers>>

ReadersOf(m) == {g \in Goroutines : readers[m][g] > 0}

\* ... and returns when the readers are gone.
Lock(g) ==
    /\ About(g, "Lock") /\ writer[On(g)] = g /\ ReadersOf(On(g)) = {}
    /\ held' = [held EXCEPT ![On(g)] = TRUE]
    /\ Advance(g)
    /\ UNCHANGED <<writer, readers>>

Unlock(g) ==
    /\ About(g, "Unlock")
    /\ writer' = [writer EXCEPT ![On(g)] = None]
    /\ held' = [held EXCEPT ![On(g)] = FALSE]
    /\ Advance(g)
    /\ UNCHANGED readers

Access(g) ==
    /\ About(g, "read") \/ About(g, "write")
    /\ Advance(g)
    /\ UNCHANGED <<writer, held, readers>>

Run(g) == Start(g) \/ RLock(g) \/ RUnlock(g) \/ Announce(g) \/ Lock(g) \/ Unlock(g) \/ Access(g)
Next == \E g \in Goroutines : Run(g)
Spec == Init /\ [][Next]_vars

-----------------------------------------------------------------------------
(* Properties.                                                              *)

TypeOK ==
    /\ code \in [Goroutines -> Seq([do : {"RLock", "RUnlock", "Lock", "Unlock"}, on : Mutexes]
                                   \cup [do : {"read", "write"}, on : Data])]
    /\ writer \in [Mutexes -> Goroutines \cup {None}]
    /\ held \in [Mutexes -> BOOLEAN]
    /\ readers \in [Mutexes -> [Goroutines -> 0 .. 2]]

\* The goroutines that keep g from going on, if it waits for a mutex.
WaitsFor(g) ==
    IF About(g, "RLock") \/ (About(g, "Lock") /\ writer[On(g)] # g)
    THEN {writer[On(g)]} \ {None}
    ELSE IF About(g, "Lock") THEN ReadersOf(On(g)) ELSE {}

\* Goroutines that wait for each other: each waits for one of them.
Circle(gs) == gs # {} /\ \A g \in gs : WaitsFor(g) \cap gs # {}

\* SyncToTimescaleDB, the only code that asks for a lock while it holds rs.mu for reading, is
\* part of every such circle: the order m.mu before rs.mu of all the other handlers, three
\* of them in any interleaving, lets none of them block the rest.
OnlySyncBlocks ==
    \A gs \in SUBSET Goroutines :
        Circle(gs) => \E g \in gs : readers["rs"][g] > 0 /\ About(g, "RLock")

\* No goroutines wait for each other: such a set of them never answers its requests,
\* nor does any goroutine that needs one of their mutexes afterwards.
NoCircularWait == \A gs \in SUBSET Goroutines : ~Circle(gs)

\* Two goroutines about to touch the same data, one of them to change it.
Race(data) ==
    \E g, h \in Goroutines :
       /\ g # h
       /\ About(g, "write") /\ On(g) = data
       /\ (About(h, "read") \/ About(h, "write")) /\ On(h) = data

\* The maps of the two stores are never read while they are written, whichever handlers
\* and syncs run together; for a Go map that would kill the process.
MapsGuarded == \A data \in {"databases", "tables", "policies"} : ~Race(data)

=============================================================================
