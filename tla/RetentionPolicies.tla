--------------------------- MODULE RetentionPolicies ---------------------------
(***************************************************************************)
(* The retention-policy store of adapter/retention.go: the table           *)
(* _retention_policy in Postgres (rows) and the map rs.policies in the     *)
(* proxy's memory (cache).  Every mutator holds rs.mu from its first line  *)
(* to its return, so at most one is under way; the two that issue two      *)
(* writing statements (CreatePolicy ... DEFAULT, SetDefault) are split     *)
(* between them, because a statement may fail there and the process may    *)
(* die there.                                                              *)
(*                                                                         *)
(* A duration is the integer parseDuration returns (0 is INF).  The tokens *)
(* Invalid and Omitted stand for a clause that does not parse and for one  *)
(* the statement leaves out.                                               *)
(***************************************************************************)
EXTENDS Integers, FiniteSets

CONSTANTS
    Dbs,            \* database names
    Names,          \* policy names
    Autogen,        \* the name of the policy every database is given
    NoPolicy,       \* the value of a key no policy is stored under
    Durations,      \* the values parseDuration can return for a DURATION clause
    Shards,         \* ... and for a SHARD DURATION clause
    MinRetention,   \* fifteen minutes, in the unit of Durations
    Invalid,        \* a clause parseDuration rejects
    Omitted,        \* a clause left out of the statement
    ClauseErrors,   \* the erroneous SHARD DURATION clauses: {} or {Invalid}
    Faults          \* what can go wrong: a subset of FaultKinds

FaultKinds == {"fails",       \* a writing statement fails and changes nothing
               "lostReply",   \* it commits, but the proxy is told it failed
               "countFails",  \* the SELECT COUNT of EnsureDatabasePolicies fails
               "reloadFails", \* the SELECT that reloads is_default fails
               "crash"}       \* the process dies and is started again

ASSUME NameAssumption == Autogen \in Names
ASSUME DurationAssumption ==
    /\ Durations \subseteq Int /\ Shards \subseteq Int
    /\ MinRetention \in Int
ASSUME TokenAssumption ==
    /\ Invalid \notin Int /\ Omitted \notin Int /\ Invalid # Omitted
    /\ ClauseErrors \subseteq {Invalid}
ASSUME FaultAssumption == Faults \subseteq FaultKinds

VARIABLES
    rows,      \* the table _retention_policy
    cache,     \* rs.policies
    pending    \* the second half of the mutator that holds rs.mu, or Idle

vars == <<rows, cache, pending>>

Policy == [dur : Int, shard : Int, dflt : BOOLEAN]
Registration == [dur : Int, shard : Int]   \* what a registry keeps of it
ASSUME NoPolicyAssumption == NoPolicy \notin Policy /\ NoPolicy \notin Registration

Keys == Dbs \X Names
Table == [Keys -> Policy \cup {NoPolicy}]

Idle == [op |-> "idle"]
Upserts == [op : {"upsert"}, key : Keys, policy : Policy]
SetDefaults == [op : {"setDefault"}, key : Keys]

-----------------------------------------------------------------------------
(* What the statements and the loops over rs.policies do to a table.        *)

(* Each Mutant_ operator is a plausible bug in the definition that follows   *)
(* it, and is used by no behaviour of the specification.                    *)

\* The UPDATE without its db_name condition.
Mutant_ClearEverywhere(t, db) ==
    [k \in Keys |-> IF t[k] # NoPolicy THEN [t[k] EXCEPT !.dflt = FALSE] ELSE t[k]]

\* The UPDATE with the policy's name where the database's belongs: no row matches.
Mutant_ClearNothing(t, db) == t

\* UPDATE ... SET is_default = FALSE WHERE db_name = $1 AND is_default = TRUE
ClearDefaults(t, db) ==
    [k \in Keys |-> IF k[1] = db /\ t[k] # NoPolicy
                    THEN [t[k] EXCEPT !.dflt = FALSE] ELSE t[k]]

\* UPDATE ... SET is_default = TRUE WHERE db_name = $1 AND name = $2
MarkDefault(t, key) ==
    [k \in Keys |-> IF k = key /\ t[k] # NoPolicy
                    THEN [t[k] EXCEPT !.dflt = TRUE] ELSE t[k]]

\* INSERT ... ON CONFLICT (db_name, name) DO UPDATE
Upsert(t, key, policy) == [t EXCEPT ![key] = policy]

\* INSERT ... ON CONFLICT (db_name, name) DO NOTHING
InsertIfAbsent(t, key, policy) ==
    [t EXCEPT ![key] = IF @ = NoPolicy THEN policy ELSE @]

DeleteDb(t, db) == [k \in Keys |-> IF k[1] = db THEN NoPolicy ELSE t[k]]

\* The last loop of CreatePolicy: the cached flags of a database are set to
\* the stored ones.
ReloadDefaults(c, t, db) ==
    [k \in Keys |-> IF k[1] = db /\ c[k] # NoPolicy /\ t[k] # NoPolicy
                    THEN [c[k] EXCEPT !.dflt = t[k].dflt] ELSE c[k]]

DefaultsOf(t, db) == {k \in Keys : k[1] = db /\ t[k] # NoPolicy /\ t[k].dflt}

\* The check both CreatePolicy and AlterPolicy make of a parsed duration.
LongEnough(d) == ~(d > 0 /\ d < MinRetention)

\* Every autogen policy is a default one, whatever the COUNT says.
Mutant_AlwaysDefault(dflt) == [dur |-> 0, shard |-> 0, dflt |-> TRUE]

\* The policy EnsureDatabasePolicies inserts: INF, automatic shards.
AutogenPolicy(dflt) == [dur |-> 0, shard |-> 0, dflt |-> dflt]

OrKeep(clause, old) == IF clause = Omitted THEN old ELSE clause
\* The shard duration left unset when the clause is omitted.
Mutant_ShardUnset(clause) == clause

ShardOf(clause) == IF clause = Omitted THEN 0 ELSE clause

-----------------------------------------------------------------------------
Init == /\ rows = [k \in Keys |-> NoPolicy]
        /\ cache = rows
        /\ pending = Idle

(* A statement's outcome: it is executed and acknowledged, it fails, or it  *)
(* is executed and the acknowledgement is lost.                             *)
Executed(outcome) == outcome \in {"ok", "lostReply"}
Outcomes == {"ok"} \cup (Faults \cap {"fails", "lostReply"})

\* CreatePolicy clears the stored defaults and forgets the cached ones.
Mutant_ClearsRowsOnly(db, name, d, s, dflt) ==
    /\ pending = Idle
    /\ LongEnough(d)
    /\ rows' = IF dflt THEN ClearDefaults(rows, db) ELSE rows
    /\ pending' = [op |-> "upsert", key |-> <<db, name>>,
                   policy |-> [dur |-> d, shard |-> ShardOf(s), dflt |-> dflt]]
    /\ UNCHANGED cache

\* CreatePolicy up to its UPDATE.  Without DEFAULT there is no UPDATE and the
\* upsert follows directly.
CreatePolicy(db, name, d, s, dflt) ==
    /\ pending = Idle
    /\ LongEnough(d)
    /\ \E outcome \in IF dflt THEN Outcomes ELSE {"ok"} :
          /\ rows' = IF dflt /\ Executed(outcome) THEN ClearDefaults(rows, db) ELSE rows
          /\ IF outcome = "ok"
             THEN /\ cache' = IF dflt THEN ClearDefaults(cache, db) ELSE cache
                  /\ pending' = [op |-> "upsert", key |-> <<db, name>>,
                                 policy |-> [dur |-> d, shard |-> ShardOf(s), dflt |-> dflt]]
             ELSE UNCHANGED <<cache, pending>>

\* CreatePolicy from its upsert to its return.
CreatePolicyUpsert ==
    /\ pending.op = "upsert"
    /\ pending' = Idle
    /\ LET key == pending.key IN
       \E outcome \in Outcomes :
          /\ rows' = IF Executed(outcome) THEN Upsert(rows, key, pending.policy) ELSE rows
          /\ IF outcome # "ok" THEN cache' = cache
             ELSE LET stored == Upsert(cache, key, pending.policy) IN
                  \/ cache' = ReloadDefaults(stored, rows', key[1])
                  \/ /\ "reloadFails" \in Faults
                     /\ cache' = stored

\* AlterPolicy.  The cached entry is changed clause by clause before the
\* statement is sent, and stays changed when a later clause does not parse or
\* the statement fails.
AlterPolicy(db, name, d, s) ==
    LET key == <<db, name>>
        Altered(p) == [p EXCEPT !.dur = OrKeep(d, @), !.shard = OrKeep(s, @)]
    IN
    /\ pending = Idle
    /\ cache[key] # NoPolicy
    /\ d # Omitted \/ s # Omitted
    /\ d # Omitted => LongEnough(d)
    /\ UNCHANGED pending
    /\ IF s \in ClauseErrors
       THEN /\ cache' = [cache EXCEPT ![key].dur = OrKeep(d, @)]
            /\ rows' = rows
       ELSE /\ cache' = [cache EXCEPT ![key] = Altered(@)]
            /\ \E outcome \in Outcomes :
                  rows' = IF Executed(outcome) /\ rows[key] # NoPolicy
                          THEN [rows EXCEPT ![key] = [@ EXCEPT !.dur = cache'[key].dur,
                                                              !.shard = cache'[key].shard]]
                          ELSE rows

\* SetDefault up to its first UPDATE.  The cache is not touched yet.
SetDefault(db, name) ==
    /\ pending = Idle
    /\ cache[<<db, name>>] # NoPolicy
    /\ \E outcome \in Outcomes :
          /\ rows' = IF Executed(outcome) THEN ClearDefaults(rows, db) ELSE rows
          /\ pending' = IF outcome = "ok"
                        THEN [op |-> "setDefault", key |-> <<db, name>>] ELSE Idle
    /\ UNCHANGED cache

\* SetDefault marks the new default in the cache and leaves the old one marked.
Mutant_KeepsOldMark ==
    /\ pending.op = "setDefault"
    /\ pending' = Idle
    /\ rows' = MarkDefault(rows, pending.key)
    /\ cache' = MarkDefault(cache, pending.key)

\* SetDefault from its second UPDATE to its return.
SetDefaultMark ==
    /\ pending.op = "setDefault"
    /\ pending' = Idle
    /\ LET key == pending.key IN
       \E outcome \in Outcomes :
          /\ rows' = IF Executed(outcome) THEN MarkDefault(rows, key) ELSE rows
          /\ cache' = IF outcome = "ok"
                      THEN MarkDefault(ClearDefaults(cache, key[1]), key) ELSE cache

\* DropPolicy deletes the row and forgets to delete the cached entry.
Mutant_DropsRowOnly(db, name) ==
    /\ pending = Idle
    /\ cache[<<db, name>>] # NoPolicy
    /\ ~cache[<<db, name>>].dflt
    /\ rows' = [rows EXCEPT ![<<db, name>>] = NoPolicy]
    /\ UNCHANGED <<cache, pending>>

\* DropPolicy: refused for an unknown policy and for the cached default.
DropPolicy(db, name) ==
    LET key == <<db, name>> IN
    /\ pending = Idle
    /\ cache[key] # NoPolicy
    /\ ~cache[key].dflt
    /\ UNCHANGED pending
    /\ \E outcome \in Outcomes :
          /\ rows' = IF Executed(outcome) THEN [rows EXCEPT ![key] = NoPolicy] ELSE rows
          /\ cache' = IF outcome = "ok" THEN [cache EXCEPT ![key] = NoPolicy] ELSE cache

\* DropDatabasePolicies: the DELETE's error is ignored.
DropDatabasePolicies(db) ==
    /\ pending = Idle
    /\ \E outcome \in Outcomes :
          rows' = IF Executed(outcome) THEN DeleteDb(rows, db) ELSE rows
    /\ cache' = DeleteDb(cache, db)
    /\ UNCHANGED pending

\* EnsureDatabasePolicies, when the cache has no autogen for the database.
\* A COUNT that fails leaves defaultCount at zero.
EnsureDatabasePolicies(db) ==
    LET key == <<db, Autogen>> IN
    /\ pending = Idle
    /\ cache[key] = NoPolicy
    /\ UNCHANGED pending
    /\ \E countOk \in {TRUE, "countFails" \notin Faults}, outcome \in Outcomes :
          LET autogen == AutogenPolicy(countOk => DefaultsOf(rows, db) = {}) IN
          /\ rows' = IF Executed(outcome) THEN InsertIfAbsent(rows, key, autogen) ELSE rows
          /\ cache' = IF outcome = "ok" THEN Upsert(cache, key, autogen) ELSE cache

\* The process dies, at any point, and the next one loads the table.
CrashRestart ==
    /\ "crash" \in Faults
    /\ cache' = rows
    /\ pending' = Idle
    /\ UNCHANGED rows

Next ==
    \/ \E db \in Dbs, name \in Names :
          \/ \E d \in Durations, s \in Shards \cup {Omitted}, dflt \in BOOLEAN :
                CreatePolicy(db, name, d, s, dflt)
          \/ \E d \in Durations \cup {Omitted},
                s \in Shards \cup {Omitted} \cup ClauseErrors :
                AlterPolicy(db, name, d, s)
          \/ SetDefault(db, name)
          \/ DropPolicy(db, name)
    \/ CreatePolicyUpsert
    \/ SetDefaultMark
    \/ \E db \in Dbs : DropDatabasePolicies(db) \/ EnsureDatabasePolicies(db)
    \/ CrashRestart

Spec == Init /\ [][Next]_vars

-----------------------------------------------------------------------------
(* Properties.                                                              *)

\* The table and the cache hold policies, and pending is the rest of a
\* mutator the code has.
TypeOK == /\ rows \in Table
          /\ cache \in Table
          /\ pending \in {Idle} \cup Upserts \cup SetDefaults

\* A database has at most one stored default policy, however CREATE, ALTER and
\* auto-creation of autogen are ordered and whichever statement fails, loses
\* its reply or is cut short by a crash (but see countFails).  SyncToTimescaleDB
\* takes "the" default of a database.
OneDefaultRow ==
    \A db \in Dbs : \A k, l \in DefaultsOf(rows, db) : k = l

\* While a mutator that is about to store a default policy is between its two
\* statements, the table holds no default for that database: the reason why
\* OneDefaultRow survives the second statement.
ClearedBeforeGranted ==
    /\ pending.op = "upsert" /\ pending.policy.dflt => DefaultsOf(rows, pending.key[1]) = {}
    /\ pending.op = "setDefault" => DefaultsOf(rows, pending.key[1]) = {}

\* Whenever rs.mu is free the cache that every reader uses (SHOW, the sync,
\* the chunk and compression intervals) is the stored table.
CacheMatchesTable == pending = Idle => cache = rows

\* What the cache and the table owe each other in the middle of a mutator.
HalfwayInStep ==
    /\ pending.op = "upsert" => cache = rows
    /\ pending.op = "setDefault" => rows = ClearDefaults(cache, pending.key[1])

\* A policy the proxy shows and applies is one that a restart will find again:
\* no failing statement leaves a cached policy without its row.
CachedIsStored == \A k \in Keys : cache[k] # NoPolicy => rows[k] # NoPolicy

\* No step changes the policies of two databases ("policies with the same name
\* ... are independent and do not conflict").
SameIn(db) == \A k \in Keys : k[1] = db => rows'[k] = rows[k] /\ cache'[k] = cache[k]
PerDatabaseIsolation ==
    [][\A d, e \in Dbs : d # e => SameIn(d) \/ SameIn(e)]_vars

-----------------------------------------------------------------------------
(* The registry a client and the next process see in the table.             *)

Registered == [k \in Keys |-> IF rows[k] = NoPolicy THEN NoPolicy
                              ELSE [dur |-> rows[k].dur, shard |-> rows[k].shard]]
Defaults == {k \in Keys : rows[k] # NoPolicy /\ rows[k].dflt}

Registry == INSTANCE PolicyRegistry
    WITH registry <- Registered, defaults <- Defaults, Nothing <- NoPolicy,
         Lengths <- Durations \cup Shards \cup {0}, Shortest <- MinRetention

\* While no writing statement and no COUNT fails, the table is the registry InfluxQL speaks of: each
\* mutator, although it is two statements and a loop over the cache, is one of its
\* operations, or it was cut short and the database is without a default.  In particular
\* DROP RETENTION POLICY, which asks the cache, never deletes a stored default, and a database
\* never has two.
ImplementsRegistry == Registry!Spec

=============================================================================
