----------------------- MODULE RetentionPoliciesProofs -----------------------
(***************************************************************************)
(* Proofs about RetentionPolicies, for any sets of databases, policy names *)
(* and durations.                                                          *)
(***************************************************************************)
EXTENDS RetentionPolicies, TLAPS

USE NameAssumption, DurationAssumption, TokenAssumption, FaultAssumption,
    NoPolicyAssumption

-----------------------------------------------------------------------------
(* What the statements do to a table.                                       *)

\* Clearing the defaults of a database yields a table without a default for
\* it, and with the same defaults for every other database.
LEMMA ClearDefaultsTable ==
    ASSUME NEW t \in Table, NEW db \in Dbs
    PROVE  /\ ClearDefaults(t, db) \in Table
           /\ DefaultsOf(ClearDefaults(t, db), db) = {}
           /\ \A e \in Dbs : e # db => DefaultsOf(ClearDefaults(t, db), e) = DefaultsOf(t, e)
           /\ \A k \in Keys : (ClearDefaults(t, db)[k] = NoPolicy) = (t[k] = NoPolicy)
  <1>1. ASSUME NEW k \in Keys, t[k] # NoPolicy
        PROVE  /\ [t[k] EXCEPT !.dflt = FALSE] \in Policy
               /\ [t[k] EXCEPT !.dflt = FALSE].dflt = FALSE
    BY <1>1 DEF Table, Policy
  <1>2. ClearDefaults(t, db) \in Table
    BY <1>1 DEF ClearDefaults, Table
  <1>3. \A k \in Keys : (ClearDefaults(t, db)[k] = NoPolicy) = (t[k] = NoPolicy)
    BY <1>1 DEF ClearDefaults
  <1>4. DefaultsOf(ClearDefaults(t, db), db) = {}
    BY <1>1 DEF ClearDefaults, DefaultsOf
  <1>5. \A e \in Dbs : e # db => DefaultsOf(ClearDefaults(t, db), e) = DefaultsOf(t, e)
    BY <1>1 DEF ClearDefaults, DefaultsOf
  <1> QED BY <1>2, <1>3, <1>4, <1>5

\* Marking a policy makes it the only new default, in its own database.
LEMMA MarkDefaultTable ==
    ASSUME NEW t \in Table, NEW key \in Keys
    PROVE  /\ MarkDefault(t, key) \in Table
           /\ \A e \in Dbs : DefaultsOf(MarkDefault(t, key), e)
                                \subseteq DefaultsOf(t, e) \cup {k \in {key} : k[1] = e}
           /\ \A k \in Keys : (MarkDefault(t, key)[k] = NoPolicy) = (t[k] = NoPolicy)
  <1>1. ASSUME NEW k \in Keys, t[k] # NoPolicy
        PROVE  [t[k] EXCEPT !.dflt = TRUE] \in Policy
    BY <1>1 DEF Table, Policy
  <1>2. MarkDefault(t, key) \in Table
    BY <1>1 DEF MarkDefault, Table
  <1>3. \A k \in Keys : (MarkDefault(t, key)[k] = NoPolicy) = (t[k] = NoPolicy)
    BY <1>1 DEF MarkDefault
  <1>4. \A e \in Dbs : DefaultsOf(MarkDefault(t, key), e)
                          \subseteq DefaultsOf(t, e) \cup {k \in {key} : k[1] = e}
    BY DEF MarkDefault, DefaultsOf
  <1> QED BY <1>2, <1>3, <1>4

\* An upsert adds at most its own key to the defaults, and only a default one.
LEMMA UpsertTable ==
    ASSUME NEW t \in Table, NEW key \in Keys, NEW p \in Policy
    PROVE  /\ Upsert(t, key, p) \in Table
           /\ \A e \in Dbs : DefaultsOf(Upsert(t, key, p), e)
                   \subseteq DefaultsOf(t, e) \cup {k \in {key} : k[1] = e /\ p.dflt}
           /\ \A k \in Keys : Upsert(t, key, p)[k] = NoPolicy => t[k] = NoPolicy
           /\ Upsert(t, key, p)[key] # NoPolicy
  BY DEF Upsert, Table, DefaultsOf

\* So does the insertion of an absent policy.
LEMMA InsertIfAbsentTable ==
    ASSUME NEW t \in Table, NEW key \in Keys, NEW p \in Policy
    PROVE  /\ InsertIfAbsent(t, key, p) \in Table
           /\ \A e \in Dbs : DefaultsOf(InsertIfAbsent(t, key, p), e)
                   \subseteq DefaultsOf(t, e) \cup {k \in {key} : k[1] = e /\ p.dflt}
           /\ \A k \in Keys : InsertIfAbsent(t, key, p)[k] = NoPolicy => t[k] = NoPolicy
           /\ InsertIfAbsent(t, key, p)[key] # NoPolicy
  BY DEF InsertIfAbsent, Table, DefaultsOf

\* Deleting the policies of a database adds no default.
LEMMA DeleteDbTable ==
    ASSUME NEW t \in Table, NEW db \in Dbs
    PROVE  /\ DeleteDb(t, db) \in Table
           /\ \A e \in Dbs : DefaultsOf(DeleteDb(t, db), e) \subseteq DefaultsOf(t, e)
  BY DEF DeleteDb, Table, DefaultsOf

\* The reload changes flags only, and changes nothing where cache and table agree.
LEMMA ReloadDefaultsTable ==
    ASSUME NEW c \in Table, NEW t \in Table, NEW db \in Dbs
    PROVE  /\ ReloadDefaults(c, t, db) \in Table
           /\ \A k \in Keys : (ReloadDefaults(c, t, db)[k] = NoPolicy) = (c[k] = NoPolicy)
           /\ c = t => ReloadDefaults(c, t, db) = t
  <1>1. ASSUME NEW k \in Keys, c[k] # NoPolicy, t[k] # NoPolicy
        PROVE  /\ [c[k] EXCEPT !.dflt = t[k].dflt] \in Policy
               /\ c[k] = t[k] => [c[k] EXCEPT !.dflt = t[k].dflt] = t[k]
    BY <1>1 DEF Table, Policy
  <1>2. ReloadDefaults(c, t, db) \in Table
    BY <1>1 DEF ReloadDefaults, Table
  <1>3. \A k \in Keys : (ReloadDefaults(c, t, db)[k] = NoPolicy) = (c[k] = NoPolicy)
    BY <1>1 DEF ReloadDefaults
  <1>4. c = t => ReloadDefaults(c, t, db) = t
    <2> SUFFICES ASSUME c = t PROVE ReloadDefaults(c, t, db) = t
      OBVIOUS
    <2>1. \A k \in Keys : ReloadDefaults(c, t, db)[k] = t[k]
      BY <1>1 DEF ReloadDefaults
    <2> QED BY <2>1, <1>2 DEF Table
  <1> QED BY <1>2, <1>3, <1>4

\* A key is a database and a name.
LEMMA KeyParts ==
    ASSUME NEW db \in Dbs, NEW name \in Names
    PROVE  <<db, name>> \in Keys /\ <<db, name>>[1] = db
  BY DEF Keys

\* The database of a key is a database.
LEMMA KeyDb == ASSUME NEW k \in Keys PROVE k[1] \in Dbs
  BY DEF Keys

-----------------------------------------------------------------------------
(* Type correctness.                                                        *)

\* What CreatePolicy stores is a policy.
LEMMA CreatedPolicy ==
    ASSUME NEW d \in Durations, NEW s \in Shards \cup {Omitted}, NEW dflt \in BOOLEAN
    PROVE  [dur |-> d, shard |-> ShardOf(s), dflt |-> dflt] \in Policy
  BY DEF ShardOf, Policy

\* CreatePolicyUpsert is the rest of a CreatePolicy; it leaves the table alone or
\* upserts into it, and the cache alone unless the upsert was acknowledged.
LEMMA UpsertStep ==
    ASSUME TypeOK, CreatePolicyUpsert
    PROVE  /\ pending \in Upserts /\ pending.key \in Keys
           /\ pending.policy \in Policy /\ pending.key[1] \in Dbs
           /\ pending' = Idle
           /\ rows' \in Table /\ cache' \in Table
           /\ rows' = rows \/ rows' = Upsert(rows, pending.key, pending.policy)
           /\ \/ cache' = cache
              \/ /\ rows' = Upsert(rows, pending.key, pending.policy)
                 /\ LET stored == Upsert(cache, pending.key, pending.policy) IN
                    \/ cache' = stored
                    \/ cache' = ReloadDefaults(stored, rows', pending.key[1])
           /\ Outcomes = {"ok"} =>
                 LET stored == Upsert(cache, pending.key, pending.policy) IN
                 /\ rows' = Upsert(rows, pending.key, pending.policy)
                 /\ \/ cache' = stored
                    \/ cache' = ReloadDefaults(stored, rows', pending.key[1])
  <1> DEFINE stored == Upsert(cache, pending.key, pending.policy)
  <1>1. pending \in Upserts /\ pending' = Idle
    BY DEF CreatePolicyUpsert, TypeOK, Idle, SetDefaults
  <1>2. pending.key \in Keys /\ pending.policy \in Policy /\ pending.key[1] \in Dbs
    BY <1>1, KeyDb DEF Upserts
  <1>3. PICK outcome \in Outcomes :
          /\ rows' = IF Executed(outcome)
                     THEN Upsert(rows, pending.key, pending.policy) ELSE rows
          /\ IF outcome # "ok" THEN cache' = cache
             ELSE \/ cache' = ReloadDefaults(stored, rows', pending.key[1])
                  \/ cache' = stored
    BY DEF CreatePolicyUpsert
  <1>4. rows' \in Table /\ stored \in Table
    BY <1>2, <1>3, UpsertTable DEF TypeOK
  <1> HIDE DEF stored
  <1>5. cache' \in Table
    <2>1. ReloadDefaults(stored, rows', pending.key[1]) \in Table
      BY <1>2, <1>4, ReloadDefaultsTable
    <2> QED BY <1>3, <1>4, <2>1 DEF TypeOK
  <1>6. outcome = "ok" => rows' = Upsert(rows, pending.key, pending.policy)
    BY <1>3 DEF Executed
  <1> QED BY <1>1, <1>2, <1>3, <1>4, <1>5, <1>6 DEF stored

\* EnsureDatabasePolicies inserts one autogen policy, a default only where the
\* table had none or the COUNT failed, unless the INSERT fails.
LEMMA EnsureStep ==
    ASSUME TypeOK, NEW db \in Dbs, EnsureDatabasePolicies(db)
    PROVE  /\ <<db, Autogen>> \in Keys /\ cache[<<db, Autogen>>] = NoPolicy
           /\ pending = Idle /\ pending' = Idle
           /\ \E b \in BOOLEAN :
                 LET p == AutogenPolicy(b)  key == <<db, Autogen>> IN
                 /\ p \in Policy
                 /\ b /\ "countFails" \notin Faults => DefaultsOf(rows, db) = {}
                 /\ rows' = rows \/ rows' = InsertIfAbsent(rows, key, p)
                 /\ \/ cache' = cache
                    \/ cache' = Upsert(cache, key, p) /\ rows' = InsertIfAbsent(rows, key, p)
                 /\ Outcomes = {"ok"} =>
                       /\ rows' = InsertIfAbsent(rows, key, p)
                       /\ cache' = Upsert(cache, key, p)
  <1>1. <<db, Autogen>> \in Keys /\ cache[<<db, Autogen>>] = NoPolicy
        /\ pending = Idle /\ pending' = Idle
    BY KeyParts DEF EnsureDatabasePolicies
  <1>2. PICK countOk \in {TRUE, "countFails" \notin Faults}, outcome \in Outcomes :
          LET p == AutogenPolicy(countOk => DefaultsOf(rows, db) = {})
              key == <<db, Autogen>> IN
          /\ rows' = IF Executed(outcome) THEN InsertIfAbsent(rows, key, p) ELSE rows
          /\ cache' = IF outcome = "ok" THEN Upsert(cache, key, p) ELSE cache
    BY Zenon DEF EnsureDatabasePolicies
  <1> DEFINE b == countOk => DefaultsOf(rows, db) = {}
             p == AutogenPolicy(b)
             key == <<db, Autogen>>
  <1>3. b \in BOOLEAN /\ p \in Policy
    BY DEF AutogenPolicy, Policy
  <1>4. b /\ "countFails" \notin Faults => DefaultsOf(rows, db) = {}
    BY <1>2
  <1>5. /\ rows' = IF Executed(outcome) THEN InsertIfAbsent(rows, key, p) ELSE rows
        /\ cache' = IF outcome = "ok" THEN Upsert(cache, key, p) ELSE cache
    BY <1>2
  <1>6. Executed("ok")
    BY DEF Executed
  <1> HIDE DEF b, p, key
  <1>7. /\ rows' = rows \/ rows' = InsertIfAbsent(rows, key, p)
        /\ \/ cache' = cache
           \/ cache' = Upsert(cache, key, p) /\ rows' = InsertIfAbsent(rows, key, p)
        /\ Outcomes = {"ok"} => /\ rows' = InsertIfAbsent(rows, key, p)
                                /\ cache' = Upsert(cache, key, p)
    BY <1>5, <1>6
  <1> QED BY <1>1, <1>3, <1>4, <1>7 DEF p, key

\* AlterPolicy keeps the cache and the table tables, and changes no flag and no
\* key: neither in the cache nor in the table.
LEMMA AlterKeeps ==
    ASSUME TypeOK, NEW db \in Dbs, NEW name \in Names,
           NEW d \in Durations \cup {Omitted},
           NEW s \in Shards \cup {Omitted} \cup ClauseErrors,
           AlterPolicy(db, name, d, s)
    PROVE  /\ rows' \in Table /\ cache' \in Table
           /\ \A k \in Keys : /\ (rows'[k] = NoPolicy) = (rows[k] = NoPolicy)
                              /\ rows[k] # NoPolicy => rows'[k].dflt = rows[k].dflt
                              /\ (cache'[k] = NoPolicy) = (cache[k] = NoPolicy)
  <1> DEFINE key == <<db, name>>
  <1>1. key \in Keys /\ rows \in Table /\ cache \in Table
    BY KeyParts DEF TypeOK
  <1>2. cache[key] \in Policy /\ cache[key] # NoPolicy
    BY <1>1 DEF AlterPolicy, Table
  <1>3. OrKeep(d, cache[key].dur) \in Int
    BY <1>2 DEF OrKeep, Policy
  <1>4. CASE s \in ClauseErrors
    <2>1. cache' = [cache EXCEPT ![key].dur = OrKeep(d, @)] /\ rows' = rows
      BY <1>4 DEF AlterPolicy
    <2>2. [cache[key] EXCEPT !.dur = OrKeep(d, @)] \in Policy
      BY <1>2, <1>3 DEF Policy
    <2>3. cache' = [cache EXCEPT ![key] = [cache[key] EXCEPT !.dur = OrKeep(d, @)]]
      BY <2>1, <1>1 DEF Table
    <2> QED BY <2>1, <2>2, <2>3, <1>1, <1>2 DEF Table
  <1>5. CASE s \notin ClauseErrors
    <2> DEFINE altered == [cache[key] EXCEPT !.dur = OrKeep(d, @), !.shard = OrKeep(s, @)]
    <2>1. OrKeep(s, cache[key].shard) \in Int
      BY <1>2, <1>5 DEF OrKeep, Policy
    <2>2. altered \in Policy
      BY <1>2, <1>3, <2>1 DEF Policy
    <2>3. cache' = [cache EXCEPT ![key] = altered]
      BY <1>1, <1>5 DEF AlterPolicy
    <2>4. cache' \in Table /\ cache'[key] \in Policy
          /\ \A k \in Keys : (cache'[k] = NoPolicy) = (cache[k] = NoPolicy)
      BY <2>2, <2>3, <1>1, <1>2 DEF Table
    <2>5. CASE rows' = rows
      BY <2>4, <2>5, <1>1
    <2>6. CASE /\ rows[key] # NoPolicy
               /\ rows' = [rows EXCEPT ![key] = [@ EXCEPT !.dur = cache'[key].dur,
                                                          !.shard = cache'[key].shard]]
      <3> DEFINE row == [rows[key] EXCEPT !.dur = cache'[key].dur, !.shard = cache'[key].shard]
      <3>1. row \in Policy /\ row.dflt = rows[key].dflt
        BY <2>4, <2>6, <1>1 DEF Table, Policy
      <3>2. rows' = [rows EXCEPT ![key] = row]
        BY <2>6, <1>1 DEF Table
      <3> QED BY <3>1, <3>2, <2>4, <2>6, <1>1 DEF Table
    <2> QED BY <1>5, <2>5, <2>6 DEF AlterPolicy
  <1> QED BY <1>4, <1>5

\* Every operation stores policies, and leaves a mutator of the code.
LEMMA TypeStep == TypeOK /\ [Next]_vars => TypeOK'
  <1> SUFFICES ASSUME TypeOK, [Next]_vars PROVE TypeOK'
    OBVIOUS
  <1> USE DEF TypeOK
  <1>1. ASSUME NEW db \in Dbs, NEW name \in Names, NEW d \in Durations,
               NEW s \in Shards \cup {Omitted}, NEW dflt \in BOOLEAN,
               CreatePolicy(db, name, d, s, dflt)
        PROVE  TypeOK'
    BY <1>1, ClearDefaultsTable, KeyParts, CreatedPolicy DEF CreatePolicy, Upserts
  <1>2. ASSUME NEW db \in Dbs, NEW name \in Names, NEW d \in Durations \cup {Omitted},
               NEW s \in Shards \cup {Omitted} \cup ClauseErrors,
               AlterPolicy(db, name, d, s)
        PROVE  TypeOK'
    BY <1>2, AlterKeeps DEF AlterPolicy
  <1>3. ASSUME NEW db \in Dbs, NEW name \in Names, SetDefault(db, name)
        PROVE  TypeOK'
    BY <1>3, ClearDefaultsTable, KeyParts DEF SetDefault, SetDefaults
  <1>4. ASSUME NEW db \in Dbs, NEW name \in Names, DropPolicy(db, name)
        PROVE  TypeOK'
    BY <1>4, KeyParts DEF DropPolicy, Table
  <1>5. CASE CreatePolicyUpsert
    BY <1>5, UpsertStep
  <1>6. CASE SetDefaultMark
    <2>1. pending \in SetDefaults
      BY <1>6 DEF SetDefaultMark, Idle, Upserts
    <2>2. pending.key \in Keys /\ pending.key[1] \in Dbs
      BY <2>1, KeyDb DEF SetDefaults
    <2> QED BY <1>6, <2>2, MarkDefaultTable, ClearDefaultsTable DEF SetDefaultMark
  <1>7. ASSUME NEW db \in Dbs, DropDatabasePolicies(db)
        PROVE  TypeOK'
    BY <1>7, DeleteDbTable DEF DropDatabasePolicies
  <1>8. ASSUME NEW db \in Dbs, EnsureDatabasePolicies(db)
        PROVE  TypeOK'
    <2> DEFINE key == <<db, Autogen>>
    <2>1. key \in Keys /\ pending' = Idle
      BY <1>8, EnsureStep
    <2>2. PICK b \in BOOLEAN :
            /\ AutogenPolicy(b) \in Policy
            /\ rows' = rows \/ rows' = InsertIfAbsent(rows, key, AutogenPolicy(b))
            /\ cache' = cache \/ cache' = Upsert(cache, key, AutogenPolicy(b))
      BY <1>8, EnsureStep
    <2> HIDE DEF key
    <2>3. rows' \in Table /\ cache' \in Table
      BY <2>1, <2>2, UpsertTable, InsertIfAbsentTable
    <2> QED BY <2>1, <2>3
  <1>9. CASE CrashRestart
    BY <1>9 DEF CrashRestart
  <1>10. CASE UNCHANGED vars
    BY <1>10 DEF vars
  <1> QED
    BY <1>1, <1>2, <1>3, <1>4, <1>5, <1>6, <1>7, <1>8, <1>9, <1>10 DEF Next

\* Every state holds tables of policies and a mutator of the code.
THEOREM TypeCorrect == Spec => []TypeOK
  <1>1. Init => TypeOK
    BY DEF Init, TypeOK, Table
  <1> QED BY <1>1, TypeStep, PTL DEF Spec

-----------------------------------------------------------------------------
(* One default per database.                                                *)

\* A step that adds no default keeps the invariant, and so does one that adds a
\* single default to a database that had none.
LEMMA DefaultsShrink ==
    ASSUME OneDefaultRow,
           \A e \in Dbs : DefaultsOf(rows', e) \subseteq DefaultsOf(rows, e)
    PROVE  OneDefaultRow'
  BY DEF OneDefaultRow

\* A database that gains at most one default key has at most one, if it had none that
\* stays.
LEMMA DefaultsGain ==
    ASSUME OneDefaultRow, NEW key \in Keys, DefaultsOf(rows, key[1]) = {},
           \A e \in Dbs : DefaultsOf(rows', e)
                             \subseteq DefaultsOf(rows, e) \cup {k \in {key} : k[1] = e}
    PROVE  OneDefaultRow'
  BY DEF OneDefaultRow

\* A step of the store keeps them.
LEMMA OneDefaultStep ==
    ASSUME "countFails" \notin Faults,
           TypeOK, TypeOK', OneDefaultRow, ClearedBeforeGranted, [Next]_vars
    PROVE  (OneDefaultRow /\ ClearedBeforeGranted)'
  <1> DEFINE IInv == OneDefaultRow /\ ClearedBeforeGranted
  <1> DEFINE Quiet == pending' = Idle
  <1>a. Quiet => ClearedBeforeGranted'
    BY DEF ClearedBeforeGranted, Idle
  <1>1. ASSUME NEW db \in Dbs, NEW name \in Names, NEW d \in Durations,
               NEW s \in Shards \cup {Omitted}, NEW dflt \in BOOLEAN,
               CreatePolicy(db, name, d, s, dflt)
        PROVE  IInv'
    <2> DEFINE policy == [dur |-> d, shard |-> ShardOf(s), dflt |-> dflt]
    <2>1. \/ rows' = rows /\ pending' = Idle
          \/ rows' = ClearDefaults(rows, db) /\ pending' = Idle
          \/ /\ rows' = IF dflt THEN ClearDefaults(rows, db) ELSE rows
             /\ pending' = [op |-> "upsert", key |-> <<db, name>>, policy |-> policy]
      BY <1>1 DEF CreatePolicy, Executed
    <2>2. OneDefaultRow'
      BY <2>1, ClearDefaultsTable, DefaultsShrink DEF TypeOK, OneDefaultRow
    <2>3. ASSUME pending' = [op |-> "upsert", key |-> <<db, name>>, policy |-> policy],
                 rows' = IF dflt THEN ClearDefaults(rows, db) ELSE rows
          PROVE  ClearedBeforeGranted'
      BY <2>3, ClearDefaultsTable DEF ClearedBeforeGranted, TypeOK
    <2> QED BY <2>1, <2>2, <2>3, <1>a
  <1>2. ASSUME NEW db \in Dbs, NEW name \in Names, NEW d \in Durations \cup {Omitted},
               NEW s \in Shards \cup {Omitted} \cup ClauseErrors,
               AlterPolicy(db, name, d, s)
        PROVE  IInv'
    <2>1. \A e \in Dbs : DefaultsOf(rows', e) \subseteq DefaultsOf(rows, e)
      BY <1>2, AlterKeeps DEF DefaultsOf
    <2>2. pending' = Idle
      BY <1>2 DEF AlterPolicy
    <2> QED BY <2>1, <2>2, <1>a, DefaultsShrink
  <1>3. ASSUME NEW db \in Dbs, NEW name \in Names, SetDefault(db, name)
        PROVE  IInv'
    <2>1. \/ rows' \in {rows, ClearDefaults(rows, db)} /\ pending' = Idle
          \/ /\ rows' = ClearDefaults(rows, db)
             /\ pending' = [op |-> "setDefault", key |-> <<db, name>>]
      BY <1>3 DEF SetDefault, Executed
    <2>2. OneDefaultRow'
      BY <2>1, ClearDefaultsTable, DefaultsShrink DEF TypeOK, OneDefaultRow
    <2>3. ASSUME pending' = [op |-> "setDefault", key |-> <<db, name>>],
                 rows' = ClearDefaults(rows, db)
          PROVE  ClearedBeforeGranted'
      BY <2>3, ClearDefaultsTable DEF ClearedBeforeGranted, TypeOK
    <2> QED BY <2>1, <2>2, <2>3, <1>a
  <1>4. ASSUME NEW db \in Dbs, NEW name \in Names, DropPolicy(db, name)
        PROVE  IInv'
    <2>1. pending' = Idle
      BY <1>4 DEF DropPolicy
    <2>2. \A e \in Dbs : DefaultsOf(rows', e) \subseteq DefaultsOf(rows, e)
      BY <1>4, KeyParts DEF DropPolicy, DefaultsOf, TypeOK, Table
    <2> QED BY <2>1, <2>2, <1>a, DefaultsShrink
  <1>5. CASE CreatePolicyUpsert
    <2>1. /\ pending.key \in Keys /\ pending.policy \in Policy /\ pending.op = "upsert"
          /\ pending' = Idle
          /\ rows' = rows \/ rows' = Upsert(rows, pending.key, pending.policy)
      BY <1>5, UpsertStep DEF CreatePolicyUpsert
    <2>2. CASE rows' = rows
      BY <2>1, <2>2, <1>a DEF OneDefaultRow
    <2>3. CASE rows' = Upsert(rows, pending.key, pending.policy)
      <3>1. \A e \in Dbs : DefaultsOf(rows', e) \subseteq
                 DefaultsOf(rows, e) \cup {k \in {pending.key} : k[1] = e /\ pending.policy.dflt}
        BY <2>1, <2>3, UpsertTable DEF TypeOK
      <3>2. CASE pending.policy.dflt
        <4>1. DefaultsOf(rows, pending.key[1]) = {}
          BY <2>1, <3>2 DEF ClearedBeforeGranted
        <4>2. OneDefaultRow'
          BY <2>1, <3>1, <4>1, DefaultsGain
        <4> QED BY <2>1, <4>2, <1>a
      <3>3. CASE ~pending.policy.dflt
        <4>1. OneDefaultRow'
          BY <3>1, <3>3, DefaultsShrink
        <4> QED BY <2>1, <4>1, <1>a
      <3> QED BY <3>2, <3>3
    <2> QED BY <2>1, <2>2, <2>3
  <1>6. CASE SetDefaultMark
    <2>1. /\ pending \in SetDefaults /\ pending' = Idle
          /\ pending.op = "setDefault"
          /\ rows' = rows \/ rows' = MarkDefault(rows, pending.key)
      BY <1>6 DEF SetDefaultMark, TypeOK, Idle, Upserts
    <2>2. pending.key \in Keys /\ DefaultsOf(rows, pending.key[1]) = {}
      BY <2>1 DEF SetDefaults, ClearedBeforeGranted
    <2>3. CASE rows' = rows
      BY <2>1, <2>3, <1>a DEF OneDefaultRow
    <2>4. CASE rows' = MarkDefault(rows, pending.key)
      <3>1. \A e \in Dbs : DefaultsOf(rows', e)
               \subseteq DefaultsOf(rows, e) \cup {k \in {pending.key} : k[1] = e}
        BY <2>2, <2>4, MarkDefaultTable DEF TypeOK
      <3>2. OneDefaultRow'
        BY <3>1, <2>2, DefaultsGain
      <3> QED BY <3>2, <2>1, <1>a
    <2> QED BY <2>1, <2>3, <2>4
  <1>7. ASSUME NEW db \in Dbs, DropDatabasePolicies(db)
        PROVE  IInv'
    <2>1. pending' = Idle /\ (rows' = rows \/ rows' = DeleteDb(rows, db))
      BY <1>7 DEF DropDatabasePolicies
    <2>2. \A e \in Dbs : DefaultsOf(rows', e) \subseteq DefaultsOf(rows, e)
      BY <2>1, DeleteDbTable DEF TypeOK
    <2> QED BY <2>1, <2>2, <1>a, DefaultsShrink
  <1>8. ASSUME NEW db \in Dbs, EnsureDatabasePolicies(db)
        PROVE  IInv'
    <2> DEFINE key == <<db, Autogen>>
    <2>1. key \in Keys /\ key[1] = db /\ pending' = Idle
      BY <1>8, EnsureStep
    <2>2. PICK b \in BOOLEAN :
            /\ AutogenPolicy(b) \in Policy
            /\ b => DefaultsOf(rows, db) = {}
            /\ rows' = rows \/ rows' = InsertIfAbsent(rows, key, AutogenPolicy(b))
      BY <1>8, EnsureStep
    <2> HIDE DEF key
    <2>3. CASE rows' = rows
      BY <2>1, <2>3, <1>a DEF OneDefaultRow
    <2>4. CASE rows' = InsertIfAbsent(rows, key, AutogenPolicy(b))
      <3>1. \A e \in Dbs : DefaultsOf(rows', e) \subseteq
                 DefaultsOf(rows, e) \cup {k \in {key} : k[1] = e /\ AutogenPolicy(b).dflt}
        BY <2>1, <2>2, <2>4, InsertIfAbsentTable DEF TypeOK
      <3>2. AutogenPolicy(b).dflt = b
        BY DEF AutogenPolicy
      <3>3. OneDefaultRow'
        BY <2>1, <2>2, <3>1, <3>2, DefaultsGain, DefaultsShrink
      <3> QED BY <3>3, <2>1, <1>a
    <2> QED BY <2>2, <2>3, <2>4
  <1>9. CASE CrashRestart
    BY <1>9, <1>a DEF CrashRestart, OneDefaultRow
  <1>10. CASE UNCHANGED vars
    BY <1>10 DEF vars, OneDefaultRow, ClearedBeforeGranted
  <1> QED
    BY <1>1, <1>2, <1>3, <1>4, <1>5, <1>6, <1>7, <1>8, <1>9, <1>10 DEF Next

\* If every COUNT is answered, no database ever has two stored default policies,
\* whatever else fails or crashes: CREATE and SetDefault clear before they grant,
\* and autogen is made the default only where none is stored.
THEOREM AtMostOneDefault ==
    ASSUME "countFails" \notin Faults
    PROVE  Spec => [](OneDefaultRow /\ ClearedBeforeGranted)
  <1> DEFINE IInv == OneDefaultRow /\ ClearedBeforeGranted
  <1>1. Init => IInv
    BY DEF Init, OneDefaultRow, ClearedBeforeGranted, DefaultsOf, Idle
  <1>2. TypeOK /\ TypeOK' /\ IInv /\ [Next]_vars => IInv'
    BY OneDefaultStep
  <1> QED BY <1>1, <1>2, TypeCorrect, PTL DEF Spec

-----------------------------------------------------------------------------
(* The cache and the table.                                                 *)

\* A step of the store leaves the cache and the table in step.
LEMMA InStepKept ==
    ASSUME Faults \subseteq {"crash", "countFails", "reloadFails"}, ClauseErrors = {},
           TypeOK, TypeOK', CacheMatchesTable, HalfwayInStep, [Next]_vars
    PROVE  (CacheMatchesTable /\ HalfwayInStep)'
  <1> DEFINE IInv == CacheMatchesTable /\ HalfwayInStep
  <1>0. Outcomes = {"ok"}
    BY DEF Outcomes
  <1>a. ASSUME pending' = Idle, cache' = rows'
        PROVE  IInv'
    BY <1>a DEF CacheMatchesTable, HalfwayInStep, Idle
  <1>b. pending = Idle => cache = rows
    BY DEF CacheMatchesTable
  <1>1. ASSUME NEW db \in Dbs, NEW name \in Names, NEW d \in Durations,
               NEW s \in Shards \cup {Omitted}, NEW dflt \in BOOLEAN,
               CreatePolicy(db, name, d, s, dflt)
        PROVE  IInv'
    <2>1. /\ cache = rows
          /\ rows' = IF dflt THEN ClearDefaults(rows, db) ELSE rows
          /\ cache' = IF dflt THEN ClearDefaults(cache, db) ELSE cache
          /\ pending'.op = "upsert" /\ pending' # Idle
      BY <1>1, <1>b, <1>0 DEF CreatePolicy, Executed, Idle
    <2> QED BY <2>1 DEF CacheMatchesTable, HalfwayInStep
  <1>2. ASSUME NEW db \in Dbs, NEW name \in Names, NEW d \in Durations \cup {Omitted},
               NEW s \in Shards \cup {Omitted} \cup ClauseErrors,
               AlterPolicy(db, name, d, s)
        PROVE  IInv'
    <2> DEFINE key == <<db, name>>
               altered == [cache[key] EXCEPT !.dur = OrKeep(d, @), !.shard = OrKeep(s, @)]
    <2>1. key \in Keys /\ cache = rows /\ cache[key] \in Policy
          /\ pending' = Idle
      BY <1>2, <1>b, KeyParts DEF AlterPolicy, TypeOK, Table
    <2>2. cache' = [cache EXCEPT ![key] = altered]
      BY <1>2, <2>1 DEF AlterPolicy, TypeOK, Table
    <2>3. rows' = [rows EXCEPT ![key] = [rows[key] EXCEPT !.dur = cache'[key].dur,
                                                        !.shard = cache'[key].shard]]
      BY <1>2, <1>0, <2>1 DEF AlterPolicy, Executed, TypeOK, Table
    <2>4. cache'[key] = altered
      BY <2>1, <2>2 DEF TypeOK, Table
    <2>5. [rows[key] EXCEPT !.dur = altered.dur, !.shard = altered.shard] = altered
      BY <2>1 DEF Policy
    <2>6. rows' = [rows EXCEPT ![key] = altered]
      BY <2>3, <2>4, <2>5
    <2> QED BY <2>1, <2>2, <2>6, <1>a
  <1>3. ASSUME NEW db \in Dbs, NEW name \in Names, SetDefault(db, name)
        PROVE  IInv'
    <2>1. /\ cache = rows /\ cache' = cache
          /\ rows' = ClearDefaults(rows, db)
          /\ pending' = [op |-> "setDefault", key |-> <<db, name>>]
      BY <1>3, <1>b, <1>0 DEF SetDefault, Executed
    <2> QED BY <2>1 DEF CacheMatchesTable, HalfwayInStep, Idle
  <1>4. ASSUME NEW db \in Dbs, NEW name \in Names, DropPolicy(db, name)
        PROVE  IInv'
    BY <1>4, <1>a, <1>b, <1>0 DEF DropPolicy, Executed
  <1>5. CASE CreatePolicyUpsert
    <2>1. /\ pending.op = "upsert" /\ pending.key \in Keys /\ pending.policy \in Policy
          /\ pending.key[1] \in Dbs /\ pending' = Idle
          /\ rows' = Upsert(rows, pending.key, pending.policy)
      BY <1>5, <1>0, UpsertStep DEF CreatePolicyUpsert
    <2>2. cache = rows
      BY <2>1 DEF HalfwayInStep
    <2>3. cache' = rows' \/ cache' = ReloadDefaults(rows', rows', pending.key[1])
      BY <1>5, <1>0, <2>1, <2>2, UpsertStep
    <2>4. rows' \in Table
      BY DEF TypeOK
    <2>5. cache' = rows'
      BY <2>1, <2>3, <2>4, ReloadDefaultsTable
    <2> QED BY <2>1, <2>5, <1>a
  <1>6. CASE SetDefaultMark
    <2>1. /\ pending.op = "setDefault" /\ pending' = Idle
          /\ rows' = MarkDefault(rows, pending.key)
          /\ cache' = MarkDefault(ClearDefaults(cache, pending.key[1]), pending.key)
      BY <1>6, <1>0 DEF SetDefaultMark, Executed
    <2>2. rows = ClearDefaults(cache, pending.key[1])
      BY <2>1 DEF HalfwayInStep
    <2> QED BY <2>1, <2>2, <1>a
  <1>7. ASSUME NEW db \in Dbs, DropDatabasePolicies(db)
        PROVE  IInv'
    BY <1>7, <1>a, <1>b, <1>0 DEF DropDatabasePolicies, Executed
  <1>8. ASSUME NEW db \in Dbs, EnsureDatabasePolicies(db)
        PROVE  IInv'
    <2> DEFINE key == <<db, Autogen>>
    <2>1. key \in Keys /\ cache[key] = NoPolicy /\ pending' = Idle /\ cache = rows
      BY <1>8, <1>b, EnsureStep
    <2>2. PICK b \in BOOLEAN : /\ rows' = InsertIfAbsent(rows, key, AutogenPolicy(b))
                               /\ cache' = Upsert(cache, key, AutogenPolicy(b))
      BY <1>8, <1>0, EnsureStep
    <2> HIDE DEF key
    <2>3. InsertIfAbsent(rows, key, AutogenPolicy(b)) = Upsert(cache, key, AutogenPolicy(b))
      BY <2>1 DEF InsertIfAbsent, Upsert, TypeOK, Table
    <2> QED BY <2>1, <2>2, <2>3, <1>a
  <1>9. CASE CrashRestart
    BY <1>9, <1>a DEF CrashRestart
  <1>10. CASE UNCHANGED vars
    BY <1>10 DEF vars, CacheMatchesTable, HalfwayInStep
  <1> QED
    BY <1>1, <1>2, <1>3, <1>4, <1>5, <1>6, <1>7, <1>8, <1>9, <1>10 DEF Next

\* If every writing statement succeeds and every clause parses, the cache equals
\* the table whenever rs.mu is free, through crashes, failed COUNTs and failed
\* reloads.  The invariant says what the two owe each other inside a mutator.
THEOREM CacheIsTable ==
    ASSUME Faults \subseteq {"crash", "countFails", "reloadFails"}, ClauseErrors = {}
    PROVE  Spec => [](CacheMatchesTable /\ HalfwayInStep)
  <1> DEFINE IInv == CacheMatchesTable /\ HalfwayInStep
  <1>1. Init => IInv
    BY DEF Init, CacheMatchesTable, HalfwayInStep, Idle
  <1>2. TypeOK /\ TypeOK' /\ IInv /\ [Next]_vars => IInv'
    BY InStepKept
  <1> QED BY <1>1, <1>2, TypeCorrect, PTL DEF Spec

\* Unless an acknowledgement is lost, a cached policy has its row in the table,
\* whichever statements fail: a restart forgets nothing the proxy was showing.
THEOREM CachedPoliciesAreStored ==
    ASSUME "lostReply" \notin Faults
    PROVE  Spec => []CachedIsStored
  <1>0. \A outcome \in Outcomes : outcome = "ok" \/ ~Executed(outcome)
    BY DEF Outcomes, Executed
  <1>1. Init => CachedIsStored
    BY DEF Init, CachedIsStored
  <1>2. TypeOK /\ CachedIsStored /\ [Next]_vars => CachedIsStored'
    <2> SUFFICES ASSUME TypeOK, CachedIsStored, [Next]_vars PROVE CachedIsStored'
      OBVIOUS
    <2> USE DEF CachedIsStored
    <2>1. ASSUME NEW db \in Dbs, NEW name \in Names, NEW d \in Durations,
                 NEW s \in Shards \cup {Omitted}, NEW dflt \in BOOLEAN,
                 CreatePolicy(db, name, d, s, dflt)
          PROVE  CachedIsStored'
      <3>1. rows' \in {rows, ClearDefaults(rows, db)} /\ cache' \in {cache, ClearDefaults(cache, db)}
        BY <2>1 DEF CreatePolicy
      <3> QED BY <3>1, ClearDefaultsTable DEF TypeOK
    <2>2. ASSUME NEW db \in Dbs, NEW name \in Names, NEW d \in Durations \cup {Omitted},
                 NEW s \in Shards \cup {Omitted} \cup ClauseErrors,
                 AlterPolicy(db, name, d, s)
          PROVE  CachedIsStored'
      BY <2>2, AlterKeeps
    <2>3. ASSUME NEW db \in Dbs, NEW name \in Names, SetDefault(db, name)
          PROVE  CachedIsStored'
      <3>1. rows' \in {rows, ClearDefaults(rows, db)} /\ cache' = cache
        BY <2>3 DEF SetDefault
      <3> QED BY <3>1, ClearDefaultsTable DEF TypeOK
    <2>4. ASSUME NEW db \in Dbs, NEW name \in Names, DropPolicy(db, name)
          PROVE  CachedIsStored'
      BY <2>4, <1>0, KeyParts DEF DropPolicy, TypeOK, Table
    <2>5. CASE CreatePolicyUpsert
      <3>1. /\ pending.key \in Keys /\ pending.policy \in Policy /\ pending.key[1] \in Dbs
            /\ rows' \in Table
            /\ rows' = rows \/ rows' = Upsert(rows, pending.key, pending.policy)
        BY <2>5, UpsertStep
      <3>2. CASE cache' = cache
        BY <3>1, <3>2, UpsertTable DEF TypeOK
      <3>3. CASE cache' # cache
        <4> DEFINE stored == Upsert(cache, pending.key, pending.policy)
        <4>1. /\ rows' = Upsert(rows, pending.key, pending.policy)
              /\ cache' = stored \/ cache' = ReloadDefaults(stored, rows', pending.key[1])
          BY <2>5, <3>3, UpsertStep
        <4>2. stored \in Table /\ (\A k \in Keys : stored[k] # NoPolicy => rows'[k] # NoPolicy)
          BY <3>1, <4>1 DEF Upsert, TypeOK, Table
        <4> HIDE DEF stored
        <4> QED BY <3>1, <4>1, <4>2, ReloadDefaultsTable
      <3> QED BY <3>2, <3>3
    <2>6. CASE SetDefaultMark
      <3>1. pending.key \in Keys /\ pending.key[1] \in Dbs
        BY <2>6, KeyDb DEF SetDefaultMark, TypeOK, Idle, Upserts, SetDefaults
      <3> DEFINE cleared == ClearDefaults(cache, pending.key[1])
      <3>2. /\ rows' = rows \/ rows' = MarkDefault(rows, pending.key)
            /\ cache' = cache \/ cache' = MarkDefault(cleared, pending.key)
        BY <2>6 DEF SetDefaultMark
      <3>3. cleared \in Table /\ (\A k \in Keys : (cleared[k] = NoPolicy) = (cache[k] = NoPolicy))
        BY <3>1, ClearDefaultsTable DEF TypeOK
      <3> HIDE DEF cleared
      <3>4. \A k \in Keys : /\ (rows'[k] = NoPolicy) = (rows[k] = NoPolicy)
                            /\ (cache'[k] = NoPolicy) = (cache[k] = NoPolicy)
        BY <3>1, <3>2, <3>3, MarkDefaultTable DEF TypeOK
      <3> QED BY <3>4
    <2>7. ASSUME NEW db \in Dbs, DropDatabasePolicies(db)
          PROVE  CachedIsStored'
      BY <2>7 DEF DropDatabasePolicies, DeleteDb
    <2>8. ASSUME NEW db \in Dbs, EnsureDatabasePolicies(db)
          PROVE  CachedIsStored'
      <3> DEFINE key == <<db, Autogen>>
      <3>1. key \in Keys
        BY <2>8, EnsureStep
      <3>2. PICK b \in BOOLEAN :
              /\ AutogenPolicy(b) \in Policy
              /\ rows' = rows \/ rows' = InsertIfAbsent(rows, key, AutogenPolicy(b))
              /\ \/ cache' = cache
                 \/ /\ cache' = Upsert(cache, key, AutogenPolicy(b))
                    /\ rows' = InsertIfAbsent(rows, key, AutogenPolicy(b))
        BY <2>8, EnsureStep
      <3> HIDE DEF key
      <3>3. \A k \in Keys : rows'[k] = NoPolicy => rows[k] = NoPolicy
        BY <3>1, <3>2, InsertIfAbsentTable DEF TypeOK
      <3>4. CASE cache' = cache
        BY <3>3, <3>4
      <3>5. CASE /\ cache' = Upsert(cache, key, AutogenPolicy(b))
                 /\ rows' = InsertIfAbsent(rows, key, AutogenPolicy(b))
        BY <3>1, <3>2, <3>3, <3>5 DEF InsertIfAbsent, Upsert, TypeOK, Table
      <3> QED BY <3>2, <3>4, <3>5
    <2>9. CASE CrashRestart
      BY <2>9 DEF CrashRestart
    <2>10. CASE UNCHANGED vars
      BY <2>10 DEF vars
    <2> QED
      BY <2>1, <2>2, <2>3, <2>4, <2>5, <2>6, <2>7, <2>8, <2>9, <2>10 DEF Next
  <1> QED BY <1>1, <1>2, TypeCorrect, PTL DEF Spec

\* In the middle of a mutator the two differ by what its first statement has done and its
\* return has not: the upsert starts from equal ones, and only the UPDATE that clears the
\* defaults of one database may be ahead of the cache.
THEOREM HalfwayIsInStep ==
    ASSUME Faults \subseteq {"crash", "countFails", "reloadFails"}, ClauseErrors = {}
    PROVE  Spec => []HalfwayInStep
  BY CacheIsTable, PTL

-----------------------------------------------------------------------------
(* Databases do not disturb each other.                                     *)

\* A mutator changes the policies of one database only, whatever fails.
TouchesOne ==
    \E db \in Dbs : \A k \in Keys : k[1] # db => rows'[k] = rows[k] /\ cache'[k] = cache[k]

LEMMA OneTouched == ASSUME TypeOK, Next, ~CrashRestart PROVE TouchesOne
  <1>b. ASSUME NEW db \in Dbs,
               \A k \in Keys : k[1] # db => rows'[k] = rows[k] /\ cache'[k] = cache[k]
        PROVE  TouchesOne
    BY <1>b DEF TouchesOne
  <1>1. ASSUME NEW db \in Dbs, NEW name \in Names, NEW d \in Durations,
               NEW s \in Shards \cup {Omitted}, NEW dflt \in BOOLEAN,
               CreatePolicy(db, name, d, s, dflt)
        PROVE  TouchesOne
    <2>1. rows' \in {rows, ClearDefaults(rows, db)} /\ cache' \in {cache, ClearDefaults(cache, db)}
      BY <1>1 DEF CreatePolicy
    <2> QED BY <2>1, <1>b DEF ClearDefaults
  <1>2. ASSUME NEW db \in Dbs, NEW name \in Names, NEW d \in Durations \cup {Omitted},
               NEW s \in Shards \cup {Omitted} \cup ClauseErrors,
               AlterPolicy(db, name, d, s)
        PROVE  TouchesOne
    <2>1. \A k \in Keys : k # <<db, name>> => rows'[k] = rows[k] /\ cache'[k] = cache[k]
      BY <1>2 DEF AlterPolicy, TypeOK, Table
    <2> QED BY <2>1, <1>b
  <1>3. ASSUME NEW db \in Dbs, NEW name \in Names, SetDefault(db, name)
        PROVE  TouchesOne
    <2>1. rows' \in {rows, ClearDefaults(rows, db)} /\ cache' = cache
      BY <1>3 DEF SetDefault
    <2> QED BY <2>1, <1>b DEF ClearDefaults
  <1>4. ASSUME NEW db \in Dbs, NEW name \in Names, DropPolicy(db, name)
        PROVE  TouchesOne
    <2>1. \A k \in Keys : k # <<db, name>> => rows'[k] = rows[k] /\ cache'[k] = cache[k]
      BY <1>4 DEF DropPolicy, TypeOK, Table
    <2> QED BY <2>1, <1>b
  <1>5. CASE CreatePolicyUpsert
    <2>1. /\ pending.key \in Keys /\ pending.policy \in Policy /\ pending.key[1] \in Dbs
          /\ rows' = rows \/ rows' = Upsert(rows, pending.key, pending.policy)
          /\ \/ cache' = cache
             \/ cache' = Upsert(cache, pending.key, pending.policy)
             \/ cache' = ReloadDefaults(Upsert(cache, pending.key, pending.policy), rows',
                                        pending.key[1])
      BY <1>5, UpsertStep
    <2>2. \A k \in Keys : k[1] # pending.key[1] => rows'[k] = rows[k] /\ cache'[k] = cache[k]
      BY <2>1 DEF Upsert, ReloadDefaults, TypeOK, Table
    <2> QED BY <2>1, <2>2, <1>b
  <1>6. CASE SetDefaultMark
    <2>1. pending.key \in Keys /\ pending.key[1] \in Dbs
      BY <1>6, KeyDb DEF SetDefaultMark, TypeOK, Idle, Upserts, SetDefaults
    <2>2. /\ rows' = rows \/ rows' = MarkDefault(rows, pending.key)
          /\ \/ cache' = cache
             \/ cache' = MarkDefault(ClearDefaults(cache, pending.key[1]), pending.key)
      BY <1>6 DEF SetDefaultMark
    <2>3. \A k \in Keys : k[1] # pending.key[1] => rows'[k] = rows[k] /\ cache'[k] = cache[k]
      BY <2>1, <2>2 DEF MarkDefault, ClearDefaults
    <2> QED BY <2>1, <2>3, <1>b
  <1>7. ASSUME NEW db \in Dbs, DropDatabasePolicies(db)
        PROVE  TouchesOne
    <2>1. rows' \in {rows, DeleteDb(rows, db)} /\ cache' = DeleteDb(cache, db)
      BY <1>7 DEF DropDatabasePolicies
    <2> QED BY <2>1, <1>b DEF DeleteDb
  <1>8. ASSUME NEW db \in Dbs, EnsureDatabasePolicies(db)
        PROVE  TouchesOne
    <2> DEFINE key == <<db, Autogen>>
    <2>1. PICK b \in BOOLEAN :
            /\ rows' = rows \/ rows' = InsertIfAbsent(rows, key, AutogenPolicy(b))
            /\ cache' = cache \/ cache' = Upsert(cache, key, AutogenPolicy(b))
      BY <1>8, EnsureStep
    <2>2. \A k \in Keys : k # key => rows'[k] = rows[k] /\ cache'[k] = cache[k]
      BY <2>1 DEF InsertIfAbsent, Upsert, TypeOK, Table
    <2> QED BY <2>2, <1>b
  <1> QED
    BY <1>1, <1>2, <1>3, <1>4, <1>5, <1>6, <1>7, <1>8 DEF Next

LEMMA TouchedIsIsolated ==
    ASSUME TouchesOne
    PROVE  \A d, e \in Dbs : d # e => SameIn(d) \/ SameIn(e)
  BY DEF TouchesOne, SameIn

\* No step changes the policies of two databases, whatever statement fails.  A restart, which
\* reads every database, changes at most the one whose mutator it cut short, if the cache is
\* the table but for that.
THEOREM DatabasesAreIsolated ==
    ASSUME \/ "crash" \notin Faults
           \/ Faults \subseteq {"crash", "countFails", "reloadFails"} /\ ClauseErrors = {}
    PROVE  Spec => PerDatabaseIsolation
  <1> DEFINE Isolated == \A d, e \in Dbs : d # e => SameIn(d) \/ SameIn(e)
  <1>1. CASE "crash" \notin Faults
    <2>1. TypeOK /\ [Next]_vars => [Isolated]_vars
      BY <1>1, OneTouched, TouchedIsIsolated DEF CrashRestart
    <2> QED BY <2>1, TypeCorrect, PTL DEF Spec, PerDatabaseIsolation
  <1>2. CASE Faults \subseteq {"crash", "countFails", "reloadFails"} /\ ClauseErrors = {}
    <2>1. TypeOK /\ CacheMatchesTable /\ HalfwayInStep /\ [Next]_vars => [Isolated]_vars
      <3> SUFFICES ASSUME TypeOK, CacheMatchesTable, HalfwayInStep, Next PROVE Isolated
        OBVIOUS
      <3>1. CASE ~CrashRestart
        BY <3>1, OneTouched, TouchedIsIsolated
      <3>2. CASE CrashRestart
        <4>1. cache' = rows /\ rows' = rows
          BY <3>2 DEF CrashRestart
        <4>2. CASE cache = rows
          BY <4>1, <4>2 DEF SameIn
        <4>3. CASE cache # rows
          <5>1. pending \in SetDefaults /\ pending.op = "setDefault"
            BY <4>3 DEF TypeOK, Upserts, SetDefaults, CacheMatchesTable, HalfwayInStep
          <5>2. pending.key[1] \in Dbs /\ rows = ClearDefaults(cache, pending.key[1])
            BY <5>1, KeyDb DEF SetDefaults, HalfwayInStep
          <5>3. TouchesOne
            BY <4>1, <5>2 DEF ClearDefaults, TouchesOne
          <5> QED BY <5>3, TouchedIsIsolated
        <4> QED BY <4>2, <4>3
      <3> QED BY <3>1, <3>2
    <2>2. Spec => [](CacheMatchesTable /\ HalfwayInStep)
      BY <1>2, CacheIsTable
    <2> QED BY <2>1, <2>2, TypeCorrect, PTL DEF Spec, PerDatabaseIsolation
  <1> QED BY <1>1, <1>2

=============================================================================
