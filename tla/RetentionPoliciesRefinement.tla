---------------------- MODULE RetentionPoliciesRefinement ----------------------
(***************************************************************************)
(* The proof that the policy store implements PolicyRegistry, for any sets *)
(* of databases, names and durations, while no writing statement fails.    *)
(***************************************************************************)
EXTENDS RetentionPoliciesProofs

USE NameAssumption, DurationAssumption, TokenAssumption, FaultAssumption,
    NoPolicyAssumption

Lengths == Durations \cup Shards \cup {0}

\* A policy whose lengths are those of some clause.
LegalPolicy(p) == p.dur \in Lengths /\ p.shard \in Lengths

\* What the steps from a stored policy to a registered one need: lengths come from clauses,
\* and CreatePolicy has checked the one it is about to store.
Legal ==
    /\ \A k \in Keys : rows[k] # NoPolicy => LegalPolicy(rows[k])
    /\ \A k \in Keys : cache[k] # NoPolicy => LegalPolicy(cache[k])
    /\ pending.op = "upsert" => LegalPolicy(pending.policy) /\ LongEnough(pending.policy.dur)

-----------------------------------------------------------------------------
\* Statements that change flags only keep the lengths.
LEMMA FlagsKeepLengths ==
    ASSUME NEW t \in Table, NEW u \in Table, NEW db \in Dbs, NEW key \in Keys,
           \A k \in Keys : t[k] # NoPolicy => LegalPolicy(t[k])
    PROVE  /\ \A k \in Keys : ClearDefaults(t, db)[k] # NoPolicy
                                => LegalPolicy(ClearDefaults(t, db)[k])
           /\ \A k \in Keys : MarkDefault(t, key)[k] # NoPolicy
                                => LegalPolicy(MarkDefault(t, key)[k])
           /\ \A k \in Keys : ReloadDefaults(t, u, db)[k] # NoPolicy
                                => LegalPolicy(ReloadDefaults(t, u, db)[k])
  <1>1. ASSUME NEW k \in Keys, t[k] # NoPolicy, NEW b \in BOOLEAN
        PROVE  LegalPolicy([t[k] EXCEPT !.dflt = b])
    BY <1>1 DEF Table, Policy, LegalPolicy
  <1>2. ASSUME NEW k \in Keys, u[k] # NoPolicy
        PROVE  u[k].dflt \in BOOLEAN
    BY <1>2 DEF Table, Policy
  <1> QED BY <1>1, <1>2 DEF ClearDefaults, MarkDefault, ReloadDefaults

\* A policy whose lengths are replaced by legal ones is legal.
LEMMA ChangedLengths ==
    ASSUME NEW p \in Policy, NEW d \in Lengths, NEW s \in Lengths
    PROVE  /\ [p EXCEPT !.dur = d, !.shard = s] \in Policy
           /\ LegalPolicy([p EXCEPT !.dur = d, !.shard = s])
           /\ [p EXCEPT !.dur = d] \in Policy
           /\ LegalPolicy(p) => LegalPolicy([p EXCEPT !.dur = d])
  <1>1. d \in Int /\ s \in Int
    BY DEF Lengths
  <1> QED BY <1>1 DEF Policy, LegalPolicy

\* Inserting a legal policy keeps them, too.
LEMMA InsertedIsLegal ==
    ASSUME NEW t \in Table, NEW key \in Keys, NEW p \in Policy, LegalPolicy(p),
           \A k \in Keys : t[k] # NoPolicy => LegalPolicy(t[k])
    PROVE  /\ \A k \in Keys : Upsert(t, key, p)[k] # NoPolicy => LegalPolicy(Upsert(t, key, p)[k])
           /\ \A k \in Keys : InsertIfAbsent(t, key, p)[k] # NoPolicy
                                => LegalPolicy(InsertIfAbsent(t, key, p)[k])
  BY DEF Upsert, InsertIfAbsent, Table

\* Whatever fails, stored and cached lengths are those of clauses, and those CreatePolicy is
\* about to store have passed its check.
LEMMA LengthsAreLegal == Spec => []Legal
  <1>1. Init => Legal
    BY DEF Init, Legal, Idle
  <1>2. TypeOK /\ TypeOK' /\ Legal /\ [Next]_vars => Legal'
    <2> SUFFICES ASSUME TypeOK, TypeOK', Legal, [Next]_vars PROVE Legal'
      OBVIOUS
    <2>t. rows \in Table /\ cache \in Table /\ rows' \in Table /\ cache' \in Table
      BY DEF TypeOK
    <2>a. ASSUME \A k \in Keys : rows'[k] # NoPolicy => LegalPolicy(rows'[k]),
                 \A k \in Keys : cache'[k] # NoPolicy => LegalPolicy(cache'[k]),
                 pending' # pending => pending'.op # "upsert"
          PROVE  Legal'
      BY <2>a DEF Legal, LegalPolicy, LongEnough
    <2>1. ASSUME NEW db \in Dbs, NEW name \in Names, NEW d \in Durations,
                 NEW s \in Shards \cup {Omitted}, NEW dflt \in BOOLEAN,
                 CreatePolicy(db, name, d, s, dflt)
          PROVE  Legal'
      <3>1. rows' \in {rows, ClearDefaults(rows, db)} /\ cache' \in {cache, ClearDefaults(cache, db)}
        BY <2>1 DEF CreatePolicy
      <3>2. LegalPolicy([dur |-> d, shard |-> ShardOf(s), dflt |-> dflt])
        BY DEF LegalPolicy, ShardOf, Lengths
      <3>3. /\ LongEnough(d)
            /\ \/ pending' = pending
               \/ pending' = [op |-> "upsert", key |-> <<db, name>>,
                              policy |-> [dur |-> d, shard |-> ShardOf(s), dflt |-> dflt]]
        BY <2>1 DEF CreatePolicy
      <3>4. pending'.op = "upsert" => LegalPolicy(pending'.policy) /\ LongEnough(pending'.policy.dur)
        BY <3>2, <3>3 DEF Legal
      <3>5. <<db, name>> \in Keys
        BY KeyParts
      <3> QED BY <3>1, <3>4, <3>5, <2>t, FlagsKeepLengths DEF Legal, LegalPolicy
    <2>2. ASSUME NEW db \in Dbs, NEW name \in Names, NEW d \in Durations \cup {Omitted},
                 NEW s \in Shards \cup {Omitted} \cup ClauseErrors,
                 AlterPolicy(db, name, d, s)
          PROVE  Legal'
      <3> DEFINE key == <<db, name>>
      <3>1. key \in Keys /\ cache[key] \in Policy /\ LegalPolicy(cache[key])
        BY <2>2, <2>t, KeyParts DEF AlterPolicy, Table, Legal
      <3>2. /\ \A k \in Keys \ {key} : rows'[k] = rows[k] /\ cache'[k] = cache[k]
            /\ pending' = pending
        BY <2>2, <2>t DEF AlterPolicy, Table
      <3>3. OrKeep(d, cache[key].dur) \in Lengths
        BY <3>1 DEF OrKeep, Lengths, LegalPolicy
      <3>4. s \notin ClauseErrors => OrKeep(s, cache[key].shard) \in Lengths
        BY <3>1 DEF OrKeep, Lengths, LegalPolicy
      <3>5. cache'[key] # NoPolicy /\ LegalPolicy(cache'[key])
        <4>1. CASE s \in ClauseErrors
          <5>1. cache' = [cache EXCEPT ![key] = [cache[key] EXCEPT !.dur = OrKeep(d, cache[key].dur)]]
            BY <2>2, <4>1, <3>1, <2>t DEF AlterPolicy, Table
          <5>2. cache'[key] = [cache[key] EXCEPT !.dur = OrKeep(d, cache[key].dur)]
            BY <5>1, <3>1, <2>t DEF Table
          <5>3. ASSUME NEW x \in Lengths
                PROVE  LET p == [cache[key] EXCEPT !.dur = x] IN p \in Policy /\ LegalPolicy(p)
            BY <3>1, ChangedLengths
          <5>4. cache'[key] \in Policy /\ LegalPolicy(cache'[key])
            BY <5>2, <5>3, <3>3, Zenon
          <5> QED BY <5>4
        <4>2. CASE s \notin ClauseErrors
          <5>1. cache' = [cache EXCEPT ![key] = [cache[key] EXCEPT !.dur = OrKeep(d, cache[key].dur),
                                                        !.shard = OrKeep(s, cache[key].shard)]]
            BY <2>2, <4>2, <3>1, <2>t DEF AlterPolicy, Table
          <5>2. cache'[key] = [cache[key] EXCEPT !.dur = OrKeep(d, cache[key].dur),
                                                 !.shard = OrKeep(s, cache[key].shard)]
            BY <5>1, <3>1, <2>t DEF Table
          <5>3. OrKeep(s, cache[key].shard) \in Lengths
            BY <3>4, <4>2
          <5>4. ASSUME NEW x \in Lengths, NEW y \in Lengths
                PROVE  LET p == [cache[key] EXCEPT !.dur = x, !.shard = y]
                       IN p \in Policy /\ LegalPolicy(p)
            BY <3>1, ChangedLengths
          <5>5. cache'[key] \in Policy /\ LegalPolicy(cache'[key])
            BY <5>2, <5>3, <5>4, <3>3, Zenon
          <5> QED BY <5>5
        <4> QED BY <4>1, <4>2
      <3>6. rows'[key] # NoPolicy => LegalPolicy(rows'[key])
        <4>1. CASE rows' = rows
          BY <4>1, <3>1 DEF Legal
        <4>2. CASE rows' # rows
          <5>1. /\ rows[key] # NoPolicy
                /\ rows' = [rows EXCEPT ![key] = [rows[key] EXCEPT !.dur = cache'[key].dur,
                                                                  !.shard = cache'[key].shard]]
            BY <2>2, <4>2, <3>1, <2>t DEF AlterPolicy, Table
          <5>2. rows'[key] = [rows[key] EXCEPT !.dur = cache'[key].dur,
                                               !.shard = cache'[key].shard]
            BY <5>1, <3>1, <2>t DEF Table
          <5>3. rows[key] \in Policy
            BY <5>1, <3>1, <2>t DEF Table
          <5> QED BY <5>2, <5>3, <3>5 DEF LegalPolicy, Policy
        <4> QED BY <4>1, <4>2
      <3> QED BY <3>1, <3>2, <3>5, <3>6, <2>a DEF Legal
    <2>3. ASSUME NEW db \in Dbs, NEW name \in Names, SetDefault(db, name)
          PROVE  Legal'
      <3>1. /\ rows' \in {rows, ClearDefaults(rows, db)} /\ cache' = cache
            /\ pending' # pending => pending'.op # "upsert"
        BY <2>3 DEF SetDefault, Idle
      <3>2. <<db, name>> \in Keys
        BY KeyParts
      <3> QED BY <3>1, <3>2, <2>a, <2>t, FlagsKeepLengths DEF Legal
    <2>4. ASSUME NEW db \in Dbs, NEW name \in Names, DropPolicy(db, name)
          PROVE  Legal'
      <3>1. /\ \A k \in Keys : rows'[k] \in {rows[k], NoPolicy} /\ cache'[k] \in {cache[k], NoPolicy}
            /\ pending' = pending
        BY <2>4, <2>t DEF DropPolicy, Table
      <3> QED BY <3>1, <2>a DEF Legal
    <2>5. CASE CreatePolicyUpsert
      <3> DEFINE key == pending.key
                 p == pending.policy
      <3>a. TypeOK /\ CreatePolicyUpsert
        BY <2>5
      <3>1. /\ pending.op = "upsert" /\ key \in Keys /\ p \in Policy
            /\ key[1] \in Dbs /\ pending' = Idle
            /\ rows' = rows \/ rows' = Upsert(rows, key, p)
            /\ \/ cache' = cache \/ cache' = Upsert(cache, key, p)
               \/ cache' = ReloadDefaults(Upsert(cache, key, p), rows', key[1])
        BY <3>a, UpsertStep DEF CreatePolicyUpsert
      <3>2. LegalPolicy(p)
        BY <3>1 DEF Legal
      <3> HIDE DEF key, p
      <3>3. Upsert(cache, key, p) \in Table
        BY <3>1, <2>t, UpsertTable
      <3>4. \A k \in Keys : Upsert(cache, key, p)[k] # NoPolicy => LegalPolicy(Upsert(cache, key, p)[k])
        BY <3>1, <3>2, <2>t, InsertedIsLegal DEF Legal
      <3>5. \A k \in Keys : rows'[k] # NoPolicy => LegalPolicy(rows'[k])
        BY <3>1, <3>2, <2>t, InsertedIsLegal DEF Legal
      <3>6. \A k \in Keys : cache'[k] # NoPolicy => LegalPolicy(cache'[k])
        BY <3>1, <3>3, <3>4, <2>t, FlagsKeepLengths DEF Legal
      <3>7. pending'.op # "upsert"
        BY <3>1 DEF Idle
      <3> QED BY <3>5, <3>6, <3>7, <2>a
    <2>6. CASE SetDefaultMark
      <3>1. pending.key \in Keys /\ pending.key[1] \in Dbs
        BY <2>6, KeyDb DEF SetDefaultMark, TypeOK, Idle, Upserts, SetDefaults
      <3>2. /\ rows' = rows \/ rows' = MarkDefault(rows, pending.key)
            /\ \/ cache' = cache
               \/ cache' = MarkDefault(ClearDefaults(cache, pending.key[1]), pending.key)
            /\ pending' = Idle
        BY <2>6 DEF SetDefaultMark
      <3>3. ClearDefaults(cache, pending.key[1]) \in Table
        BY <3>1, <2>t, ClearDefaultsTable
      <3>4. \A k \in Keys : ClearDefaults(cache, pending.key[1])[k] # NoPolicy
                              => LegalPolicy(ClearDefaults(cache, pending.key[1])[k])
        BY <3>1, <2>t, FlagsKeepLengths DEF Legal
      <3>5. \A k \in Keys : cache'[k] # NoPolicy => LegalPolicy(cache'[k])
        BY <3>1, <3>2, <3>3, <3>4, FlagsKeepLengths DEF Legal
      <3>6. \A k \in Keys : rows'[k] # NoPolicy => LegalPolicy(rows'[k])
        BY <3>1, <3>2, <2>t, FlagsKeepLengths DEF Legal
      <3>7. pending'.op # "upsert"
        BY <3>2 DEF Idle
      <3> QED BY <3>5, <3>6, <3>7, <2>a
    <2>7. ASSUME NEW db \in Dbs, DropDatabasePolicies(db)
          PROVE  Legal'
      <3>1. /\ \A k \in Keys : rows'[k] \in {rows[k], NoPolicy} /\ cache'[k] \in {cache[k], NoPolicy}
            /\ pending' = pending
        BY <2>7 DEF DropDatabasePolicies, DeleteDb
      <3> QED BY <3>1, <2>a DEF Legal
    <2>8. ASSUME NEW db \in Dbs, EnsureDatabasePolicies(db)
          PROVE  Legal'
      <3> DEFINE key == <<db, Autogen>>
      <3>1. key \in Keys /\ pending' = Idle
        BY <2>8, EnsureStep
      <3>2. PICK b \in BOOLEAN :
              /\ rows' = rows \/ rows' = InsertIfAbsent(rows, key, AutogenPolicy(b))
              /\ cache' = cache \/ cache' = Upsert(cache, key, AutogenPolicy(b))
        BY <2>8, EnsureStep
      <3>3. AutogenPolicy(b) \in Policy /\ LegalPolicy(AutogenPolicy(b))
        BY DEF AutogenPolicy, Policy, LegalPolicy, Lengths
      <3>4. pending'.op # "upsert"
        BY <3>1 DEF Idle
      <3> HIDE DEF key
      <3> QED BY <3>1, <3>2, <3>3, <3>4, <2>a, <2>t, InsertedIsLegal DEF Legal
    <2>9. CASE CrashRestart
      BY <2>9, <2>a DEF CrashRestart, Legal, Idle
    <2>10. CASE UNCHANGED vars
      BY <2>10, <2>a DEF vars, Legal
    <2> QED
      BY <2>1, <2>2, <2>3, <2>4, <2>5, <2>6, <2>7, <2>8, <2>9, <2>10 DEF Next
  <1> QED BY <1>1, <1>2, TypeCorrect, PTL DEF Spec

-----------------------------------------------------------------------------
\* A mutator between its two statements has left its database without a default, whatever
\* fails: ClearedBeforeGranted does not need the COUNTs that OneDefaultRow needs.
THEOREM ReplacedIsCleared == Spec => []ClearedBeforeGranted
  <1>1. Init => ClearedBeforeGranted
    BY DEF Init, ClearedBeforeGranted, Idle
  <1>2. TypeOK /\ ClearedBeforeGranted /\ [Next]_vars => ClearedBeforeGranted'
    <2> SUFFICES ASSUME TypeOK, ClearedBeforeGranted, [Next]_vars
                 PROVE  ClearedBeforeGranted'
      OBVIOUS
    <2>a. ASSUME pending' = Idle PROVE ClearedBeforeGranted'
      BY <2>a DEF ClearedBeforeGranted, Idle
    <2>b. ASSUME pending = Idle, pending' = pending PROVE ClearedBeforeGranted'
      BY <2>a, <2>b
    <2>1. ASSUME NEW db \in Dbs, NEW name \in Names, NEW d \in Durations,
                 NEW s \in Shards \cup {Omitted}, NEW dflt \in BOOLEAN,
                 CreatePolicy(db, name, d, s, dflt)
          PROVE  ClearedBeforeGranted'
      <3>1. \/ pending = Idle /\ pending' = pending
            \/ /\ rows' = IF dflt THEN ClearDefaults(rows, db) ELSE rows
               /\ pending' = [op |-> "upsert", key |-> <<db, name>>,
                              policy |-> [dur |-> d, shard |-> ShardOf(s), dflt |-> dflt]]
        BY <2>1 DEF CreatePolicy, Executed
      <3>2. DefaultsOf(ClearDefaults(rows, db), db) = {}
        BY ClearDefaultsTable DEF TypeOK
      <3> QED BY <3>1, <3>2, <2>b DEF ClearedBeforeGranted
    <2>2. ASSUME NEW db \in Dbs, NEW name \in Names, SetDefault(db, name)
          PROVE  ClearedBeforeGranted'
      <3>1. \/ pending' = Idle
            \/ /\ rows' = ClearDefaults(rows, db)
               /\ pending' = [op |-> "setDefault", key |-> <<db, name>>]
        BY <2>2 DEF SetDefault, Executed
      <3>2. DefaultsOf(ClearDefaults(rows, db), db) = {}
        BY ClearDefaultsTable DEF TypeOK
      <3> QED BY <3>1, <3>2, <2>a DEF ClearedBeforeGranted
    <2>3. ASSUME NEW db \in Dbs, NEW name \in Names, NEW d \in Durations \cup {Omitted},
                 NEW s \in Shards \cup {Omitted} \cup ClauseErrors,
                 AlterPolicy(db, name, d, s)
          PROVE  ClearedBeforeGranted'
      BY <2>3, <2>b DEF AlterPolicy
    <2>4. ASSUME NEW db \in Dbs, DropDatabasePolicies(db) \/ EnsureDatabasePolicies(db)
                                 \/ \E name \in Names : DropPolicy(db, name)
          PROVE  ClearedBeforeGranted'
      BY <2>4, <2>b DEF DropDatabasePolicies, EnsureDatabasePolicies, DropPolicy
    <2>5. CASE CreatePolicyUpsert \/ SetDefaultMark \/ CrashRestart
      BY <2>5, <2>a DEF CreatePolicyUpsert, SetDefaultMark, CrashRestart
    <2>6. CASE UNCHANGED vars
      BY <2>6 DEF vars, ClearedBeforeGranted
    <2> QED BY <2>1, <2>2, <2>3, <2>4, <2>5, <2>6 DEF Next
  <1> QED BY <1>1, <1>2, TypeCorrect, PTL DEF Spec

-----------------------------------------------------------------------------
(* What the statements do to the registry in a table.                       *)

RegisteredIn(t) == [k \in Keys |-> IF t[k] = NoPolicy THEN NoPolicy
                                   ELSE [dur |-> t[k].dur, shard |-> t[k].shard]]
DefaultsIn(t) == {k \in Keys : t[k] # NoPolicy /\ t[k].dflt}

\* A key is registered where the table has a row.
LEMMA RegisteredKeys ==
    ASSUME NEW t \in Table, NEW k \in Keys
    PROVE  /\ (RegisteredIn(t)[k] = NoPolicy) = (t[k] = NoPolicy)
           /\ t[k] # NoPolicy => RegisteredIn(t)[k] = [dur |-> t[k].dur, shard |-> t[k].shard]
  <1>1. ASSUME t[k] # NoPolicy
        PROVE  [dur |-> t[k].dur, shard |-> t[k].shard] # NoPolicy
    BY <1>1 DEF Table, Policy, Registration
  <1> QED BY <1>1 DEF RegisteredIn

\* The UPDATE that clears leaves the defaults of the other databases.
LEMMA ClearedRegistry ==
    ASSUME NEW t \in Table, NEW db \in Dbs
    PROVE  /\ RegisteredIn(ClearDefaults(t, db)) = RegisteredIn(t)
           /\ DefaultsIn(ClearDefaults(t, db)) = {k \in DefaultsIn(t) : k[1] # db}
  <1>1. ASSUME NEW k \in Keys, t[k] # NoPolicy
        PROVE  LET p == [t[k] EXCEPT !.dflt = FALSE]
               IN /\ p # NoPolicy /\ p.dur = t[k].dur /\ p.shard = t[k].shard /\ p.dflt = FALSE
    BY <1>1 DEF Table, Policy
  <1>2. ASSUME NEW k \in Keys
        PROVE  RegisteredIn(ClearDefaults(t, db))[k] = RegisteredIn(t)[k]
    BY <1>1 DEF RegisteredIn, ClearDefaults
  <1>3. RegisteredIn(ClearDefaults(t, db)) = RegisteredIn(t)
    BY <1>2 DEF RegisteredIn
  <1>4. DefaultsIn(ClearDefaults(t, db)) = {k \in DefaultsIn(t) : k[1] # db}
    BY <1>1 DEF DefaultsIn, ClearDefaults
  <1> QED BY <1>3, <1>4

\* The UPDATE that marks adds the default.
LEMMA MarkedRegistry ==
    ASSUME NEW t \in Table, NEW key \in Keys
    PROVE  /\ RegisteredIn(MarkDefault(t, key)) = RegisteredIn(t)
           /\ t[key] # NoPolicy => DefaultsIn(MarkDefault(t, key)) = DefaultsIn(t) \cup {key}
           /\ t[key] = NoPolicy => DefaultsIn(MarkDefault(t, key)) = DefaultsIn(t)
  <1>1. ASSUME t[key] # NoPolicy
        PROVE  LET p == [t[key] EXCEPT !.dflt = TRUE]
               IN /\ p # NoPolicy /\ p.dur = t[key].dur /\ p.shard = t[key].shard /\ p.dflt = TRUE
    BY <1>1 DEF Table, Policy
  <1>2. ASSUME NEW k \in Keys
        PROVE  RegisteredIn(MarkDefault(t, key))[k] = RegisteredIn(t)[k]
    BY <1>1 DEF RegisteredIn, MarkDefault
  <1>3. RegisteredIn(MarkDefault(t, key)) = RegisteredIn(t)
    BY <1>2 DEF RegisteredIn
  <1>4. t[key] # NoPolicy => DefaultsIn(MarkDefault(t, key)) = DefaultsIn(t) \cup {key}
    BY <1>1 DEF DefaultsIn, MarkDefault
  <1>5. t[key] = NoPolicy => DefaultsIn(MarkDefault(t, key)) = DefaultsIn(t)
    BY DEF DefaultsIn, MarkDefault
  <1> QED BY <1>3, <1>4, <1>5

\* The upsert registers its policy, and makes it a default one or not.
LEMMA UpsertedRegistry ==
    ASSUME NEW t \in Table, NEW key \in Keys, NEW p \in Policy
    PROVE  /\ RegisteredIn(Upsert(t, key, p))
                 = [RegisteredIn(t) EXCEPT ![key] = [dur |-> p.dur, shard |-> p.shard]]
           /\ DefaultsIn(Upsert(t, key, p))
                 = IF p.dflt THEN DefaultsIn(t) \cup {key} ELSE DefaultsIn(t) \ {key}
  <1>1. Upsert(t, key, p)[key] = p /\ p # NoPolicy
    BY DEF Upsert, Table
  <1>2. \A k \in Keys \ {key} : Upsert(t, key, p)[k] = t[k]
    BY DEF Upsert, Table
  <1>3. RegisteredIn(Upsert(t, key, p))
          = [RegisteredIn(t) EXCEPT ![key] = [dur |-> p.dur, shard |-> p.shard]]
    <2> DEFINE new == [RegisteredIn(t) EXCEPT ![key] = [dur |-> p.dur, shard |-> p.shard]]
    <2>1. ASSUME NEW k \in Keys PROVE RegisteredIn(Upsert(t, key, p))[k] = new[k]
      BY <1>1, <1>2 DEF RegisteredIn
    <2>2. new = [k \in Keys |-> new[k]]
      BY DEF RegisteredIn
    <2>3. RegisteredIn(Upsert(t, key, p)) = [k \in Keys |-> RegisteredIn(Upsert(t, key, p))[k]]
      BY DEF RegisteredIn
    <2>4. RegisteredIn(Upsert(t, key, p)) = new
      <3> HIDE DEF new
      <3> QED BY <2>1, <2>2, <2>3
    <2> QED BY <2>4
  <1>4. DefaultsIn(Upsert(t, key, p))
          = IF p.dflt THEN DefaultsIn(t) \cup {key} ELSE DefaultsIn(t) \ {key}
    BY <1>1, <1>2 DEF DefaultsIn
  <1> QED BY <1>3, <1>4

-----------------------------------------------------------------------------
\* While no writing statement and no COUNT fails and every clause parses, the stored table
\* moves from one state of the registry to the next by the registry's own operations, through
\* crashes between the statements of a mutator and failed reloads.
THEOREM StoreImplementsRegistry ==
    ASSUME Faults \subseteq {"crash", "reloadFails"}, ClauseErrors = {}
    PROVE  Spec => ImplementsRegistry
  <1> DEFINE Inv == TypeOK /\ Legal /\ CacheMatchesTable /\ HalfwayInStep /\ ClearedBeforeGranted
             Same == Registered' = Registered /\ Defaults' = Defaults
  <1>0. Outcomes = {"ok"}
    BY DEF Outcomes
  <1>1. Init => Registry!Init
    BY DEF Init, Registry!Init, Registered, Defaults, Registry!Keys, Keys
  <1>2. Inv /\ Inv' /\ [Next]_vars => Registry!Next \/ Same
    <2> SUFFICES ASSUME Inv, Inv', [Next]_vars PROVE Registry!Next \/ Same
      OBVIOUS
    <2>t. rows \in Table /\ rows' \in Table
      BY DEF TypeOK
    <2>v. /\ Registered = RegisteredIn(rows) /\ Registered' = RegisteredIn(rows')
          /\ Defaults = DefaultsIn(rows) /\ Defaults' = DefaultsIn(rows')
      BY DEF Registered, Defaults, RegisteredIn, DefaultsIn
    <2>s. ASSUME rows' = rows PROVE Same
      BY <2>s DEF Registered, Defaults
    <2>k. Registry!Keys = Keys
      BY DEF Registry!Keys, Keys
    <2>l. ASSUME NEW db \in Dbs, rows' = ClearDefaults(rows, db) PROVE Registry!Next
      <3>1. Registry!LoseDefault(db)
        BY <2>l, <2>t, <2>v, ClearedRegistry DEF Registry!LoseDefault, Registry!Elsewhere
      <3> QED BY <3>1 DEF Registry!Next
    <2>1. ASSUME NEW db \in Dbs, NEW name \in Names, NEW d \in Durations,
                 NEW s \in Shards \cup {Omitted}, NEW dflt \in BOOLEAN,
                 CreatePolicy(db, name, d, s, dflt)
          PROVE  Registry!Next \/ Same
      <3>1. rows' = rows \/ rows' = ClearDefaults(rows, db)
        BY <2>1 DEF CreatePolicy
      <3> QED BY <3>1, <2>s, <2>l
    <2>2. ASSUME NEW db \in Dbs, NEW name \in Names, SetDefault(db, name)
          PROVE  Registry!Next \/ Same
      <3>1. rows' = rows \/ rows' = ClearDefaults(rows, db)
        BY <2>2 DEF SetDefault
      <3> QED BY <3>1, <2>s, <2>l
    <2>3. CASE CreatePolicyUpsert
      <3> DEFINE key == pending.key
                 p == pending.policy
      <3>1. /\ pending.op = "upsert" /\ key \in Keys /\ p \in Policy /\ key[1] \in Dbs
            /\ rows' = Upsert(rows, key, p)
        BY <2>3, <1>0, UpsertStep DEF CreatePolicyUpsert
      <3>2. LegalPolicy(p) /\ LongEnough(p.dur) /\ p.dur \in Int /\ p.dflt \in BOOLEAN
        BY <3>1 DEF Legal, Policy
      <3>3. p.dflt => DefaultsOf(rows, key[1]) = {}
        BY <3>1 DEF ClearedBeforeGranted
      <3> HIDE DEF key, p
      <3>4. p.dflt => {k \in DefaultsIn(rows) : k[1] # key[1]} = DefaultsIn(rows)
        BY <3>3 DEF DefaultsIn, DefaultsOf
      <3>5. Registry!Lasting(p.dur)
        BY <3>2 DEF Registry!Lasting, LongEnough
      <3>6. Registry!Create(key, p.dur, p.shard, p.dflt)
        BY <3>1, <3>4, <3>5, <2>t, <2>v, UpsertedRegistry DEF Registry!Create, Registry!Elsewhere
      <3>7. p.dur \in Lengths /\ p.shard \in Lengths
        BY <3>2 DEF LegalPolicy
      <3>8. \E b \in BOOLEAN : Registry!Create(key, p.dur, p.shard, b)
        <4>1. PICK b \in BOOLEAN : b = p.dflt
          BY <3>2
        <4> QED BY <4>1, <3>6
      <3>9. key \in Keys /\ \E d, s \in Lengths : \E b \in BOOLEAN : Registry!Create(key, d, s, b)
        BY <3>1, <3>7, <3>8, Zenon
      <3> QED BY <3>9, <2>k DEF Registry!Next, Lengths
    <2>4. CASE SetDefaultMark
      <3> DEFINE key == pending.key
      <3>1. key \in Keys /\ key[1] \in Dbs /\ pending.op = "setDefault"
        BY <2>4, KeyDb DEF SetDefaultMark, TypeOK, Idle, Upserts, SetDefaults
      <3>2. rows' = MarkDefault(rows, key)
        BY <2>4, <1>0 DEF SetDefaultMark, Executed
      <3>3. DefaultsOf(rows, key[1]) = {}
        BY <3>1 DEF ClearedBeforeGranted
      <3> HIDE DEF key
      <3>4. CASE rows[key] = NoPolicy
        BY <3>1, <3>2, <3>4, <2>t, <2>v, MarkedRegistry
      <3>5. CASE rows[key] # NoPolicy
        <4>1. {k \in DefaultsIn(rows) : k[1] # key[1]} = DefaultsIn(rows)
          BY <3>3 DEF DefaultsIn, DefaultsOf
        <4>2. Registered' = Registered /\ Defaults' = Defaults \cup {key}
          BY <3>1, <3>2, <3>5, <2>t, <2>v, MarkedRegistry
        <4>3. Registered[key] # NoPolicy
          BY <3>1, <3>5, <2>t, <2>v, RegisteredKeys
        <4>4. Registry!MakeDefault(key)
          BY <4>1, <4>2, <4>3, <2>v DEF Registry!MakeDefault, Registry!Elsewhere
        <4> QED BY <3>1, <4>4, <2>k DEF Registry!Next
      <3> QED BY <3>4, <3>5
    <2>5. ASSUME NEW db \in Dbs, NEW name \in Names, NEW d \in Durations \cup {Omitted},
                 NEW s \in Shards \cup {Omitted} \cup ClauseErrors,
                 AlterPolicy(db, name, d, s)
          PROVE  Registry!Next \/ Same
      <3> DEFINE key == <<db, name>>
                 new == [dur |-> rows'[key].dur, shard |-> rows'[key].shard]
      <3>1. key \in Keys /\ cache = rows /\ rows[key] # NoPolicy
        BY <2>5, KeyParts DEF AlterPolicy, CacheMatchesTable
      <3>2. /\ \A k \in Keys : /\ (rows'[k] = NoPolicy) <=> (rows[k] = NoPolicy)
                               /\ rows[k] # NoPolicy => (rows'[k].dflt <=> rows[k].dflt)
            /\ \A k \in Keys \ {key} : rows'[k] = rows[k]
        BY <2>5, <2>t, AlterKeeps DEF AlterPolicy, Table
      <3> HIDE DEF key
      <3>3. DefaultsIn(rows') = DefaultsIn(rows)
        <4>1. ASSUME NEW k \in Keys PROVE k \in DefaultsIn(rows') <=> k \in DefaultsIn(rows)
          BY <3>2 DEF DefaultsIn
        <4> QED BY <4>1 DEF DefaultsIn
      <3>4. rows'[key] # NoPolicy /\ rows[key] \in Policy /\ LegalPolicy(rows'[key])
        <4>1. rows'[key] # NoPolicy
          BY <3>1, <3>2
        <4>2. rows[key] \in Policy
          BY <3>1, <2>t DEF Table
        <4> QED BY <3>1, <4>1, <4>2 DEF Legal
      <3>5. new.dur = RegisteredIn(rows)[key].dur \/ Registry!Lasting(new.dur)
        <4>1. rows' = [rows EXCEPT ![key] = [rows[key] EXCEPT !.dur = cache'[key].dur,
                                                            !.shard = cache'[key].shard]]
          BY <2>5, <1>0, <3>1, <2>t DEF AlterPolicy, Executed, Table, key
        <4>2. rows'[key].dur = cache'[key].dur
          BY <4>1, <3>1, <3>4, <2>t DEF Table, Policy
        <4>3. cache' = [cache EXCEPT ![key] = [cache[key] EXCEPT !.dur = OrKeep(d, cache[key].dur),
                                                      !.shard = OrKeep(s, cache[key].shard)]]
          BY <2>5, <3>1 DEF AlterPolicy, TypeOK, Table, key
        <4>4. cache'[key].dur = OrKeep(d, rows[key].dur)
          BY <4>3, <3>1, <3>4, <2>t DEF Table, Policy
        <4>5. d # Omitted => d \in Int /\ LongEnough(d)
          BY <2>5 DEF AlterPolicy
        <4>6. RegisteredIn(rows)[key].dur = rows[key].dur
          <5>1. RegisteredIn(rows)[key] = [dur |-> rows[key].dur, shard |-> rows[key].shard]
            BY <3>1, <2>t, RegisteredKeys
          <5> QED BY <5>1
        <4> QED BY <4>2, <4>4, <4>5, <4>6 DEF OrKeep, Registry!Lasting, LongEnough
      <3>6. RegisteredIn(rows') = [RegisteredIn(rows) EXCEPT ![key] = new]
        <4>1. ASSUME NEW k \in Keys
              PROVE  RegisteredIn(rows')[k] = [RegisteredIn(rows) EXCEPT ![key] = new][k]
          BY <3>2, <3>4 DEF RegisteredIn
        <4> QED BY <4>1 DEF RegisteredIn
      <3>7. Registry!Alter(key, new.dur, new.shard)
        BY <3>1, <3>3, <3>5, <3>6, <2>t, <2>v, RegisteredKeys DEF Registry!Alter
      <3>8. new.dur \in Lengths /\ new.shard \in Lengths
        BY <3>4 DEF LegalPolicy
      <3> HIDE DEF new, key
      <3> QED BY <3>1, <3>7, <3>8, <2>k DEF Registry!Next, Lengths
    <2>6. ASSUME NEW db \in Dbs, NEW name \in Names, DropPolicy(db, name)
          PROVE  Registry!Next \/ Same
      <3> DEFINE key == <<db, name>>
      <3>1. key \in Keys /\ rows[key] # NoPolicy /\ ~rows[key].dflt
        BY <2>6, KeyParts DEF DropPolicy, CacheMatchesTable
      <3>2. rows' = [rows EXCEPT ![key] = NoPolicy]
        BY <2>6, <1>0 DEF DropPolicy, Executed
      <3> HIDE DEF key
      <3>3. rows'[key] = NoPolicy /\ \A k \in Keys \ {key} : rows'[k] = rows[k]
        BY <3>1, <3>2, <2>t DEF Table
      <3>4. RegisteredIn(rows') = [RegisteredIn(rows) EXCEPT ![key] = NoPolicy]
        <4>1. ASSUME NEW k \in Keys
              PROVE  RegisteredIn(rows')[k] = [RegisteredIn(rows) EXCEPT ![key] = NoPolicy][k]
          BY <3>1, <3>3 DEF RegisteredIn
        <4> QED BY <4>1 DEF RegisteredIn
      <3>5. DefaultsIn(rows') = DefaultsIn(rows) /\ key \notin DefaultsIn(rows)
        BY <3>1, <3>3 DEF DefaultsIn
      <3>6. Registry!Drop(key)
        BY <3>1, <3>4, <3>5, <2>t, <2>v, RegisteredKeys DEF Registry!Drop
      <3> QED BY <3>1, <3>6, <2>k DEF Registry!Next
    <2>7. ASSUME NEW db \in Dbs, DropDatabasePolicies(db)
          PROVE  Registry!Next \/ Same
      <3>1. rows' = DeleteDb(rows, db)
        BY <2>7, <1>0 DEF DropDatabasePolicies, Executed
      <3>2. RegisteredIn(rows') = [k \in Keys |-> IF k[1] = db THEN NoPolicy ELSE RegisteredIn(rows)[k]]
        BY <3>1 DEF RegisteredIn, DeleteDb
      <3>3. DefaultsIn(rows') = {k \in DefaultsIn(rows) : k[1] # db}
        BY <3>1 DEF DefaultsIn, DeleteDb
      <3>4. Registry!DropAll(db)
        BY <3>2, <3>3, <2>v, <2>k DEF Registry!DropAll, Registry!Elsewhere
      <3> QED BY <3>4 DEF Registry!Next
    <2>8. ASSUME NEW db \in Dbs, EnsureDatabasePolicies(db)
          PROVE  Registry!Next \/ Same
      <3> DEFINE key == <<db, Autogen>>
      <3>1. key \in Keys /\ key[1] = db /\ rows[key] = NoPolicy
        BY <2>8, KeyParts DEF EnsureDatabasePolicies, CacheMatchesTable
      <3>2. PICK b \in BOOLEAN : /\ b = (DefaultsOf(rows, db) = {})
                                 /\ rows' = InsertIfAbsent(rows, key, AutogenPolicy(b))
        <4>1. PICK countOk \in {TRUE, "countFails" \notin Faults} :
                 rows' = InsertIfAbsent(rows, key, AutogenPolicy(countOk => DefaultsOf(rows, db) = {}))
          BY <2>8, <1>0 DEF EnsureDatabasePolicies, Executed
        <4>2. countOk = TRUE
          OBVIOUS
        <4>3. PICK b \in BOOLEAN : b = (DefaultsOf(rows, db) = {})
          OBVIOUS
        <4>4. (countOk => DefaultsOf(rows, db) = {}) = b
          BY <4>2, <4>3
        <4> QED BY <4>1, <4>3, <4>4, Zenon
      <3>3. AutogenPolicy(b) \in Policy /\ AutogenPolicy(b) = [dur |-> 0, shard |-> 0, dflt |-> b]
        BY DEF AutogenPolicy, Policy
      <3>4. rows' = Upsert(rows, key, AutogenPolicy(b))
        BY <3>1, <3>2 DEF InsertIfAbsent, Upsert
      <3> HIDE DEF key
      <3>5. /\ RegisteredIn(rows') = [RegisteredIn(rows) EXCEPT ![key] = [dur |-> 0, shard |-> 0]]
            /\ DefaultsIn(rows') = IF b THEN DefaultsIn(rows) \cup {key} ELSE DefaultsIn(rows) \ {key}
        <4>1. /\ AutogenPolicy(b).dur = 0 /\ AutogenPolicy(b).shard = 0
              /\ AutogenPolicy(b).dflt = b
          BY <3>3
        <4> DEFINE p == AutogenPolicy(b)
        <4>2. /\ RegisteredIn(Upsert(rows, key, p))
                   = [RegisteredIn(rows) EXCEPT ![key] = [dur |-> p.dur, shard |-> p.shard]]
              /\ DefaultsIn(Upsert(rows, key, p))
                   = IF p.dflt THEN DefaultsIn(rows) \cup {key} ELSE DefaultsIn(rows) \ {key}
          BY <3>1, <3>3, <2>t, UpsertedRegistry
        <4> QED BY <3>4, <4>1, <4>2
      <3>6. key \notin DefaultsIn(rows)
        BY <3>1 DEF DefaultsIn
      <3>7. b <=> {k \in DefaultsIn(rows) : k[1] # db} = DefaultsIn(rows)
        BY <3>2 DEF DefaultsIn, DefaultsOf
      <3>8. RegisteredIn(rows)[key] = NoPolicy
        BY <3>1, <2>t, RegisteredKeys
      <3>9. Registry!GiveAutogen(db)
        BY <3>5, <3>6, <3>7, <3>8, <2>v DEF Registry!GiveAutogen, Registry!Elsewhere, key
      <3> QED BY <3>9 DEF Registry!Next
    <2>9. CASE CrashRestart
      BY <2>9, <2>s DEF CrashRestart
    <2>10. CASE UNCHANGED vars
      BY <2>10, <2>s DEF vars
    <2> QED
      BY <2>1, <2>2, <2>3, <2>4, <2>5, <2>6, <2>7, <2>8, <2>9, <2>10 DEF Next
  <1>3. Inv /\ Inv' /\ [Next]_vars => [Registry!Next]_<<Registered, Defaults>>
    BY <1>2
  <1>4. Spec => [](CacheMatchesTable /\ HalfwayInStep)
    BY CacheIsTable
  <1> QED BY <1>1, <1>3, <1>4, TypeCorrect, LengthsAreLegal, ReplacedIsCleared, PTL
          DEF Spec, ImplementsRegistry, Registry!Spec

-----------------------------------------------------------------------------
(* What the registry promises of the defaults.                              *)

LEMMA RegistryStep == Registry!OneDefault /\ Registry!Next => Registry!OneDefault'
  <1> SUFFICES ASSUME Registry!OneDefault, Registry!Next PROVE Registry!OneDefault'
    OBVIOUS
  <1> USE DEF Registry!OneDefault
  \* The operations shrink the defaults, or make one the only one of its database.
  <1>1. ASSUME NEW key \in Registry!Keys, Defaults' = Registry!Elsewhere(key[1]) \cup {key}
        PROVE  Registry!OneDefault'
    BY <1>1 DEF Registry!Elsewhere
  <1>2. ASSUME Defaults' \subseteq Defaults PROVE Registry!OneDefault'
    BY <1>2
  <1>3. ASSUME NEW key \in Registry!Keys, NEW d, NEW shard, NEW b \in BOOLEAN,
               Registry!Create(key, d, shard, b)
        PROVE  Registry!OneDefault'
    BY <1>1, <1>2, <1>3 DEF Registry!Create
  <1>4. ASSUME NEW key \in Registry!Keys, NEW d, NEW shard,
               Registry!Alter(key, d, shard) \/ Registry!MakeDefault(key) \/ Registry!Drop(key)
        PROVE  Registry!OneDefault'
    BY <1>1, <1>2, <1>4 DEF Registry!Alter, Registry!MakeDefault, Registry!Drop
  <1>5. ASSUME NEW db \in Dbs, Registry!LoseDefault(db) \/ Registry!DropAll(db)
        PROVE  Registry!OneDefault'
    BY <1>2, <1>5 DEF Registry!LoseDefault, Registry!DropAll, Registry!Elsewhere
  <1>6. ASSUME NEW db \in Dbs, Registry!GiveAutogen(db) PROVE Registry!OneDefault'
    <2> DEFINE key == <<db, Autogen>>
    <2>1. key \in Registry!Keys /\ key[1] = db
      BY DEF Registry!Keys
    <2>2. CASE Registry!Elsewhere(db) = Defaults
      <3>1. Defaults' = Registry!Elsewhere(key[1]) \cup {key}
        BY <1>6, <2>1, <2>2 DEF Registry!GiveAutogen
      <3> HIDE DEF key
      <3> QED BY <1>1, <2>1, <3>1
    <2>3. CASE Registry!Elsewhere(db) # Defaults
      BY <1>2, <1>6, <2>3 DEF Registry!GiveAutogen
    <2> QED BY <2>2, <2>3
  <1> QED BY <1>3, <1>4, <1>5, <1>6 DEF Registry!Next

\* A database of the registry has one default or none, whatever its operations and those that
\* are cut short: GiveAutogen asks before it gives one.
THEOREM RegistryHasOneDefault == Registry!Spec => []Registry!OneDefault
  <1>1. Registry!Init => Registry!OneDefault
    BY DEF Registry!Init, Registry!OneDefault
  <1>2. Registry!OneDefault /\ [Registry!Next]_<<Registered, Defaults>> => Registry!OneDefault'
    <2> SUFFICES ASSUME Registry!OneDefault, UNCHANGED <<Registered, Defaults>>
                 PROVE  Registry!OneDefault'
      BY RegistryStep
    <2> QED BY DEF Registry!OneDefault
  <1> QED BY <1>1, <1>2, PTL DEF Registry!Spec

=============================================================================
