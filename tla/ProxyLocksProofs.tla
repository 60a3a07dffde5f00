--------------------------- MODULE ProxyLocksProofs ---------------------------
(***************************************************************************)
(* Proofs about ProxyLocks, for any number of goroutines and any of the    *)
(* handlers.  What a goroutine holds after each operation of a handler is  *)
(* found handler by handler, as one reads the code (Runs); the invariant   *)
(* says that what the goroutine really holds is what the rest of its code  *)
(* expects.                                                                *)
(***************************************************************************)
EXTENDS ProxyLocks, TLAPS

\* The locks of one goroutine: the read locks it has on each mutex, or -1 for the write
\* lock.
Locks == [Mutexes -> -1 .. 2]
Holding(meta, rs) == [m \in Mutexes |-> IF m = "meta" THEN meta ELSE rs]
Nothing == Holding(0, 0)

Ops == [do : {"RLock", "RUnlock", "Lock", "Unlock"}, on : Mutexes]
       \cup [do : {"read", "write"}, on : Data]

\* The mutex that guards a map.  The slices of a schema are also read without one.
Maps == {"databases", "tables", "policies"}
GuardOf(map) == IF map = "policies" THEN "rs" ELSE "meta"

\* What the handlers observe: m.mu comes before rs.mu, except that a sync asks for either in
\* reading while it reads rs.mu; nothing is asked for under a write lock of rs.mu; and maps
\* are touched under their mutex.
Allowed(o, x) ==
    /\ o.do = "RLock" => IF o.on = "meta" THEN x["meta"] = 0 /\ x["rs"] >= 0
                                          ELSE x["rs"] \in 0 .. 1
    /\ o.do = "RUnlock" => x[o.on] > 0
    /\ o.do = "Lock" => x[o.on] = 0 /\ x["rs"] = 0
    /\ o.do = "Unlock" => x[o.on] = -1
    /\ o.do = "read" /\ o.on \in Maps => x[GuardOf(o.on)] # 0
    /\ o.do = "write" /\ o.on \in Maps => x[GuardOf(o.on)] = -1

After(o, x) ==
    IF o.do = "RLock" THEN [x EXCEPT ![o.on] = @ + 1]
    ELSE IF o.do = "RUnlock" THEN [x EXCEPT ![o.on] = @ - 1]
    ELSE IF o.do = "Lock" THEN [x EXCEPT ![o.on] = -1]
    ELSE IF o.do = "Unlock" THEN [x EXCEPT ![o.on] = 0]
    ELSE x

\* Operations s, begun with the locks x, are all allowed and end with the locks y.
Runs(s, x, y) ==
    /\ s \in Seq(Ops)
    /\ \E h \in [1 .. Len(s) + 1 -> Locks] :
          /\ h[1] = x /\ h[Len(s) + 1] = y
          /\ \A i \in 1 .. Len(s) : Allowed(s[i], h[i]) /\ h[i + 1] = After(s[i], h[i])

-----------------------------------------------------------------------------
(* Operations in sequence.                                                  *)

LEMMA AfterIsLocks ==
    ASSUME NEW o \in Ops, NEW x \in Locks, Allowed(o, x)
    PROVE  After(o, x) \in Locks
  BY DEF Ops, Locks, Allowed, After, Mutexes

LEMMA RunsOne ==
    ASSUME NEW o \in Ops, NEW x \in Locks, Allowed(o, x)
    PROVE  Runs(<<o>>, x, After(o, x))
  <1> DEFINE h == [i \in 1 .. 2 |-> IF i = 1 THEN x ELSE After(o, x)]
  <1>1. <<o>> \in Seq(Ops) /\ Len(<<o>>) = 1 /\ <<o>>[1] = o
    OBVIOUS
  <1>2. h \in [1 .. 2 -> Locks] /\ h[1] = x /\ h[2] = After(o, x)
    BY AfterIsLocks
  <1> HIDE DEF h
  <1> QED BY <1>1, <1>2 DEF Runs

LEMMA RunsThen ==
    ASSUME NEW s, NEW t, NEW x, NEW y, NEW z, Runs(s, x, y), Runs(t, y, z)
    PROVE  Runs(s \o t, x, z)
  <1>1. PICK h \in [1 .. Len(s) + 1 -> Locks] :
           /\ h[1] = x /\ h[Len(s) + 1] = y
           /\ \A i \in 1 .. Len(s) : Allowed(s[i], h[i]) /\ h[i + 1] = After(s[i], h[i])
    BY DEF Runs
  <1>2. PICK k \in [1 .. Len(t) + 1 -> Locks] :
           /\ k[1] = y /\ k[Len(t) + 1] = z
           /\ \A i \in 1 .. Len(t) : Allowed(t[i], k[i]) /\ k[i + 1] = After(t[i], k[i])
    BY DEF Runs
  <1>3. /\ s \in Seq(Ops) /\ t \in Seq(Ops) /\ s \o t \in Seq(Ops)
        /\ Len(s) \in Nat /\ Len(t) \in Nat /\ Len(s \o t) = Len(s) + Len(t)
        /\ \A i \in 1 .. Len(s) : (s \o t)[i] = s[i]
        /\ \A i \in 1 .. Len(t) : (s \o t)[Len(s) + i] = t[i]
    BY DEF Runs
  <1> DEFINE n == Len(s)
             w == [i \in 1 .. n + Len(t) + 1 |-> IF i <= n THEN h[i] ELSE k[i - n]]
  <1>4. /\ w \in [1 .. n + Len(t) + 1 -> Locks]
        /\ \A i \in 1 .. n + 1 : w[i] = h[i]
        /\ \A i \in 1 .. Len(t) + 1 : w[n + i] = k[i]
    <2>1. \A i \in 1 .. n + Len(t) + 1 : i <= n => i \in 1 .. n + 1
      BY <1>3
    <2>2. \A i \in 1 .. n + Len(t) + 1 : ~(i <= n) => i - n \in 1 .. Len(t) + 1
      BY <1>3
    <2>3. w \in [1 .. n + Len(t) + 1 -> Locks]
      BY <2>1, <2>2
    <2>4. \A i \in 1 .. n + 1 : w[i] = h[i]
      <3>1. ASSUME NEW i \in 1 .. n PROVE w[i] = h[i]
        BY <1>3
      <3>2. w[n + 1] = k[1]
        BY <1>3
      <3> QED BY <1>1, <1>2, <1>3, <3>1, <3>2
    <2>5. ASSUME NEW i \in 1 .. Len(t) + 1 PROVE w[n + i] = k[i]
      BY <1>3
    <2> QED BY <2>3, <2>4, <2>5
  <1> HIDE DEF w
  <1>5. ASSUME NEW i \in 1 .. n + Len(t)
        PROVE  Allowed((s \o t)[i], w[i]) /\ w[i + 1] = After((s \o t)[i], w[i])
    <2>1. CASE i <= n
      <3>1. i \in 1 .. n /\ i \in 1 .. n + 1 /\ i + 1 \in 1 .. n + 1
        BY <1>3, <2>1
      <3> QED BY <1>1, <1>3, <1>4, <3>1
    <2>2. CASE ~(i <= n)
      <3>0. i - n \in 1 .. Len(t) /\ i = n + (i - n)
        BY <1>3, <2>2
      <3>1. PICK j \in 1 .. Len(t) : i = n + j
        BY <3>0
      <3>2. j \in 1 .. Len(t) + 1 /\ j + 1 \in 1 .. Len(t) + 1 /\ i + 1 = n + (j + 1)
        BY <1>3, <3>1
      <3> QED BY <1>2, <1>3, <1>4, <3>1, <3>2
    <2> QED BY <2>1, <2>2
  <1>6. w[1] = x /\ w[n + Len(t) + 1] = z
    <2>1. 1 \in 1 .. n + 1 /\ Len(t) + 1 \in 1 .. Len(t) + 1 /\ n + Len(t) + 1 = n + (Len(t) + 1)
      BY <1>3
    <2> QED BY <1>1, <1>2, <1>4, <2>1
  <1> QED BY <1>3, <1>4, <1>5, <1>6 DEF Runs

\* The first of the operations, and the rest.
LEMMA RunsHead ==
    ASSUME NEW s, NEW x, NEW y, Runs(s, x, y), s # <<>>
    PROVE  /\ Head(s) \in Ops /\ Allowed(Head(s), x) /\ x \in Locks
           /\ Runs(Tail(s), After(Head(s), x), y)
  <1>1. PICK h \in [1 .. Len(s) + 1 -> Locks] :
           /\ h[1] = x /\ h[Len(s) + 1] = y
           /\ \A i \in 1 .. Len(s) : Allowed(s[i], h[i]) /\ h[i + 1] = After(s[i], h[i])
    BY DEF Runs
  <1>2. /\ s \in Seq(Ops) /\ Len(s) \in Nat \ {0} /\ Head(s) = s[1] /\ Head(s) \in Ops
        /\ Tail(s) \in Seq(Ops) /\ Len(Tail(s)) = Len(s) - 1
        /\ \A i \in 1 .. Len(s) - 1 : Tail(s)[i] = s[i + 1]
    BY DEF Runs
  <1> DEFINE k == [i \in 1 .. Len(s) |-> h[i + 1]]
  <1>3. k \in [1 .. Len(s) -> Locks] /\ \A i \in 1 .. Len(s) : k[i] = h[i + 1]
    BY <1>2
  <1> HIDE DEF k
  <1>4. /\ k[1] = After(Head(s), x) /\ k[Len(s)] = y
    BY <1>1, <1>2, <1>3
  <1>5. ASSUME NEW i \in 1 .. Len(s) - 1
        PROVE  Allowed(Tail(s)[i], k[i]) /\ k[i + 1] = After(Tail(s)[i], k[i])
    <2>1. i + 1 \in 1 .. Len(s) /\ i \in 1 .. Len(s)
      BY <1>2
    <2> QED BY <1>1, <1>2, <1>3, <2>1
  <1>6. Len(Tail(s)) + 1 = Len(s)
    BY <1>2
  <1>7. Runs(Tail(s), After(Head(s), x), y)
    BY <1>2, <1>3, <1>4, <1>5, <1>6 DEF Runs
  <1>8. x \in Locks /\ Allowed(Head(s), x)
    BY <1>1, <1>2
  <1> QED BY <1>2, <1>7, <1>8

LEMMA RunsNothing ==
    ASSUME NEW x, NEW y, Runs(<<>>, x, y)
    PROVE  x = y
  BY DEF Runs

-----------------------------------------------------------------------------
(* The handlers.                                                            *)

LEMMA HoldingIsLocks ==
    ASSUME NEW a \in -1 .. 2, NEW b \in -1 .. 2
    PROVE  /\ Holding(a, b) \in Locks
           /\ Holding(a, b)["meta"] = a /\ Holding(a, b)["rs"] = b
           /\ \A c \in -1 .. 2 : /\ [Holding(a, b) EXCEPT !["meta"] = c] = Holding(c, b)
                                 /\ [Holding(a, b) EXCEPT !["rs"] = c] = Holding(a, c)
  BY DEF Holding, Locks, Mutexes

\* Reading a map under a lock of its mutex, and what is not guarded.
LEMMA RunsLook ==
    ASSUME NEW data \in Data, NEW a \in -1 .. 2, NEW b \in -1 .. 2,
           data \in {"databases", "tables"} => a # 0, data = "policies" => b # 0
    PROVE  Runs(Look(data), Holding(a, b), Holding(a, b))
  <1> DEFINE o == [do |-> "read", on |-> data]
  <1>1. o \in Ops /\ o.do = "read" /\ o.on = data
    BY DEF Ops
  <1>2. Allowed(o, Holding(a, b)) /\ After(o, Holding(a, b)) = Holding(a, b)
    BY <1>1, HoldingIsLocks DEF Allowed, After, Maps, GuardOf
  <1> QED BY <1>1, <1>2, RunsOne, HoldingIsLocks DEF Look, Operation

\* Changing a map under the write lock of its mutex.
LEMMA RunsChange ==
    ASSUME NEW data \in Data, NEW a \in -1 .. 2, NEW b \in -1 .. 2,
           data \in {"databases", "tables"} => a = -1, data = "policies" => b = -1
    PROVE  Runs(Change(data), Holding(a, b), Holding(a, b))
  <1> DEFINE o == [do |-> "write", on |-> data]
  <1>1. o \in Ops /\ o.do = "write" /\ o.on = data
    BY DEF Ops
  <1>2. Allowed(o, Holding(a, b)) /\ After(o, Holding(a, b)) = Holding(a, b)
    BY <1>1, HoldingIsLocks DEF Allowed, After, Maps, GuardOf
  <1> QED BY <1>1, <1>2, RunsOne, HoldingIsLocks DEF Change, Operation

\* An operation on a mutex.
LEMMA RunsLockOp ==
    ASSUME NEW do \in {"RLock", "RUnlock", "Lock", "Unlock"}, NEW m \in Mutexes,
           NEW x \in Locks, Allowed([do |-> do, on |-> m], x)
    PROVE  Runs(Operation(do, m), x, After([do |-> do, on |-> m], x))
  <1>1. [do |-> do, on |-> m] \in Ops
    BY DEF Ops
  <1> QED BY <1>1, RunsOne DEF Operation

\* The bodies between two operations on a mutex.
LEMMA RunsBetween ==
    ASSUME NEW x, NEW y, NEW z, NEW v, NEW s, NEW t, NEW u,
           Runs(s, x, y), Runs(t, y, z), Runs(u, z, v)
    PROVE  Runs(s \o t \o u, x, v)
  BY RunsThen

LEMMA RunsRLockedRs ==
    ASSUME NEW a \in -1 .. 2, NEW b \in 0 .. 1, NEW body,
           Runs(body, Holding(a, b + 1), Holding(a, b + 1))
    PROVE  Runs(RLocked("rs", body), Holding(a, b), Holding(a, b))
  <1> DEFINE o == [do |-> "RLock", on |-> "rs"]
             p == [do |-> "RUnlock", on |-> "rs"]
  <1>1. b \in -1 .. 2 /\ b + 1 \in -1 .. 2 /\ "rs" \in Mutexes
    BY DEF Mutexes
  <1>2. Allowed(o, Holding(a, b)) /\ Allowed(p, Holding(a, b + 1))
    BY <1>1, HoldingIsLocks DEF Allowed
  <1>3. After(o, Holding(a, b)) = Holding(a, b + 1) /\ After(p, Holding(a, b + 1)) = Holding(a, b)
    BY <1>1, HoldingIsLocks DEF After
  <1>4. Runs(Operation("RLock", "rs"), Holding(a, b), Holding(a, b + 1))
    BY <1>1, <1>2, <1>3, RunsLockOp, HoldingIsLocks
  <1>5. Runs(Operation("RUnlock", "rs"), Holding(a, b + 1), Holding(a, b))
    BY <1>1, <1>2, <1>3, RunsLockOp, HoldingIsLocks
  <1> QED BY <1>4, <1>5, RunsBetween DEF RLocked

LEMMA RunsRLockedMeta ==
    ASSUME NEW b \in 0 .. 2, NEW body, Runs(body, Holding(1, b), Holding(1, b))
    PROVE  Runs(RLocked("meta", body), Holding(0, b), Holding(0, b))
  <1> DEFINE o == [do |-> "RLock", on |-> "meta"]
             p == [do |-> "RUnlock", on |-> "meta"]
  <1>1. b \in -1 .. 2 /\ "meta" \in Mutexes
    BY DEF Mutexes
  <1>2. Allowed(o, Holding(0, b)) /\ Allowed(p, Holding(1, b))
    BY <1>1, HoldingIsLocks DEF Allowed
  <1>3. After(o, Holding(0, b)) = Holding(1, b) /\ After(p, Holding(1, b)) = Holding(0, b)
    BY <1>1, HoldingIsLocks DEF After
  <1>4. Runs(Operation("RLock", "meta"), Holding(0, b), Holding(1, b))
    BY <1>1, <1>2, <1>3, RunsLockOp, HoldingIsLocks
  <1>5. Runs(Operation("RUnlock", "meta"), Holding(1, b), Holding(0, b))
    BY <1>1, <1>2, <1>3, RunsLockOp, HoldingIsLocks
  <1> QED BY <1>4, <1>5, RunsBetween DEF RLocked

LEMMA RunsLockedRs ==
    ASSUME NEW body, Runs(body, Holding(0, -1), Holding(0, -1))
    PROVE  Runs(Locked("rs", body), Nothing, Nothing)
  <1> DEFINE o == [do |-> "Lock", on |-> "rs"]
             p == [do |-> "Unlock", on |-> "rs"]
  <1>1. "rs" \in Mutexes /\ Nothing = Holding(0, 0)
    BY DEF Mutexes, Nothing
  <1>2. Allowed(o, Holding(0, 0)) /\ Allowed(p, Holding(0, -1))
    BY HoldingIsLocks DEF Allowed
  <1>3. After(o, Holding(0, 0)) = Holding(0, -1) /\ After(p, Holding(0, -1)) = Holding(0, 0)
    BY HoldingIsLocks DEF After
  <1>4. Runs(Operation("Lock", "rs"), Holding(0, 0), Holding(0, -1))
    BY <1>1, <1>2, <1>3, RunsLockOp, HoldingIsLocks
  <1>5. Runs(Operation("Unlock", "rs"), Holding(0, -1), Holding(0, 0))
    BY <1>1, <1>2, <1>3, RunsLockOp, HoldingIsLocks
  <1> QED BY <1>1, <1>4, <1>5, RunsBetween DEF Locked

LEMMA RunsLockedMeta ==
    ASSUME NEW body, Runs(body, Holding(-1, 0), Holding(-1, 0))
    PROVE  Runs(Locked("meta", body), Nothing, Nothing)
  <1> DEFINE o == [do |-> "Lock", on |-> "meta"]
             p == [do |-> "Unlock", on |-> "meta"]
  <1>1. "meta" \in Mutexes /\ Nothing = Holding(0, 0)
    BY DEF Mutexes, Nothing
  <1>2. Allowed(o, Holding(0, 0)) /\ Allowed(p, Holding(-1, 0))
    BY HoldingIsLocks DEF Allowed
  <1>3. After(o, Holding(0, 0)) = Holding(-1, 0) /\ After(p, Holding(-1, 0)) = Holding(0, 0)
    BY HoldingIsLocks DEF After
  <1>4. Runs(Operation("Lock", "meta"), Holding(0, 0), Holding(-1, 0))
    BY <1>1, <1>2, <1>3, RunsLockOp, HoldingIsLocks
  <1>5. Runs(Operation("Unlock", "meta"), Holding(-1, 0), Holding(0, 0))
    BY <1>1, <1>2, <1>3, RunsLockOp, HoldingIsLocks
  <1> QED BY <1>1, <1>4, <1>5, RunsBetween DEF Locked

\* SearchPolicies and applyCompression, which EnsureTable calls with m.mu locked and the sync
\* with rs.mu locked for reading.
LEMMA RunsSearch ==
    ASSUME NEW a \in -1 .. 2, NEW b \in 0 .. 1
    PROVE  /\ Runs(SearchPolicies, Holding(a, b), Holding(a, b))
           /\ Runs(applyCompression, Holding(a, b), Holding(a, b))
  <1>1. "policies" \in Data /\ b + 1 \in -1 .. 2 /\ b + 1 # 0
    BY DEF Data
  <1>2. Runs(Look("policies"), Holding(a, b + 1), Holding(a, b + 1))
    BY <1>1, RunsLook
  <1>3. Runs(SearchPolicies, Holding(a, b), Holding(a, b))
    BY <1>2, RunsRLockedRs DEF SearchPolicies
  <1> QED BY <1>3, RunsThen DEF applyCompression

\* The parts of which the handlers are made hold nothing before them and nothing after.
LEMMA RunsMetaParts ==
    /\ Runs(DatabaseExists, Nothing, Nothing)
    /\ Runs(AddDatabase, Nothing, Nothing)
    /\ Runs(EnsureTable, Nothing, Nothing)
    /\ Runs(InsertBatch, Nothing, Nothing)
    /\ Runs(Locked("meta", Look("databases") \o Change("databases")), Nothing, Nothing)
    /\ Runs(Locked("meta", Look("databases") \o Change("databases") \o Change("tables")),
            Nothing, Nothing)
  <1>1. Data = {"databases", "tables", "schema", "policies"} /\ Nothing = Holding(0, 0)
    BY DEF Data, Nothing
  <1>2. /\ Runs(Look("databases"), Holding(1, 0), Holding(1, 0))
        /\ Runs(Look("tables"), Holding(1, 0), Holding(1, 0))
        /\ Runs(Look("schema"), Holding(0, 0), Holding(0, 0))
    BY <1>1, RunsLook
  <1>3. /\ Runs(Look("databases"), Holding(-1, 0), Holding(-1, 0))
        /\ Runs(Look("tables"), Holding(-1, 0), Holding(-1, 0))
        /\ Runs(Look("schema"), Holding(-1, 0), Holding(-1, 0))
    BY <1>1, RunsLook
  <1>4. /\ Runs(Change("databases"), Holding(-1, 0), Holding(-1, 0))
        /\ Runs(Change("tables"), Holding(-1, 0), Holding(-1, 0))
        /\ Runs(Change("schema"), Holding(-1, 0), Holding(-1, 0))
    BY <1>1, RunsChange
  <1>5. /\ Runs(SearchPolicies, Holding(-1, 0), Holding(-1, 0))
        /\ Runs(applyCompression, Holding(-1, 0), Holding(-1, 0))
    BY RunsSearch
  <1>6. Runs(DatabaseExists, Nothing, Nothing)
    BY <1>1, <1>2, RunsRLockedMeta DEF DatabaseExists
  <1>7. Runs(AddDatabase, Nothing, Nothing)
    BY <1>4, RunsLockedMeta DEF AddDatabase
  <1>8. Runs(EnsureTable, Nothing, Nothing)
    <2>1. Runs(Look("tables") \o Change("tables"), Holding(-1, 0), Holding(-1, 0))
      BY <1>3, <1>4, RunsThen
    <2>2. Runs(Look("tables") \o Change("tables") \o Look("schema"), Holding(-1, 0), Holding(-1, 0))
      BY <1>3, <2>1, RunsThen
    <2>3. Runs(Look("tables") \o Change("tables") \o Look("schema") \o Change("schema"),
               Holding(-1, 0), Holding(-1, 0))
      BY <1>4, <2>2, RunsThen
    <2>4. Runs(Look("tables") \o Change("tables") \o Look("schema") \o Change("schema")
               \o SearchPolicies, Holding(-1, 0), Holding(-1, 0))
      BY <1>5, <2>3, RunsThen
    <2>5. Runs(Look("tables") \o Change("tables") \o Look("schema") \o Change("schema")
               \o SearchPolicies \o applyCompression, Holding(-1, 0), Holding(-1, 0))
      BY <1>5, <2>4, RunsThen
    <2> QED BY <2>5, RunsLockedMeta DEF EnsureTable
  <1>9. Runs(InsertBatch, Nothing, Nothing)
    <2>1. Runs(RLocked("meta", Look("tables")), Holding(0, 0), Holding(0, 0))
      BY <1>2, RunsRLockedMeta
    <2> QED BY <1>1, <1>2, <2>1, RunsThen DEF InsertBatch
  <1>10. Runs(Look("databases") \o Change("databases"), Holding(-1, 0), Holding(-1, 0))
    BY <1>3, <1>4, RunsThen
  <1>11. Runs(Look("databases") \o Change("databases") \o Change("tables"),
              Holding(-1, 0), Holding(-1, 0))
    BY <1>4, <1>10, RunsThen
  <1> QED BY <1>6, <1>7, <1>8, <1>9, <1>10, <1>11, RunsLockedMeta

LEMMA RunsPolicyParts ==
    /\ Runs(EnsureDatabasePolicies, Nothing, Nothing)
    /\ Runs(ChangePolicies, Nothing, Nothing)
    /\ Runs(SearchPolicies, Nothing, Nothing)
    /\ Runs(SyncToTimescaleDB, Nothing, Nothing)
  <1>1. Data = {"databases", "tables", "schema", "policies"} /\ Nothing = Holding(0, 0)
    BY DEF Data, Nothing
  <1>2. /\ Runs(Look("policies"), Holding(0, -1), Holding(0, -1))
        /\ Runs(Change("policies"), Holding(0, -1), Holding(0, -1))
    BY <1>1, RunsLook, RunsChange
  <1>3. Runs(Look("policies") \o Change("policies"), Holding(0, -1), Holding(0, -1))
    BY <1>2, RunsThen
  <1>4. Runs(EnsureDatabasePolicies, Nothing, Nothing) /\ Runs(ChangePolicies, Nothing, Nothing)
    BY <1>3, RunsLockedRs DEF EnsureDatabasePolicies, ChangePolicies
  <1>5. Runs(SearchPolicies, Nothing, Nothing)
    BY <1>1, RunsSearch
  <1>6. /\ Runs(SearchPolicies, Holding(0, 1), Holding(0, 1))
        /\ Runs(applyCompression, Holding(0, 1), Holding(0, 1))
        /\ Runs(Look("policies"), Holding(0, 1), Holding(0, 1))
    BY <1>1, RunsSearch, RunsLook
  <1>7. Runs(RLocked("meta", Look("tables") \o Look("schema")), Holding(0, 1), Holding(0, 1))
    <2>1. /\ Runs(Look("tables"), Holding(1, 1), Holding(1, 1))
          /\ Runs(Look("schema"), Holding(1, 1), Holding(1, 1))
      BY <1>1, RunsLook
    <2>2. Runs(Look("tables") \o Look("schema"), Holding(1, 1), Holding(1, 1))
      BY <2>1, RunsThen
    <2> QED BY <2>2, RunsRLockedMeta
  <1>8. Runs(SyncTable, Holding(0, 1), Holding(0, 1))
    <2>1. Runs(SearchPolicies \o SearchPolicies, Holding(0, 1), Holding(0, 1))
      BY <1>6, RunsThen
    <2>2. Runs(SearchPolicies \o SearchPolicies \o RLocked("meta", Look("tables") \o Look("schema")),
               Holding(0, 1), Holding(0, 1))
      BY <1>7, <2>1, RunsThen
    <2> QED BY <1>6, <2>2, RunsThen DEF SyncTable
  <1>9. Runs(SyncToTimescaleDB, Nothing, Nothing)
    <2>1. Runs(Look("policies") \o SyncTable, Holding(0, 1), Holding(0, 1))
      BY <1>6, <1>8, RunsThen
    <2> QED BY <1>1, <2>1, RunsRLockedRs DEF SyncToTimescaleDB
  <1> QED BY <1>4, <1>5, <1>9

\* A handler begins and ends without a lock, and observes the rules in between.
LEMMA RunsHandler ==
    ASSUME NEW program \in Programs
    PROVE  Runs(Code[program], Nothing, Nothing)
  <1>1. /\ DOMAIN Code = {"write", "writeNewDatabase", "policyStatement", "alterDefault",
                          "createDatabase", "dropDatabase", "showDatabases", "showPolicies",
                          "syncAllDatabases"}
        /\ program \in DOMAIN Code
    BY ProgramAssumption DEF Code
  <1>2. CASE program = "write"
    <2>1. Runs(DatabaseExists \o EnsureDatabasePolicies, Nothing, Nothing)
      BY RunsMetaParts, RunsPolicyParts, RunsThen
    <2>2. Runs(DatabaseExists \o EnsureDatabasePolicies \o EnsureTable, Nothing, Nothing)
      BY <2>1, RunsMetaParts, RunsThen
    <2>3. Runs(DatabaseExists \o EnsureDatabasePolicies \o EnsureTable \o InsertBatch,
               Nothing, Nothing)
      BY <2>2, RunsMetaParts, RunsThen
    <2> QED BY <1>2, <2>3 DEF Code
  <1>3. CASE program = "writeNewDatabase"
    <2>1. Runs(DatabaseExists \o AddDatabase, Nothing, Nothing)
      BY RunsMetaParts, RunsThen
    <2>2. Runs(DatabaseExists \o AddDatabase \o EnsureDatabasePolicies, Nothing, Nothing)
      BY <2>1, RunsPolicyParts, RunsThen
    <2>3. Runs(DatabaseExists \o AddDatabase \o EnsureDatabasePolicies \o EnsureTable,
               Nothing, Nothing)
      BY <2>2, RunsMetaParts, RunsThen
    <2>4. Runs(DatabaseExists \o AddDatabase \o EnsureDatabasePolicies \o EnsureTable \o InsertBatch,
               Nothing, Nothing)
      BY <2>3, RunsMetaParts, RunsThen
    <2> QED BY <1>3, <2>4 DEF Code
  <1>4. CASE program = "policyStatement"
    BY <1>4, RunsPolicyParts, RunsThen DEF Code
  <1>5. CASE program = "alterDefault"
    <2>1. Runs(ChangePolicies \o ChangePolicies, Nothing, Nothing)
      BY RunsPolicyParts, RunsThen
    <2>2. Runs(ChangePolicies \o ChangePolicies \o SyncToTimescaleDB, Nothing, Nothing)
      BY <2>1, RunsPolicyParts, RunsThen
    <2> QED BY <1>5, <2>2 DEF Code
  <1>6. CASE program \in {"createDatabase", "dropDatabase"}
    <2>1. Runs(Locked("meta", Look("databases") \o Change("databases")) \o EnsureDatabasePolicies,
               Nothing, Nothing)
      BY RunsMetaParts, RunsPolicyParts, RunsThen
    <2>2. Runs(Locked("meta", Look("databases") \o Change("databases") \o Change("tables"))
               \o ChangePolicies, Nothing, Nothing)
      BY RunsMetaParts, RunsPolicyParts, RunsThen
    <2>3. Code["createDatabase"] = Locked("meta", Look("databases") \o Change("databases"))
                                   \o EnsureDatabasePolicies
      BY DEF Code
    <2>4. Code["dropDatabase"] = Locked("meta", Look("databases") \o Change("databases")
                                                \o Change("tables")) \o ChangePolicies
      BY DEF Code
    <2>5. CASE program = "createDatabase"
      BY <2>1, <2>3, <2>5
    <2>6. CASE program = "dropDatabase"
      BY <2>2, <2>4, <2>6
    <2> QED BY <1>6, <2>5, <2>6
  <1>7. CASE program \in {"showDatabases", "showPolicies"}
    BY <1>7, RunsMetaParts, RunsPolicyParts DEF Code
  <1>8. CASE program = "syncAllDatabases"
    BY <1>8, RunsPolicyParts, RunsThen DEF Code
  <1> QED BY <1>1, <1>2, <1>3, <1>4, <1>5, <1>6, <1>7, <1>8

-----------------------------------------------------------------------------
(* The locks there are, and the locks the rest of the code expects.         *)

HeldBy(g) ==
    [m \in Mutexes |-> IF held[m] /\ writer[m] = g THEN -1 ELSE readers[m][g]]

LockTypes ==
    /\ code \in [Goroutines -> Seq(Ops)]
    /\ writer \in [Mutexes -> Goroutines \cup {None}]
    /\ held \in [Mutexes -> BOOLEAN]
    /\ readers \in [Mutexes -> [Goroutines -> 0 .. 2]]

\* What a goroutine holds is what its next operations expect of it.
CodeInv == \A g \in Goroutines : Runs(code[g], HeldBy(g), Nothing)

\* A mutex held for writing has a writer and no readers.
HeldInv == \A m \in Mutexes : held[m] => /\ writer[m] # None
                                         /\ \A g \in Goroutines : readers[m][g] = 0

\* A writer that does not hold its mutex is waiting for it.
WaitingInv ==
    \A m \in Mutexes, g \in Goroutines :
        writer[m] = g /\ ~held[m] => About(g, "Lock") /\ On(g) = m

LockInv == LockTypes /\ CodeInv /\ HeldInv /\ WaitingInv

LEMMA NoneIsNobody == None \notin Goroutines
  BY ProgramAssumption

\* The next operation of a goroutine.
LEMMA NextOperation ==
    ASSUME LockInv, NEW g \in Goroutines, Busy(g)
    PROVE  /\ Head(code[g]) \in Ops /\ Allowed(Head(code[g]), HeldBy(g))
           /\ Tail(code[g]) \in Seq(Ops) /\ HeldBy(g) \in Locks
           /\ Runs(Tail(code[g]), After(Head(code[g]), HeldBy(g)), Nothing)
  <1>1. Runs(code[g], HeldBy(g), Nothing) /\ code[g] # <<>>
    BY DEF LockInv, CodeInv, Busy
  <1>2. Runs(Tail(code[g]), After(Head(code[g]), HeldBy(g)), Nothing)
    BY <1>1, RunsHead
  <1>3. /\ Head(code[g]) \in Ops /\ Allowed(Head(code[g]), HeldBy(g))
        /\ HeldBy(g) \in Locks
    BY <1>1, RunsHead
  <1>4. Tail(code[g]) \in Seq(Ops)
    BY <1>2 DEF Runs
  <1> QED BY <1>2, <1>3, <1>4

\* A goroutine performs its next operation, after which it holds what its code expects, and
\* the others hold what they held.
LEMMA Advances ==
    ASSUME LockInv, NEW g \in Goroutines, Busy(g), Advance(g),
           HeldBy(g)' = After(Head(code[g]), HeldBy(g)),
           \A h \in Goroutines \ {g} : HeldBy(h)' = HeldBy(h)
    PROVE  /\ CodeInv' /\ code' \in [Goroutines -> Seq(Ops)]
           /\ \A h \in Goroutines \ {g} : code'[h] = code[h]
  <1>1. code' = [code EXCEPT ![g] = Tail(code[g])] /\ code \in [Goroutines -> Seq(Ops)]
    BY DEF Advance, LockInv, LockTypes
  <1>2. /\ Tail(code[g]) \in Seq(Ops)
        /\ Runs(Tail(code[g]), After(Head(code[g]), HeldBy(g)), Nothing)
    BY NextOperation
  <1>3. code'[g] = Tail(code[g]) /\ \A h \in Goroutines \ {g} : code'[h] = code[h]
    BY <1>1
  <1>4. Runs(code[g], HeldBy(g), Nothing)'
    BY <1>2, <1>3
  <1>5. ASSUME NEW h \in Goroutines \ {g}
        PROVE  Runs(code[h], HeldBy(h), Nothing)'
    BY <1>3 DEF LockInv, CodeInv
  <1> QED BY <1>1, <1>2, <1>3, <1>4, <1>5 DEF CodeInv

\* After a step of g that leaves it waiting for no mutex, WaitingInv is about the others.
LEMMA WaitingKept ==
    ASSUME LockInv, NEW g \in Goroutines, \A h \in Goroutines \ {g} : code'[h] = code[h],
           \A m \in Mutexes : writer'[m] = g => held'[m],
           \A m \in Mutexes, h \in Goroutines \ {g} :
               writer'[m] = h /\ ~held'[m] => writer[m] = h /\ ~held[m]
    PROVE  WaitingInv'
  BY DEF LockInv, WaitingInv, About, Busy, On

\* One that is not about to lock waits for no mutex.
LEMMA NotWaiting ==
    ASSUME LockInv, NEW g \in Goroutines, ~About(g, "Lock"), NEW m \in Mutexes, writer[m] = g
    PROVE  held[m]
  BY DEF LockInv, WaitingInv

\* Whose count is -1 holds the mutex for writing.
LEMMA HeldForWriting ==
    ASSUME LockInv, NEW m \in Mutexes, NEW g \in Goroutines, HeldBy(g)[m] = -1
    PROVE  held[m] /\ writer[m] = g
  <1>1. readers \in [Mutexes -> [Goroutines -> 0 .. 2]]
    BY DEF LockInv, LockTypes
  <1>2. readers[m] \in [Goroutines -> 0 .. 2]
    BY <1>1
  <1>3. readers[m][g] \in 0 .. 2
    BY <1>2
  <1>4. HeldBy(g)[m] = IF held[m] /\ writer[m] = g THEN -1 ELSE readers[m][g]
    BY DEF HeldBy
  <1> QED BY <1>3, <1>4

LEMMA RLockKeeps ==
    ASSUME LockInv, NEW g \in Goroutines, RLock(g)
    PROVE  LockInv'
  <1> DEFINE m == On(g)  o == Head(code[g])
  <1>1. Busy(g) /\ o.do = "RLock" /\ o.on = m
    BY DEF RLock, About, On
  <1>2. /\ o \in Ops /\ Allowed(o, HeldBy(g)) /\ HeldBy(g) \in Locks
    BY <1>1, NextOperation
  <1>3. m \in Mutexes /\ HeldBy(g)[m] \in 0 .. 1
    BY <1>1, <1>2 DEF Ops, Allowed, Mutexes, Locks
  <1>4. writer[m] = None /\ ~held[m]
    BY <1>3 DEF RLock, LockInv, HeldInv
  <1>5. readers[m][g] \in 0 .. 1 /\ HeldBy(g)[m] = readers[m][g]
    BY <1>3, <1>4 DEF HeldBy
  <1>6. /\ readers' = [readers EXCEPT ![m][g] = readers[m][g] + 1]
        /\ Advance(g) /\ UNCHANGED <<writer, held>>
    BY DEF RLock
  <1>10. ~About(g, "Lock")
    BY <1>1 DEF About
  <1> HIDE DEF m, o
  <1>7. /\ readers' \in [Mutexes -> [Goroutines -> 0 .. 2]]
        /\ \A n \in Mutexes, h \in Goroutines :
              readers'[n][h] = IF n = m /\ h = g THEN readers[m][g] + 1 ELSE readers[n][h]
    BY <1>3, <1>5, <1>6 DEF LockInv, LockTypes
  <1>8. \A h \in Goroutines \ {g} : HeldBy(h)' = HeldBy(h)
    BY <1>6, <1>7 DEF HeldBy
  <1>9. HeldBy(g)' = After(o, HeldBy(g))
    <2>1. After(o, HeldBy(g)) = [HeldBy(g) EXCEPT ![m] = HeldBy(g)[m] + 1]
      BY <1>1 DEF After
    <2>2. \A n \in Mutexes : HeldBy(g)'[n] = IF n = m THEN HeldBy(g)[n] + 1 ELSE HeldBy(g)[n]
      BY <1>4, <1>5, <1>6, <1>7 DEF HeldBy
    <2> QED BY <2>1, <2>2 DEF HeldBy
  <1>11. /\ CodeInv' /\ code' \in [Goroutines -> Seq(Ops)]
         /\ \A h \in Goroutines \ {g} : code'[h] = code[h]
    BY <1>1, <1>6, <1>8, <1>9, Advances DEF o
  <1>12. HeldInv'
    BY <1>4, <1>6, <1>7 DEF LockInv, HeldInv
  <1>13. WaitingInv'
    BY <1>6, <1>10, <1>11, WaitingKept, NotWaiting
  <1> QED BY <1>6, <1>7, <1>11, <1>12, <1>13 DEF LockInv, LockTypes

LEMMA RUnlockKeeps ==
    ASSUME LockInv, NEW g \in Goroutines, RUnlock(g)
    PROVE  LockInv'
  <1> DEFINE m == On(g)  o == Head(code[g])
  <1>1. Busy(g) /\ o.do = "RUnlock" /\ o.on = m
    BY DEF RUnlock, About, On
  <1>2. /\ o \in Ops /\ Allowed(o, HeldBy(g)) /\ HeldBy(g) \in Locks
    BY <1>1, NextOperation
  <1>3. m \in Mutexes /\ HeldBy(g)[m] \in 1 .. 2
    BY <1>1, <1>2 DEF Ops, Allowed, Mutexes, Locks
  <1>4. readers[m][g] \in 1 .. 2 /\ HeldBy(g)[m] = readers[m][g] /\ ~(held[m] /\ writer[m] = g)
    BY <1>3 DEF HeldBy
  <1>5. ~held[m]
    BY <1>3, <1>4 DEF LockInv, HeldInv
  <1>6. /\ readers' = [readers EXCEPT ![m][g] = readers[m][g] - 1]
        /\ Advance(g) /\ UNCHANGED <<writer, held>>
    BY DEF RUnlock
  <1>10. ~About(g, "Lock")
    BY <1>1 DEF About
  <1> HIDE DEF m, o
  <1>7. /\ readers' \in [Mutexes -> [Goroutines -> 0 .. 2]]
        /\ \A n \in Mutexes, h \in Goroutines :
              readers'[n][h] = IF n = m /\ h = g THEN readers[m][g] - 1 ELSE readers[n][h]
    BY <1>3, <1>4, <1>6 DEF LockInv, LockTypes
  <1>8. \A h \in Goroutines \ {g} : HeldBy(h)' = HeldBy(h)
    BY <1>6, <1>7 DEF HeldBy
  <1>9. HeldBy(g)' = After(o, HeldBy(g))
    <2>1. After(o, HeldBy(g)) = [HeldBy(g) EXCEPT ![m] = HeldBy(g)[m] - 1]
      BY <1>1 DEF After
    <2>2. \A n \in Mutexes : HeldBy(g)'[n] = IF n = m THEN HeldBy(g)[n] - 1 ELSE HeldBy(g)[n]
      BY <1>4, <1>5, <1>6, <1>7 DEF HeldBy
    <2> QED BY <2>1, <2>2 DEF HeldBy
  <1>11. /\ CodeInv' /\ code' \in [Goroutines -> Seq(Ops)]
         /\ \A h \in Goroutines \ {g} : code'[h] = code[h]
    BY <1>1, <1>6, <1>8, <1>9, Advances DEF o
  <1>12. HeldInv'
    BY <1>5, <1>6, <1>7 DEF LockInv, HeldInv
  <1>13. WaitingInv'
    BY <1>6, <1>10, <1>11, WaitingKept, NotWaiting
  <1> QED BY <1>6, <1>7, <1>11, <1>12, <1>13 DEF LockInv, LockTypes

\* g becomes the writer, and does not hold the mutex yet.
LEMMA AnnounceKeeps ==
    ASSUME LockInv, NEW g \in Goroutines, Announce(g)
    PROVE  LockInv'
  <1> DEFINE m == On(g)
  <1>1. /\ Busy(g) /\ About(g, "Lock") /\ writer[m] = None
        /\ writer' = [writer EXCEPT ![m] = g] /\ UNCHANGED <<code, held, readers>>
    BY DEF Announce, About
  <1>2. m \in Mutexes
    BY <1>1, NextOperation DEF About, On, Ops
  <1> HIDE DEF m
  <1>3. ~held[m]
    BY <1>1, <1>2 DEF LockInv, HeldInv
  <1>4. \A h \in Goroutines : HeldBy(h)' = HeldBy(h)
    BY <1>1, <1>2, <1>3 DEF HeldBy, LockInv, LockTypes
  <1>5. CodeInv'
    BY <1>1, <1>4 DEF LockInv, CodeInv
  <1>6. HeldInv' /\ LockTypes'
    BY <1>1, <1>2, <1>3, NoneIsNobody DEF LockInv, HeldInv, LockTypes
  <1>7. \A h \in Goroutines : /\ About(h, "Lock")' = About(h, "Lock")
                              /\ On(h)' = On(h)
    BY <1>1 DEF About, Busy, On
  <1>8. WaitingInv'
    BY <1>1, <1>2, <1>7 DEF LockInv, WaitingInv, LockTypes, m
  <1> QED BY <1>5, <1>6, <1>8 DEF LockInv

\* The writer gets the mutex when there are no readers left.
LEMMA LockKeeps ==
    ASSUME LockInv, NEW g \in Goroutines, Lock(g)
    PROVE  LockInv'
  <1> DEFINE m == On(g)  o == Head(code[g])
  <1>1. Busy(g) /\ o.do = "Lock" /\ o.on = m
    BY DEF Lock, About, On
  <1>2. /\ o \in Ops /\ Allowed(o, HeldBy(g)) /\ HeldBy(g) \in Locks
    BY <1>1, NextOperation
  <1>3. m \in Mutexes /\ HeldBy(g)[m] = 0
    BY <1>1, <1>2 DEF Ops, Allowed
  <1>4. /\ writer[m] = g /\ held' = [held EXCEPT ![m] = TRUE]
        /\ Advance(g) /\ UNCHANGED <<writer, readers>>
    BY DEF Lock
  <1>5. \A h \in Goroutines : readers[m][h] = 0
    BY <1>3 DEF Lock, ReadersOf, LockInv, LockTypes
  <1> HIDE DEF m, o
  <1>6. ~held[m]
    BY <1>3, <1>4 DEF HeldBy
  <1>7. /\ held' \in [Mutexes -> BOOLEAN] /\ held'[m]
        /\ \A n \in Mutexes \ {m} : held'[n] = held[n]
    BY <1>3, <1>4 DEF LockInv, LockTypes
  <1>8. \A h \in Goroutines \ {g} : HeldBy(h)' = HeldBy(h)
    <2> SUFFICES ASSUME NEW h \in Goroutines \ {g}, NEW n \in Mutexes
                 PROVE  HeldBy(h)'[n] = HeldBy(h)[n]
      BY DEF HeldBy
    <2>1. CASE n = m
      BY <1>4, <2>1 DEF HeldBy
    <2>2. CASE n # m
      BY <1>4, <1>7, <2>2 DEF HeldBy
    <2> QED BY <2>1, <2>2
  <1>9. HeldBy(g)' = After(o, HeldBy(g))
    <2>1. After(o, HeldBy(g)) = [HeldBy(g) EXCEPT ![m] = -1]
      BY <1>1 DEF After
    <2>2. \A n \in Mutexes : HeldBy(g)'[n] = IF n = m THEN -1 ELSE HeldBy(g)[n]
      BY <1>4, <1>7 DEF HeldBy
    <2> QED BY <2>1, <2>2 DEF HeldBy
  <1>10. /\ CodeInv' /\ code' \in [Goroutines -> Seq(Ops)]
         /\ \A h \in Goroutines \ {g} : code'[h] = code[h]
    BY <1>1, <1>4, <1>8, <1>9, Advances DEF o
  <1>11. HeldInv'
    <2> SUFFICES ASSUME NEW n \in Mutexes, held'[n]
                 PROVE  writer'[n] # None /\ \A h \in Goroutines : readers'[n][h] = 0
      BY DEF HeldInv
    <2>1. CASE n = m
      BY <1>4, <1>5, <2>1, NoneIsNobody
    <2>2. CASE n # m
      BY <1>4, <1>7, <2>2 DEF LockInv, HeldInv
    <2> QED BY <2>1, <2>2
  <1>12. \A n \in Mutexes : writer'[n] = g => held'[n]
    <2> SUFFICES ASSUME NEW n \in Mutexes, n # m, writer[n] = g PROVE held[n]
      BY <1>4, <1>7
    <2> QED BY DEF LockInv, WaitingInv, m
  <1>13. \A n \in Mutexes, h \in Goroutines \ {g} :
            writer'[n] = h /\ ~held'[n] => writer[n] = h /\ ~held[n]
    BY <1>4, <1>6, <1>7
  <1>14. WaitingInv'
    BY <1>10, <1>12, <1>13, WaitingKept
  <1> QED BY <1>4, <1>7, <1>10, <1>11, <1>14 DEF LockInv, LockTypes

LEMMA UnlockKeeps ==
    ASSUME LockInv, NEW g \in Goroutines, Unlock(g)
    PROVE  LockInv'
  <1> DEFINE m == On(g)  o == Head(code[g])
  <1>1. Busy(g) /\ o.do = "Unlock" /\ o.on = m
    BY DEF Unlock, About, On
  <1>2. /\ o \in Ops /\ Allowed(o, HeldBy(g)) /\ HeldBy(g) \in Locks
    BY <1>1, NextOperation
  <1>3. m \in Mutexes /\ HeldBy(g)[m] = -1
    BY <1>1, <1>2 DEF Ops, Allowed
  <1>4. /\ writer' = [writer EXCEPT ![m] = None] /\ held' = [held EXCEPT ![m] = FALSE]
        /\ Advance(g) /\ UNCHANGED readers
    BY DEF Unlock
  <1>15. ~About(g, "Lock")
    BY <1>1 DEF About
  <1> HIDE DEF m, o
  <1>5. held[m] /\ writer[m] = g
    BY <1>3, HeldForWriting
  <1>6. \A h \in Goroutines : readers[m][h] = 0
    BY <1>3, <1>5 DEF LockInv, HeldInv
  <1>7. /\ held' \in [Mutexes -> BOOLEAN] /\ ~held'[m]
        /\ \A n \in Mutexes \ {m} : held'[n] = held[n] /\ writer'[n] = writer[n]
        /\ writer' \in [Mutexes -> Goroutines \cup {None}] /\ writer'[m] = None
    BY <1>3, <1>4 DEF LockInv, LockTypes
  <1>8. \A h \in Goroutines \ {g} : HeldBy(h)' = HeldBy(h)
    <2> SUFFICES ASSUME NEW h \in Goroutines \ {g}, NEW n \in Mutexes
                 PROVE  HeldBy(h)'[n] = HeldBy(h)[n]
      BY DEF HeldBy
    <2>1. CASE n = m
      BY <1>4, <1>5, <1>7, <2>1 DEF HeldBy
    <2>2. CASE n # m
      BY <1>4, <1>7, <2>2 DEF HeldBy
    <2> QED BY <2>1, <2>2
  <1>9. HeldBy(g)' = After(o, HeldBy(g))
    <2>1. After(o, HeldBy(g)) = [HeldBy(g) EXCEPT ![m] = 0]
      BY <1>1 DEF After
    <2>2. \A n \in Mutexes : HeldBy(g)'[n] = IF n = m THEN 0 ELSE HeldBy(g)[n]
      BY <1>4, <1>6, <1>7 DEF HeldBy
    <2> QED BY <2>1, <2>2 DEF HeldBy
  <1>10. /\ CodeInv' /\ code' \in [Goroutines -> Seq(Ops)]
         /\ \A h \in Goroutines \ {g} : code'[h] = code[h]
    BY <1>1, <1>4, <1>8, <1>9, Advances DEF o
  <1>11. HeldInv'
    BY <1>4, <1>7 DEF LockInv, HeldInv
  <1>12. \A n \in Mutexes : writer'[n] = g => held'[n]
    <2> SUFFICES ASSUME NEW n \in Mutexes, writer'[n] = g PROVE held'[n]
      OBVIOUS
    <2>1. n # m
      BY <1>7, NoneIsNobody
    <2> QED BY <1>7, <1>15, <2>1, NotWaiting
  <1>13. \A n \in Mutexes, h \in Goroutines \ {g} :
            writer'[n] = h /\ ~held'[n] => writer[n] = h /\ ~held[n]
    BY <1>7, NoneIsNobody
  <1>14. WaitingInv'
    BY <1>10, <1>12, <1>13, WaitingKept
  <1> QED BY <1>4, <1>7, <1>10, <1>11, <1>14 DEF LockInv, LockTypes

LEMMA AccessKeeps ==
    ASSUME LockInv, NEW g \in Goroutines, Access(g)
    PROVE  LockInv'
  <1> DEFINE o == Head(code[g])
  <1>1. /\ Busy(g) /\ o.do \in {"read", "write"} /\ ~About(g, "Lock")
        /\ Advance(g) /\ UNCHANGED <<writer, held, readers>>
    BY DEF Access, About
  <1>2. \A h \in Goroutines : HeldBy(h)' = HeldBy(h)
    BY <1>1 DEF HeldBy
  <1>3. HeldBy(g)' = After(o, HeldBy(g))
    BY <1>1, <1>2 DEF After
  <1>4. /\ CodeInv' /\ code' \in [Goroutines -> Seq(Ops)]
        /\ \A h \in Goroutines \ {g} : code'[h] = code[h]
    BY <1>1, <1>2, <1>3, Advances
  <1>5. WaitingInv'
    BY <1>1, <1>4, WaitingKept, NotWaiting
  <1>6. HeldInv'
    BY <1>1 DEF LockInv, HeldInv
  <1> QED BY <1>1, <1>4, <1>5, <1>6 DEF LockInv, LockTypes

\* A goroutine without code holds nothing, which is what every handler expects.
LEMMA StartKeeps ==
    ASSUME LockInv, NEW g \in Goroutines, Start(g)
    PROVE  LockInv'
  <1>1. PICK program \in Programs : code' = [code EXCEPT ![g] = Code[program]]
    BY DEF Start
  <1>2. code[g] = <<>> /\ ~About(g, "Lock") /\ UNCHANGED <<writer, held, readers>>
    BY DEF Start, Busy, About
  <1>3. HeldBy(g) = Nothing
    BY <1>2, RunsNothing DEF LockInv, CodeInv
  <1>4. Runs(Code[program], Nothing, Nothing) /\ Code[program] \in Seq(Ops)
    BY RunsHandler DEF Runs
  <1>5. /\ code' \in [Goroutines -> Seq(Ops)] /\ code'[g] = Code[program]
        /\ \A h \in Goroutines \ {g} : code'[h] = code[h]
    BY <1>1, <1>4 DEF LockInv, LockTypes
  <1>6. \A h \in Goroutines : HeldBy(h)' = HeldBy(h)
    BY <1>2 DEF HeldBy
  <1>7. Runs(code[g], HeldBy(g), Nothing)'
    BY <1>3, <1>4, <1>5, <1>6
  <1>8. \A h \in Goroutines \ {g} : Runs(code[h], HeldBy(h), Nothing)'
    BY <1>5, <1>6 DEF LockInv, CodeInv
  <1>9. CodeInv'
    BY <1>7, <1>8 DEF CodeInv
  <1>10. WaitingInv'
    BY <1>2, <1>5, WaitingKept, NotWaiting
  <1>11. HeldInv'
    BY <1>2 DEF LockInv, HeldInv
  <1> QED BY <1>2, <1>5, <1>9, <1>10, <1>11 DEF LockInv, LockTypes

LEMMA LockInvAlways == Spec => []LockInv
  <1>1. Init => LockInv
    <2> SUFFICES ASSUME Init PROVE LockInv
      OBVIOUS
    <2>1. LockTypes /\ HeldInv
      BY DEF Init, LockTypes, HeldInv
    <2>2. WaitingInv
      BY NoneIsNobody DEF Init, WaitingInv
    <2>3. ASSUME NEW g \in Goroutines PROVE Runs(code[g], HeldBy(g), Nothing)
      <3>1. code[g] = <<>> /\ HeldBy(g) = Nothing
        BY DEF Init, HeldBy, Nothing, Holding
      <3>2. Nothing \in Locks
        BY HoldingIsLocks DEF Nothing
      <3> DEFINE h == [i \in 1 .. 1 |-> Nothing]
      <3>3. h \in [1 .. 1 -> Locks] /\ h[1] = Nothing
        BY <3>2
      <3>4. <<>> \in Seq(Ops) /\ Len(<<>>) = 0
        OBVIOUS
      <3> HIDE DEF h
      <3> QED BY <3>1, <3>3, <3>4 DEF Runs
    <2> QED BY <2>1, <2>2, <2>3 DEF LockInv, CodeInv
  <1>2. LockInv /\ [Next]_vars => LockInv'
    <2> SUFFICES ASSUME LockInv, [Next]_vars PROVE LockInv'
      OBVIOUS
    <2>1. CASE UNCHANGED vars
      BY <2>1 DEF vars, LockInv, LockTypes, CodeInv, HeldInv, WaitingInv, HeldBy, About, Busy, On
    <2>2. ASSUME NEW g \in Goroutines, Run(g) PROVE LockInv'
      BY <2>2, RLockKeeps, RUnlockKeeps, AnnounceKeeps, LockKeeps, UnlockKeeps, AccessKeeps,
         StartKeeps DEF Run
    <2> QED BY <2>1, <2>2 DEF Next
  <1> QED BY <1>1, <1>2, PTL DEF Spec

-----------------------------------------------------------------------------
(* What follows for the handlers.                                           *)

\* Every release belongs to an acquisition: no count of readers is negative, or larger than
\* the two read locks of rs.mu a sync has, and no mutex is released by who does not hold
\* it, which Go answers with a fatal error.
THEOREM LocksAreBalanced == Spec => []TypeOK
  <1>1. LockInv => TypeOK
    BY DEF LockInv, LockTypes, TypeOK, Ops
  <1> QED BY <1>1, LockInvAlways, PTL

\* No handler reads or changes a map while another changes it, whatever handlers run
\* together and however many.
THEOREM MapsAreGuarded == Spec => []MapsGuarded
  <1>1. LockInv => MapsGuarded
    <2> SUFFICES ASSUME LockInv, NEW data \in {"databases", "tables", "policies"}, Race(data)
                 PROVE  FALSE
      BY DEF MapsGuarded
    <2>1. PICK g \in Goroutines, h \in Goroutines :
             /\ g # h /\ About(g, "write") /\ On(g) = data
             /\ (About(h, "read") \/ About(h, "write")) /\ On(h) = data
      BY DEF Race
    <2> DEFINE m == GuardOf(data)
    <2>2. m \in Mutexes /\ data \in Maps
      BY DEF GuardOf, Mutexes, Maps
    <2>3. HeldBy(g)[m] = -1
      BY <2>1, <2>2, NextOperation DEF Allowed, About, On
    <2>4. HeldBy(h)[m] # 0
      BY <2>1, <2>2, NextOperation DEF Allowed, About, On
    <2> HIDE DEF m
    <2>5. held[m] /\ writer[m] = g
      BY <2>2, <2>3, HeldForWriting
    <2>6. readers[m][h] = 0
      BY <2>2, <2>5 DEF LockInv, HeldInv
    <2> QED BY <2>1, <2>2, <2>4, <2>5, <2>6 DEF HeldBy
  <1> QED BY <1>1, LockInvAlways, PTL

-----------------------------------------------------------------------------
(* Goroutines that wait for each other.                                     *)

\* One that waits is about to take a mutex, and waits for its writer or, if it is the
\* writer, for its readers.
LEMMA WhoIsWaitedFor ==
    ASSUME LockInv, NEW g \in Goroutines, NEW h \in WaitsFor(g)
    PROVE  /\ Busy(g) /\ On(g) \in Mutexes /\ (About(g, "RLock") \/ About(g, "Lock"))
           /\ writer[On(g)] # g => writer[On(g)] = h
           /\ writer[On(g)] = g /\ About(g, "Lock") => readers[On(g)][h] > 0
  <1>1. About(g, "RLock") \/ About(g, "Lock")
    BY DEF WaitsFor
  <1>2. Busy(g)
    BY <1>1 DEF About
  <1>3. Head(code[g]) \in Ops
    BY <1>2, NextOperation
  <1>4. On(g) \in Mutexes
    BY <1>1, <1>3 DEF About, On, Ops
  <1>5. writer[On(g)] # g => writer[On(g)] = h
    BY <1>1 DEF WaitsFor
  <1>6. writer[On(g)] = g /\ About(g, "Lock") => readers[On(g)][h] > 0
    <2> SUFFICES ASSUME writer[On(g)] = g, About(g, "Lock") PROVE readers[On(g)][h] > 0
      OBVIOUS
    <2>1. ~About(g, "RLock")
      BY DEF About
    <2> QED BY <2>1 DEF WaitsFor, ReadersOf
  <1> QED BY <1>1, <1>2, <1>4, <1>5, <1>6

\* A mutex that nobody of a circle holds is one that nobody of the circle waits for: its
\* announced writer would wait for a reader outside the circle.
LEMMA CircleHoldsWhatItWaitsFor ==
    ASSUME LockInv, NEW gs \in SUBSET Goroutines, Circle(gs), NEW m \in Mutexes,
           \A g \in gs : HeldBy(g)[m] = 0,
           NEW g \in gs, On(g) = m
    PROVE  FALSE
  <1>1. \A k \in gs : ~(held[m] /\ writer[m] = k) /\ readers[m][k] = 0
    BY DEF HeldBy
  <1>2. ASSUME NEW k \in gs, writer[m] = k PROVE FALSE
    <2>1. About(k, "Lock") /\ On(k) = m
      BY <1>1, <1>2 DEF LockInv, WaitingInv
    <2>2. PICK h \in WaitsFor(k) : h \in gs
      BY DEF Circle
    <2>3. readers[m][h] > 0
      BY <1>2, <2>1, <2>2, WhoIsWaitedFor
    <2> QED BY <1>1, <2>2, <2>3
  <1>3. PICK h \in WaitsFor(g) : h \in gs
    BY DEF Circle
  <1>4. writer[m] # g
    BY <1>2
  <1>5. writer[m] = h
    BY <1>3, <1>4, WhoIsWaitedFor
  <1> QED BY <1>2, <1>3, <1>5

\* Goroutines only ever wait for each other with a sync among them, which asks for a lock
\* while it reads rs.mu: m.mu before rs.mu is enough for all the rest, for any number of
\* goroutines.
THEOREM OthersNeverBlock == Spec => []OnlySyncBlocks
  <1>1. LockInv => OnlySyncBlocks
    <2> SUFFICES ASSUME LockInv, NEW gs \in SUBSET Goroutines, Circle(gs),
                        \A g \in gs : ~(readers["rs"][g] > 0 /\ About(g, "RLock"))
                 PROVE  FALSE
      BY DEF OnlySyncBlocks
    <2>1. ASSUME NEW g \in gs
          PROVE  /\ On(g) \in Mutexes /\ HeldBy(g)["rs"] = 0
                 /\ On(g) = "meta" => HeldBy(g)["meta"] = 0
      <3> DEFINE o == Head(code[g])
      <3>1. PICK h \in WaitsFor(g) : h \in gs
        BY DEF Circle
      <3>2. /\ Busy(g) /\ On(g) \in Mutexes /\ (About(g, "RLock") \/ About(g, "Lock"))
        BY <3>1, WhoIsWaitedFor
      <3>3. Allowed(o, HeldBy(g)) /\ HeldBy(g) \in Locks /\ o.on = On(g)
        BY <3>2, NextOperation DEF On
      <3>4. CASE About(g, "Lock")
        <4>1. o.do = "Lock"
          BY <3>4 DEF About
        <4> HIDE DEF o
        <4> QED BY <3>2, <3>3, <4>1 DEF Allowed
      <3>5. CASE About(g, "RLock")
        <4>1. o.do = "RLock"
          BY <3>5 DEF About
        <4> HIDE DEF o
        <4>2. HeldBy(g)["rs"] >= 0 /\ HeldBy(g)["rs"] # -1
          BY <3>2, <3>3, <4>1 DEF Allowed, Mutexes
        <4>3. "rs" \in Mutexes /\ HeldBy(g)["rs"] = readers["rs"][g]
          BY <4>2 DEF HeldBy, Mutexes
        <4>4. HeldBy(g)["rs"] \in -1 .. 2
          BY <3>3, <4>3 DEF Locks
        <4>5. ~(readers["rs"][g] > 0)
          BY <3>5
        <4>6. On(g) = "meta" => HeldBy(g)["meta"] = 0
          BY <3>3, <4>1 DEF Allowed
        <4> QED BY <3>2, <4>2, <4>3, <4>4, <4>5, <4>6
      <3> QED BY <3>2, <3>4, <3>5
    <2>2. "rs" \in Mutexes /\ "meta" \in Mutexes /\ \A m \in Mutexes : m = "meta" \/ m = "rs"
      BY DEF Mutexes
    <2>3. \A g \in gs : On(g) # "rs"
      BY <2>1, <2>2, CircleHoldsWhatItWaitsFor
    <2>4. \A g \in gs : On(g) = "meta" /\ HeldBy(g)["meta"] = 0
      BY <2>1, <2>2, <2>3
    <2>5. PICK g \in gs : TRUE
      BY DEF Circle
    <2> QED BY <2>2, <2>4, <2>5, CircleHoldsWhatItWaitsFor
  <1> QED BY <1>1, LockInvAlways, PTL

=============================================================================
