-------------------------- MODULE MeasurementCatalog --------------------------
(***************************************************************************)
(* What the metadata store of adapter/meta.go promises a client that writes *)
(* and queries: databases, the columns of each measurement, and points.    *)
(* Every point can be asked for: its database is served and its columns    *)
(* are known.  Points are dropped by a DROP only, those of a database all  *)
(* at once, and a database is forgotten only when it holds none.           *)
(***************************************************************************)
CONSTANTS Dbs, Measurements, Columns

VARIABLES
    served,   \* the databases the proxy serves, or is about to
    schema,   \* the columns a measurement is known to have
    points    \* what is stored: [table, cols]

Tables == Dbs \X Measurements
TablesIn(db) == {t \in Tables : t[1] = db}
PointsOf(gone) == {r \in points : r.table \in gone}

Init == served = {} /\ schema = [t \in Tables |-> {}] /\ points = {}

\* A database is created, by a statement or by the first write to it.
Serve(db) == served' = served \cup {db} /\ UNCHANGED <<schema, points>>

\* A write has a column that is new to its measurement.
Describe(t, c) ==
    schema' = [schema EXCEPT ![t] = @ \cup {c}] /\ UNCHANGED <<served, points>>

\* The points a write has for one measurement, all of them or none.
Store(t, new) ==
    /\ t[1] \in served
    /\ points' = points \cup new
    /\ UNCHANGED <<served, schema>>

\* DROP MEASUREMENT, DROP DATABASE: the points vanish at once.
Clear(gone) == points' = points \ PointsOf(gone) /\ UNCHANGED <<served, schema>>

\* DROP DATABASE, then, forgets what was known of an empty database; it goes on to be served if
\* a write creates it again meanwhile.
Forget(db) ==
    /\ PointsOf(TablesIn(db)) = {}
    /\ served' \in {served, served \ {db}}
    /\ schema' = [t \in Tables |-> IF t \in TablesIn(db) THEN {} ELSE schema[t]]
    /\ UNCHANGED points

\* The process dies and is started again: it forgets only databases of which it knew no column.
Restart ==
    /\ served' \in SUBSET served
    /\ \A t \in Tables : schema[t] # {} => t[1] \in served'
    /\ UNCHANGED <<schema, points>>

Next ==
    \/ \E db \in Dbs : Serve(db) \/ Forget(db) \/ Clear(TablesIn(db))
    \/ \E t \in Tables :
          \/ \E c \in Columns : Describe(t, c)
          \/ \E new \in SUBSET [table : {t}, cols : SUBSET schema[t]] : Store(t, new)
          \/ Clear({t})
    \/ Restart

Spec == Init /\ [][Next]_<<served, schema, points>>

=============================================================================
