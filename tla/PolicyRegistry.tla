---------------------------- MODULE PolicyRegistry ----------------------------
(***************************************************************************)
(* What the policy store of adapter/retention.go promises: a registry of   *)
(* named policies per database, of which at most one is the default.  A    *)
(* statement of InfluxQL takes effect at once, on one database; the only   *)
(* thing one that is cut short can do is to leave its database without a   *)
(* default.                                                                *)
(***************************************************************************)
EXTENDS Integers

CONSTANTS
    Dbs, Names,    \* databases and policy names
    Autogen,       \* the policy every database is given
    Nothing,       \* the value of a key no policy is registered under
    Lengths,       \* durations of policies and of shards
    Shortest       \* the shortest retention there may be, but for 0, which is for ever

VARIABLES
    registry,      \* the durations of a policy, or Nothing
    defaults       \* the default policies

Keys == Dbs \X Names
Lasting(d) == d <= 0 \/ d >= Shortest
Elsewhere(db) == {k \in defaults : k[1] # db}

Init == registry = [k \in Keys |-> Nothing] /\ defaults = {}

\* CREATE RETENTION POLICY, of a new name or of one there is: a default policy takes the place
\* of the others, and one that is created again without DEFAULT is none any more.
Create(key, d, shard, default) ==
    /\ Lasting(d)
    /\ registry' = [registry EXCEPT ![key] = [dur |-> d, shard |-> shard]]
    /\ defaults' = IF default THEN Elsewhere(key[1]) \cup {key} ELSE defaults \ {key}

\* ALTER RETENTION POLICY ... DURATION, SHARD DURATION
Alter(key, d, shard) ==
    /\ registry[key] # Nothing
    /\ d = registry[key].dur \/ Lasting(d)
    /\ registry' = [registry EXCEPT ![key] = [dur |-> d, shard |-> shard]]
    /\ UNCHANGED defaults

\* ALTER RETENTION POLICY ... DEFAULT
MakeDefault(key) ==
    /\ registry[key] # Nothing
    /\ defaults' = Elsewhere(key[1]) \cup {key}
    /\ UNCHANGED registry

\* DROP RETENTION POLICY: never of a default one.
Drop(key) ==
    /\ registry[key] # Nothing /\ key \notin defaults
    /\ registry' = [registry EXCEPT ![key] = Nothing]
    /\ UNCHANGED defaults

\* A statement that replaces the default of a database is cut short.
LoseDefault(db) == defaults' = Elsewhere(db) /\ UNCHANGED registry

\* DROP DATABASE
DropAll(db) ==
    /\ registry' = [k \in Keys |-> IF k[1] = db THEN Nothing ELSE registry[k]]
    /\ defaults' = Elsewhere(db)

\* A database that is created, written to or served at startup has autogen afterwards, and
\* with it a default, unless it has one already.
GiveAutogen(db) ==
    LET key == <<db, Autogen>> IN
    /\ registry[key] = Nothing
    /\ registry' = [registry EXCEPT ![key] = [dur |-> 0, shard |-> 0]]
    /\ defaults' = IF Elsewhere(db) = defaults THEN defaults \cup {key} ELSE defaults

Next ==
    \/ \E key \in Keys :
          \/ \E d, shard \in Lengths : (\E b \in BOOLEAN : Create(key, d, shard, b))
                                       \/ Alter(key, d, shard)
          \/ MakeDefault(key) \/ Drop(key)
    \/ \E db \in Dbs : LoseDefault(db) \/ DropAll(db) \/ GiveAutogen(db)

Spec == Init /\ [][Next]_<<registry, defaults>>

\* What follows from the operations: a database has one default, or none.
OneDefault == \A k, l \in defaults : k[1] = l[1] => k = l

=============================================================================
