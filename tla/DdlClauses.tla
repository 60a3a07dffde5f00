------------------------------ MODULE DdlClauses ------------------------------
(***************************************************************************)
(* How CREATE and ALTER RETENTION POLICY and DELETE are cut out of their    *)
(* text (adapter/influxql_ddl.go, influxql_show.go).  The code looks for    *)
(* keywords anywhere in the text, and the text also holds the names of the  *)
(* policy, the database and the measurement.                                *)
(*                                                                         *)
(* A text is a sequence of tokens.  A token holds a keyword when it is that *)
(* keyword, or a name with the keyword inside (duration_x, my_default);     *)
(* rest is what extractFirstToken reads there after the keyword, "" at the  *)
(* end of the token, as in my_shard without quotes.                         *)
(* Names have no spaces in them.                                            *)
(***************************************************************************)
EXTENDS Integers, Sequences, SequencesExt

CONSTANT Words       \* keywords that names may hold

VARIABLE statement   \* the statement at hand, or NoStatement

Token(text, holds, rest) == [text |-> text, holds |-> holds, rest |-> rest]
Keyword(k) == Token(k, k, "")
Operand(text) == Token(text, "", "")
\* A keyword in a name is followed by what is no duration or, as in duration7d, by one, or by
\* nothing.
AnyName(text) ==
    {Operand(text)}
    \cup {Token(text, word, rest) : word \in Words, rest \in {"garbage", "7d", ""}}

\* The clauses of a statement in the order in which they are written.
Written == [DURATION |-> <<Keyword("DURATION"), Operand("30d")>>,
            REPLICATION |-> <<Keyword("REPLICATION"), Operand("1")>>,
            SHARD |-> <<Keyword("SHARD"), Keyword("DURATION"), Operand("1h")>>,
            DEFAULT |-> <<Keyword("DEFAULT")>>]
Given(s, clause) == \E i \in DOMAIN s.clauses : s.clauses[i] = clause
TextOf(s) ==
    <<s.name, Keyword("ON"), s.db>>
    \o FlattenSeq([i \in DOMAIN s.clauses |-> Written[s.clauses[i]]])

\* CREATE has its clauses in one order, and so has ALTER in the comment of its handler.
Orders(must, may) ==
    {SelectSeq(<<"DURATION", "REPLICATION", "SHARD", "DEFAULT">>,
               LAMBDA c : c \in must \cup extra) : extra \in SUBSET may}
Statements ==
    [verb : {"CREATE"}, name : AnyName("policy"), db : AnyName("db"),
     clauses : Orders({"DURATION", "REPLICATION"}, {"SHARD", "DEFAULT"})]
    \cup
    [verb : {"ALTER"}, name : AnyName("policy"), db : AnyName("db"),
     clauses : Orders({}, {"DURATION", "REPLICATION", "SHARD", "DEFAULT"})]
    \cup
    [verb : {"DELETE"}, name : AnyName("measurement"), where : BOOLEAN]
NoStatement == [verb |-> ""]

-----------------------------------------------------------------------------
(* strings.Index, strings.LastIndex, and what follows.                      *)

Places(s, word) == {i \in DOMAIN s : s[i].holds = word}
Index(s, word) ==
    IF Places(s, word) = {} THEN 0
    ELSE CHOOSE i \in Places(s, word) : \A j \in Places(s, word) : i <= j
LastIndex(s, word) ==
    IF Places(s, word) = {} THEN 0
    ELSE CHOOSE i \in Places(s, word) : \A j \in Places(s, word) : i >= j
Has(s, from, word) == \E i \in Places(s, word) : i > from
\* SHARD DURATION is found only where the two stand side by side.
ShardIndex(s) ==
    LET sides == {i \in Places(s, "SHARD") :
                     i < Len(s) /\ s[i].rest = "" /\ s[i + 1].text = "DURATION"}
    IN  IF sides = {} THEN 0 ELSE CHOOSE i \in sides : \A j \in sides : i <= j
TokenAfter(s, i) ==
    CASE s[i].rest # "" -> s[i].rest
      [] s[i].rest = "" /\ i < Len(s) -> s[i + 1].text
      [] OTHER -> "nothing"

shardDuration(s) == IF ShardIndex(s) = 0 THEN "" ELSE TokenAfter(s, ShardIndex(s) + 1)
extractOnDB(s) == TokenAfter(s, Index(s, "ON"))
Read(s, duration, isDefault) ==
    [name |-> s[1].text, db |-> extractOnDB(s), duration |-> duration,
     shard |-> shardDuration(s), default |-> isDefault]
IsLength(text) == text \in {"30d", "1h", "7d"}
Refusal == [name |-> "", db |-> "", duration |-> "", shard |-> "", default |-> FALSE]

\* handleCreateRetentionPolicy: the first DURATION, and DEFAULT after the last REPLICATION.
Mutant_isDefault(s) == Has(s, 0, "DEFAULT")
isDefault(s) ==
    LastIndex(s, "REPLICATION") > 0 /\ Has(s, LastIndex(s, "REPLICATION"), "DEFAULT")
handleCreateRetentionPolicy(s) ==
    LET duration == TokenAfter(s, Index(s, "DURATION"))
    IN  IF Index(s, "DURATION") = 0 \/ ~IsLength(duration) THEN Refusal
        ELSE Read(s, duration, isDefault(s))

\* handleAlterRetentionPolicy: the first DURATION unless it is that of SHARD DURATION; DEFAULT
\* after it, or else after REPLICATION, or else anywhere.
durIdx(s) ==
    LET i == Index(s, "DURATION")
    IN  IF i > 1 /\ s[i - 1].holds = "SHARD" /\ s[i - 1].rest = "" THEN 0 ELSE i
hasAlterDefault(s) ==
    Has(s, IF durIdx(s) > 0 THEN durIdx(s) ELSE LastIndex(s, "REPLICATION"), "DEFAULT")
handleAlterRetentionPolicy(s) ==
    LET duration == IF durIdx(s) = 0 THEN "" ELSE TokenAfter(s, durIdx(s))
    IN  IF duration # "" /\ ~IsLength(duration) THEN Refusal
        ELSE Read(s, duration, hasAlterDefault(s))

\* handleDelete with a measurement: the condition is what follows the first WHERE, in any case
\* of letters.  A condition that begins inside a name names what is no column, or is no SQL.
whereFound(s) == s.where \/ (s.name.holds = "WHERE" /\ s.name.rest # "")
handleDelete(s) ==
    CASE ~whereFound(s) -> "all"
      [] whereFound(s) /\ s.name.holds = "WHERE" -> "none"
      [] OTHER -> "matching"

-----------------------------------------------------------------------------
Asked(s) ==
    [name |-> s.name.text, db |-> s.db.text,
     duration |-> IF Given(s, "DURATION") THEN "30d" ELSE "",
     shard |-> IF Given(s, "SHARD") THEN "1h" ELSE "", default |-> Given(s, "DEFAULT")]
\* The names that are known to be taken for clauses: a length after the word duration, and
\* the word shard at the end of the database, before DURATION.
TakenForClause(s) ==
    \/ \E n \in {s.name, s.db} : n.holds = "DURATION" /\ n.rest = "7d"
    \/ s.db.holds = "SHARD" /\ s.db.rest = "" /\ Given(s, "DURATION")
DefaultInName(s) == "DEFAULT" \in {s.name.holds, s.db.holds}
PlainNames(s) == s.name.holds = "" /\ s.db.holds = ""

\* A CREATE RETENTION POLICY sets what it says, whatever is in the names, or is refused
\* (comment of the handler: "only search after REPLICATION to avoid matching policy name").
\* So does an ALTER with its clauses in the order of its handler's comment, but that without
\* DURATION and REPLICATION a name that holds DEFAULT makes the policy the default; a SHARD
\* DURATION alone does not change the duration, and neither clause is lost.  With names that
\* hold no keyword neither statement is refused.  A DELETE with a condition never deletes what
\* does not satisfy it.
ClausesAreRead ==
    LET text == TextOf(statement)
        read == IF statement.verb = "CREATE" THEN handleCreateRetentionPolicy(text)
                ELSE handleAlterRetentionPolicy(text)
        searchedInNames ==
            /\ statement.verb = "ALTER" /\ DefaultInName(statement)
            /\ ~Given(statement, "DURATION") /\ ~Given(statement, "REPLICATION")
    IN  /\ statement.verb \in {"CREATE", "ALTER"} /\ ~TakenForClause(statement) /\ ~searchedInNames =>
              /\ read \in {Refusal, Asked(statement)}
              /\ PlainNames(statement) => read = Asked(statement)
        /\ statement.verb = "DELETE" /\ statement.where => handleDelete(statement) # "all"

=============================================================================
