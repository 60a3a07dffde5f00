--------------------------- MODULE SelectTranslation ---------------------------
(***************************************************************************)
(* SELECT: adapter/influxql_parser.go, influxql_build.go and the formatting *)
(* of rows in influxql_where.go and handler_query.go.  A SELECT of InfluxQL *)
(* is translated to SQL, PostgreSQL runs it on the table of the             *)
(* measurement, and its rows become the series of the answer.  What         *)
(* InfluxDB answers on the same points is defined beside it.                *)
(*                                                                         *)
(* A query is what parseSelectQuery makes of its text.  Identifiers are     *)
(* strings: which of them keep their quotes matters, for SQL folds the      *)
(* others to lower case.  Rows form a set: the order inside a series is     *)
(* left out, and so are the labels of columns, which are the query's.  A    *)
(* point has all tags and fields, and no two points have the same time.     *)
(***************************************************************************)
EXTENDS Integers, FiniteSets, Sequences, FiniteSetsExt

CONSTANTS
    Fields, Tags,   \* the columns of the measurement, beside its time
    LowerCase,      \* identifiers with capitals -> their lower case
    Tables,         \* the sets of points a query is put to
    Width           \* of GROUP BY time(...), the same in every query

VARIABLE select     \* the statement at hand: its queries, the innermost first

Fold(name) == IF name \in DOMAIN LowerCase THEN LowerCase[name] ELSE name
Bucket(time) == (time \div Width) * Width
Latest(S) == CHOOSE p \in S : \A r \in S : r["time"] <= p["time"]
Earliest(S) == CHOOSE p \in S : \A r \in S : r["time"] >= p["time"]

\* What fn makes of column c in the rows S, in SQL and in InfluxQL; the fn of a plain column
\* is "".  Averages are counted in twelfths, to stay in the integers.
Aggregate(fn, c, S) ==
    LET sum == MapThenSumSet(LAMBDA r : r[c], S)
    IN  CASE fn = "" -> (CHOOSE r \in S : TRUE)[c]
          [] fn = "sum" -> sum
          [] fn = "count" -> Cardinality(S)
          [] fn \in {"mean", "avg"} -> (12 * sum) \div Cardinality(S)
          [] fn = "max" -> Max({r[c] : r \in S})
          [] fn = "last" -> Latest(S)[c]
          [] fn = "first" -> Earliest(S)[c]

-----------------------------------------------------------------------------
(* A query: fields are fn("of") AS "as", with "" for an fn or an alias that *)
(* is not there; where is a tag that is to have the value Wanted, or "".    *)

Wanted == "x"
Fns(q) == {q.fields[i].fn : i \in DOMAIN q.fields}
hasAggregation(q) == Fns(q) # {""}
selectors == {"last", "first"}
extractAlias(f) == IF f.as # "" THEN f.as ELSE IF f.fn # "" THEN f.fn ELSE f.of
Either(name, default) == IF name # "" THEN name ELSE default

\* The SQL of a query: its items fn(of) AS name, its plain columns, what the column time
\* shows, DISTINCT ON, GROUP BY, the order by time, the condition and LIMIT.
sqlFn(fn) == IF fn = "mean" THEN "avg" ELSE fn
Item(fn, of, name) == [fn |-> fn, of |-> of, name |-> name]

\* The last() of a bucket, the column of the last row, and everything else without quotes; a
\* plain field in a bucket is put into last() with its alias, which is no SQL.
convertField(f, bucketed) ==
    CASE f.fn \in selectors /\ bucketed -> Item(f.fn, f.of, Either(f.as, f.fn))
      [] f.fn \in selectors /\ ~bucketed -> Item("", f.of, Either(f.as, f.of))
      [] f.fn = "" /\ bucketed ->
             Item(IF f.as = "" THEN "last" ELSE "last(AS)", Fold(f.of), "last")
      [] OTHER -> Item(sqlFn(f.fn), Fold(f.of), Fold(Either(f.as, Either(sqlFn(f.fn), f.of))))
convertFields(q, bucketed) == [i \in DOMAIN q.fields |-> convertField(q.fields[i], bucketed)]

\* buildSimpleSQL, in its parts.
selecting(q) == Fns(q) \cap selectors # {}
timeColumn(q) == CASE q.groupByTime -> "bucket"
                   [] ~q.groupByTime /\ hasAggregation(q) /\ ~selecting(q) -> "none"
                   [] OTHER -> "plain"
\* No DISTINCT ON: the newest row of each series comes first, and the others after it.
Mutant_distinctCols(q) == {}
distinctCols(q) == IF selecting(q) THEN {Fold(t) : t \in q.groupByTags} ELSE {}
\* Buckets alone, whatever the tags.
Mutant_groupCols(q) ==
    IF q.groupByTime THEN {"bucket"}
    ELSE IF hasAggregation(q) /\ ~selecting(q) THEN q.groupByTags ELSE {}
groupCols(q) ==
    IF q.groupByTime THEN q.groupByTags \cup {"bucket"}
    ELSE IF hasAggregation(q) /\ ~selecting(q) THEN q.groupByTags ELSE {}
orderCols(q) == CASE q.groupByTime -> "bucket"
                  [] ~q.groupByTime /\ "last" \in Fns(q) -> "desc"
                  [] ~q.groupByTime /\ Fns(q) \cap selectors = {"first"} -> "asc"
                  [] OTHER -> "none"
buildSimpleSQL(q) ==
    [items |-> convertFields(q, q.groupByTime), plain |-> q.groupByTags,
     time |-> timeColumn(q), distinctOn |-> distinctCols(q), groupBy |-> groupCols(q),
     order |-> orderCols(q), where |-> Fold(q.where), limit |-> q.limit]

\* buildOuterSQL: neither the condition nor LIMIT, and GROUP BY time only as an order.
outerFn(fn) == IF fn \in selectors THEN "last(value)" ELSE sqlFn(fn)
buildOuterSQL(outer, inner) ==
    [items |-> [i \in DOMAIN outer.fields |->
                   LET f == outer.fields[i]
                   IN Item(outerFn(f.fn), Fold(f.of),
                           Fold(Either(f.as, Either(outerFn(f.fn), f.of))))],
     plain |-> outer.groupByTags,
     time |-> IF inner.groupByTime /\ ~outer.groupByTime /\ ~hasAggregation(outer)
              THEN "plain" ELSE "none",
     distinctOn |-> {},
     groupBy |-> outer.groupByTags,
     order |-> IF outer.groupByTime THEN "bucket" ELSE "none",
     where |-> "",
     limit |-> 0]

-----------------------------------------------------------------------------
(* PostgreSQL.  A relation has columns and rows, functions on the columns.  *)
(* A statement is refused, or fails because something does not exist, or    *)
(* gives a relation: one of several when LIMIT cuts what has no order.      *)

Refused == [is |-> "refused", columns |-> {}, rows |-> {}]
Missing == [is |-> "missing", columns |-> {}, rows |-> {}]
Relation(columns, rows) == [is |-> "rows", columns |-> columns, rows |-> rows]
SqlFns == {"", "avg", "sum", "count", "max", "last", "first", "last(AS)"}

Grouped(sql) == sql.groupBy # {} \/ \E i \in DOMAIN sql.items : sql.items[i].fn # ""
Uses(sql) ==
    {sql.items[i].of : i \in DOMAIN sql.items} \cup sql.plain \cup sql.distinctOn
    \cup (IF sql.time # "none" \/ sql.order # "none" THEN {"time"} ELSE {})
    \cup ({sql.where} \ {""})
\* An alias inside last(), plain columns beside aggregates, or an order that does not begin
\* with DISTINCT ON.
Illegal(sql) ==
    \/ \E i \in DOMAIN sql.items : sql.items[i].fn = "last(AS)"
    \/ sql.distinctOn # {} /\ sql.order = "bucket"
    \/ /\ Grouped(sql)
       /\ \/ sql.time = "plain" \/ sql.order \in {"asc", "desc"}
          \/ sql.order = "bucket" /\ "bucket" \notin sql.groupBy
          \/ ~(sql.plain \subseteq sql.groupBy)
          \/ \E i \in DOMAIN sql.items :
                 sql.items[i].fn = "" /\ sql.items[i].of \notin sql.groupBy

\* The sets of rows that each give one row of the result.
Groups(sql, rows) ==
    LET Key(r) == [c \in sql.groupBy |-> IF c = "bucket" THEN Bucket(r["time"]) ELSE r[c]]
        Same(r) == {p \in rows : \A t \in sql.distinctOn : p[t] = r[t]}
    IN  CASE Grouped(sql) -> {{p \in rows : Key(p) = Key(r)} : r \in rows}
          [] ~Grouped(sql) /\ sql.distinctOn # {} ->
                 {{IF sql.order = "asc" THEN Earliest(Same(r)) ELSE Latest(Same(r))} : r \in rows}
          [] OTHER -> {{r} : r \in rows}

\* Of two items with one name the later one is what the proxy keeps of a row.
Named(items, name) == items[Max({i \in DOMAIN items : items[i].name = name})]
ItemNames(items) == {items[i].name : i \in DOMAIN items}
ColumnsOut(sql) ==
    ItemNames(sql.items) \cup sql.plain \cup (IF sql.time = "none" THEN {} ELSE {"time"})
RowOf(sql, G) ==
    [c \in ColumnsOut(sql) |->
        CASE c \in ItemNames(sql.items) ->
                 LET item == Named(sql.items, c) IN Aggregate(item.fn, item.of, G)
          [] c = "time" /\ sql.time = "bucket" -> Bucket(Latest(G)["time"])
          [] OTHER -> Aggregate("", c, G)]

Cut(sql, rows) ==
    LET Before(r, s) == CASE sql.distinctOn # {} \/ sql.order = "none" -> TRUE
                          [] sql.distinctOn = {} /\ sql.order = "desc" -> r["time"] >= s["time"]
                          [] OTHER -> r["time"] <= s["time"]
    IN  IF sql.limit = 0 \/ Cardinality(rows) <= sql.limit THEN {rows}
        ELSE {S \in kSubset(sql.limit, rows) : \A r \in S, s \in rows \ S : Before(r, s)}

Results(sql, relation) ==
    LET matching == {r \in relation.rows : sql.where = "" \/ r[sql.where] = Wanted}
    IN  CASE relation.is # "rows" -> {relation}
          [] relation.is = "rows" /\ (\/ ~(Uses(sql) \subseteq relation.columns)
                                      \/ \E i \in DOMAIN sql.items : sql.items[i].fn \notin SqlFns)
                -> {Missing}
          [] OTHER -> IF Illegal(sql) THEN {Refused}
                      ELSE {Relation(ColumnsOut(sql), S) :
                                S \in Cut(sql, {RowOf(sql, G) : G \in Groups(sql, matching)})}

\* buildLastFirstLateralSQL, run: for the tags of each row that matches, the last (or first)
\* of the rows with those tags, reduced to the converted fields; from those the outer SELECT
\* takes the columns that the fields are made of, under the names of the fields.
Lateral(q, table) ==
    LET items == convertFields(q, FALSE)
        matching == {r \in table.rows : q.where = "" \/ r[Fold(q.where)] = Wanted}
        Same(r) == {p \in matching : \A t \in q.groupByTags : p[t] = r[t]}
        Found(r) == IF "first" \in Fns(q) THEN Earliest(Same(r)) ELSE Latest(Same(r))
        inner == [name \in ItemNames(items) |-> Named(items, name).of]
    IN  CASE ~(({items[i].of : i \in DOMAIN items} \cup ({Fold(q.where)} \ {""}))
                   \subseteq table.columns) -> Missing
          [] \E i \in DOMAIN items : items[i].fn # "" -> Refused
          [] \E i \in DOMAIN items : items[i].of \notin ItemNames(items) -> Missing
          [] OTHER -> Relation(ItemNames(items) \cup q.groupByTags \cup {"time"},
                 {[c \in ItemNames(items) \cup q.groupByTags \cup {"time"} |->
                      IF c \in ItemNames(items) THEN Found(r)[inner[Named(items, c).of]]
                      ELSE Found(r)[c]] : r \in matching})

\* handleSimpleSelect and handleSubquery: what is run, and what comes of it.
Table(points) == Relation({"time"} \cup Tags \cup Fields, points)
Outcomes(queries, points) ==
    LET q == Head(queries) IN
    CASE Len(queries) = 2 ->
             UNION {Results(buildOuterSQL(queries[2], q), inner) :
                        inner \in Results(buildSimpleSQL(q), Table(points))}
      [] Len(queries) = 1 /\ selecting(q) /\ q.groupByTags # {} /\ ~q.groupByTime ->
             {Lateral(q, Table(points))}
      [] OTHER -> Results(buildSimpleSQL(q), Table(points))

\* executeAndFormat and buildInfluxResult: one series for the values of the tags, each row
\* with its time, or 0 where the SQL has no time.
buildInfluxResult(items, tags, rows) ==
    LET TagsOf(r) == [t \in tags |-> r[t]]
        valRow(r) == [time |-> IF "time" \in DOMAIN r THEN r["time"] ELSE 0,
                      values |-> [i \in DOMAIN items |-> r[items[i].name]]]
    IN  [k \in {TagsOf(r) : r \in rows} |-> {valRow(r) : r \in {s \in rows : TagsOf(s) = k}}]

Items(queries) ==
    IF Len(queries) = 2 THEN buildOuterSQL(queries[2], queries[1]).items
    ELSE convertFields(queries[1], queries[1].groupByTime)

-----------------------------------------------------------------------------
(* InfluxDB.  A selector alone, or with plain fields, chooses one point of  *)
(* a series (or of a bucket of it) and keeps its time; other functions have *)
(* the time of the bucket, or 0.  LIMIT is per series.                      *)

Calls(q) == {i \in DOMAIN q.fields : q.fields[i].fn # ""}
OneSelector(q) == Cardinality(Calls(q)) = 1 /\ selecting(q)
Chosen(q, S) ==
    CASE OneSelector(q) /\ "last" \in Fns(q) -> {Latest(S)}
      [] OneSelector(q) /\ "first" \in Fns(q) -> {Earliest(S)}
      [] OTHER -> S
InfluxRow(q, S) ==
    [time |-> CASE q.groupByTime -> Bucket(Latest(S)["time"])
                [] ~q.groupByTime /\ (OneSelector(q) \/ Calls(q) = {}) ->
                       Latest(Chosen(q, S))["time"]
                [] OTHER -> 0,
     values |-> [i \in DOMAIN q.fields |->
                    Aggregate(q.fields[i].fn, q.fields[i].of, Chosen(q, S))]]
InfluxSets(q, S) ==
    CASE q.groupByTime -> {{p \in S : Bucket(p["time"]) = Bucket(r["time"])} : r \in S}
      [] ~q.groupByTime /\ Calls(q) # {} -> {S}
      [] OTHER -> {{p} : p \in S}
InfluxSeries(q, points) ==
    LET TagsOf(p) == [t \in q.groupByTags |-> p[t]]
        matching == {p \in points : q.where = "" \/ p[q.where] = Wanted}
        all(k) == {InfluxRow(q, S) : S \in InfluxSets(q, {p \in matching : TagsOf(p) = k})}
        early(k, row) == Cardinality({r \in all(k) : r.time < row.time}) < q.limit
    IN  [k \in {TagsOf(p) : p \in matching} |->
            {row \in all(k) : q.limit = 0 \/ early(k, row)}]

\* The series of a subquery, as points for the outer query.
Labels(q) == {extractAlias(q.fields[i]) : i \in DOMAIN q.fields}
InfluxPoints(q, points) ==
    LET series == InfluxSeries(q, points)
        field(label) == CHOOSE i \in DOMAIN q.fields : extractAlias(q.fields[i]) = label
    IN  UNION {{[c \in {"time"} \cup DOMAIN k \cup Labels(q) |->
                    CASE c = "time" -> row.time
                      [] c \in DOMAIN k -> k[c]
                      [] OTHER -> row.values[field(c)]] : row \in series[k]} :
                   k \in DOMAIN series}
InfluxAnswer(queries, points) ==
    IF Len(queries) = 1 THEN InfluxSeries(queries[1], points)
    ELSE InfluxSeries(queries[2], InfluxPoints(queries[1], points))

-----------------------------------------------------------------------------
(* The queries the two can be compared on.  InfluxDB accepts no field that  *)
(* is neither aggregated nor chosen with others that are, and none at all   *)
(* with GROUP BY time.  What is excluded beyond that is where the proxy is  *)
(* known to answer differently.                                             *)
Accepted(q) ==
    /\ Calls(q) = {} \/ Calls(q) = DOMAIN q.fields \/ OneSelector(q)
    /\ q.groupByTime => Calls(q) # {}
Compared(q) ==
    /\ Accepted(q)
    \* Two items of one name show the same column twice.
    /\ \A i, j \in DOMAIN q.fields : i # j =>
           convertFields(q, q.groupByTime)[i].name # convertFields(q, q.groupByTime)[j].name
    \* All functions of the last row are taken from the first, when there is a first().
    /\ ~(selectors \subseteq Fns(q))
    \* A plain field of a bucket is that of its last row.
    /\ q.groupByTime /\ "first" \in Fns(q) => "" \notin Fns(q)
    \* LIMIT cuts all series together, and, without GROUP BY time, in no order.
    /\ q.limit > 0 => q.groupByTags = {} /\ (q.groupByTime \/ OneSelector(q))
    \* Without a tag and a bucket, last() is all rows in order, from which LIMIT 1 takes it.
    /\ selecting(q) /\ q.groupByTags = {} /\ ~q.groupByTime => q.limit = 1
ComparedOuter(outer, inner) ==
    /\ Compared(outer) /\ outer.limit = 0 /\ outer.where = ""
    /\ {outer.fields[i].of : i \in DOMAIN outer.fields} \subseteq Labels(inner)
    /\ outer.groupByTags \subseteq inner.groupByTags
ComparedStatement(queries) ==
    /\ Compared(queries[1])
    /\ Len(queries) = 2 => ComparedOuter(queries[2], queries[1])

\* An aggregate without a bucket has no time of its own, and neither has what an outer query
\* takes from a subquery without buckets.
Timed(queries) ==
    LET q == queries[Len(queries)] IN
    /\ q.groupByTime \/ Calls(q) = {} \/ OneSelector(q)
    /\ Len(queries) = 2 => queries[1].groupByTime
Untimed(series) == [k \in DOMAIN series |-> {row.values : row \in series[k]}]

RightAnswer(queries, outcome, points) ==
    LET outer == queries[Len(queries)]
        answer == buildInfluxResult(Items(queries), outer.groupByTags, outcome.rows)
        expected == InfluxAnswer(queries, points)
    IN  /\ outcome.is = "rows"
        /\ IF Timed(queries) THEN answer = expected ELSE Untimed(answer) = Untimed(expected)

\* Tables with something to select.
TablesFor(queries) ==
    {points \in Tables : queries[1].where # "" => \E p \in points : p[queries[1].where] = Wanted}

\* A SELECT never gives an answer InfluxDB would not give: what the translation does not
\* cover is refused by PostgreSQL, or names something that does not exist and comes back
\* empty, but is not computed from the wrong rows or columns.
SelectNeverMisleads ==
    select # <<>> /\ ComparedStatement(select) =>
        \A points \in TablesFor(select) : \A outcome \in Outcomes(select, points) :
            outcome.is = "rows" => RightAnswer(select, outcome, points)

\* The queries of the README and of the comparison with InfluxDB in docs/ are answered, and
\* right: every identifier survives without its quotes, last() has no alias unless inside a
\* subquery, and is not asked for by bucket and tag.
Plain(q) ==
    /\ \A i \in DOMAIN q.fields :
           Fold(q.fields[i].of) = q.fields[i].of /\ Fold(q.fields[i].as) = q.fields[i].as
    /\ \A t \in q.groupByTags \cup {q.where} : Fold(t) = t
    /\ selecting(q) =>
           IF q.groupByTime THEN q.groupByTags = {} ELSE Fns(q) \subseteq selectors \cup {""}
    /\ q.groupByTime => "" \notin Fns(q)
Answerable(queries) ==
    LET q == queries[1] IN
    /\ Plain(q)
    /\ Len(queries) = 1 /\ selecting(q) /\ q.groupByTags # {} =>
           \A i \in DOMAIN q.fields : q.fields[i].as = ""
    /\ Len(queries) = 2 =>
           /\ Plain(queries[2]) /\ Fns(queries[2]) \cap selectors = {}
           /\ ~queries[2].groupByTime
           /\ Calls(queries[2]) = {} => queries[2].groupByTags = {}
           /\ \A i \in DOMAIN q.fields :
                  extractAlias(q.fields[i]) = convertField(q.fields[i], q.groupByTime).name
SelectIsAnswered ==
    select # <<>> /\ ComparedStatement(select) /\ Answerable(select) =>
        \A points \in TablesFor(select) : \A outcome \in Outcomes(select, points) :
            RightAnswer(select, outcome, points)

=============================================================================
