------------------------------- MODULE MCTexts -------------------------------
(***************************************************************************)
(* What the proxy makes of the texts it is given, each of the modules with  *)
(* finite sets of inputs: one text is taken up at a time and put away.      *)
(***************************************************************************)
EXTENDS DurationClauses, QueryTimes, DdlClauses, LineProtocol, SelectTranslation, TLC

\* Durations: every quarter of an hour up to ten days, and some lengths that are neither
\* whole minutes nor whole seconds; digits of which the largest do not fit an integer.
PlainLengths == {15 * Minute * k : k \in 1 .. 960} \cup {7, 904 * Second, 16 * Minute + 5}
SmallNumbers == 1 .. 100 \cup {100000000}

\* Times: around the whole seconds, before and after 1970.
Milliseconds == {-1500, -1000, -1, 0, 1, 499, 500, 999, 1000, 1001, 1500, 1999, 2000, 2500}

\* Lines: names with each character that is escaped, every string of two characters, and
\* strings that look like more than one part of a line.
EscapedNames == {<<"x">>, <<"x", ",", "y">>, <<"x", " ", "y">>, <<"x", "=", "y">>}
Characters == {"x", "5", ",", "=", " ", "\"", "\\"}
ShortStrings ==
    {<<>>} \cup {<<c>> : c \in Characters} \cup (Characters \X Characters)
    \cup {<<"x", " ", "5", " ", "x">>, <<" ", "5", " ", "i">>, <<"x", ",", "y", "=", "5">>}

\* SELECT: up to three points in two buckets, in every distribution over two hosts, with
\* values such that the first, the last, the largest and the sum of them differ.
Capitals == ("B" :> "b") @@ ("Zone" :> "zone") @@ ("V" :> "v")
Online == (0 :> 2) @@ (1 :> 3) @@ (3 :> 1)
Load == (0 :> 20) @@ (1 :> 10) @@ (3 :> 30)
Row(t, h) ==
    ("time" :> t) @@ ("host" :> h) @@ ("Zone" :> h) @@ ("a" :> Online[t]) @@ ("B" :> Load[t])
SmallTables ==
    {{Row(t, hosts[t]) : t \in {u \in DOMAIN Online : hosts[u] # ""}} :
        hosts \in [DOMAIN Online -> {"x", "y", ""}]} \ {{}}
FieldsOf(fns, columns, aliases) == [fn : fns, of : columns, as : aliases]
OneField ==
    {<<f>> : f \in FieldsOf({"", "mean", "sum", "max", "count", "last", "first"},
                            {"a", "B"}, {"", "v", "V"})}
TwoFields ==
    {<<f, g>> : f \in FieldsOf({"", "sum", "last", "first"}, {"a"}, {"", "v"}),
                g \in FieldsOf({"", "sum", "max", "last"}, {"B", "a"}, {"", "w"})}
Queries(lists, tags, wheres, limits) ==
    [fields : lists, groupByTags : SUBSET tags, groupByTime : BOOLEAN, where : wheres,
     limit : limits]
OuterFields ==
    {<<f>> : f \in FieldsOf({"", "mean", "sum", "max", "count", "last"},
                            {"v", "V", "a", "sum", "last", "mean"}, {"", "u"})}

-----------------------------------------------------------------------------
texts == <<clause, window, statement, point, select>>
Nothing ==
    /\ clause = Infinite /\ window = <<>> /\ statement = NoStatement /\ point = NoPoint
    /\ select = <<>>
TextsInit == Init /\ Nothing

TakeClause == Nothing /\ Next /\ UNCHANGED <<window, statement, point, select>>
TakeWindow ==
    Nothing /\ window' \in Windows /\ UNCHANGED <<clause, statement, point, select>>
TakeStatement ==
    Nothing /\ statement' \in Statements /\ UNCHANGED <<clause, window, point, select>>
TakeLine == Nothing /\ point' \in Points /\ UNCHANGED <<clause, window, statement, select>>
TakeSelect ==
    /\ Nothing
    /\ \E q \in Queries(OneField \cup TwoFields, Tags, {"", "host"}, {0, 1}) : select' = <<q>>
    /\ UNCHANGED <<clause, window, statement, point>>
TakeSubquery ==
    /\ Nothing
    /\ \E inner \in Queries(OneField, Tags, {""}, {0}),
          outer \in Queries(OuterFields, {"host"}, {""}, {0}) :
          /\ ComparedStatement(<<inner, outer>>)
          /\ select' = <<inner, outer>>
    /\ UNCHANGED <<clause, window, statement, point>>
PutAway ==
    /\ ~Nothing
    /\ clause' = Infinite /\ window' = <<>> /\ statement' = NoStatement /\ point' = NoPoint
    /\ select' = <<>>

TextsNext ==
    TakeClause \/ TakeWindow \/ TakeStatement \/ TakeLine \/ TakeSelect \/ TakeSubquery \/ PutAway
TextsSpec == TextsInit /\ [][TextsNext]_texts

=============================================================================
