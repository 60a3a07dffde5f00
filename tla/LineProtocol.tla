----------------------------- MODULE LineProtocol -----------------------------
(***************************************************************************)
(* Line protocol: adapter/line_protocol.go.  A client writes a point as a   *)
(* line, escaping what the protocol says is to be escaped, and parseLine    *)
(* cuts the line at spaces, commas and equals signs.  A text is a sequence  *)
(* of characters; the ones the parser knows are themselves, and a few       *)
(* others stand for all that is neither special nor a digit.                *)
(***************************************************************************)
EXTENDS Integers, Sequences, SequencesExt

CONSTANTS Names,     \* texts a measurement, a key or the value of a tag may be
          Strings    \* texts a string field may hold

VARIABLE point       \* the point of the line at hand, or NoPoint

Space == " "
Comma == ","
Equals == "="
Quote == "\""
Escape == "\\"
Digit == "5"
IsIn(c, s) == \E i \in DOMAIN s : s[i] = c

\* Points with at most one tag and one field of any kind, and a second field that is plain.
NoPoint == [measurement |-> <<>>]
Number(type) == [type |-> type, text |-> <<Digit>>]
Text(s) == [type |-> "string", text |-> s]
Field(key, value) == [key |-> key, value |-> value]
Points ==
    [measurement : Names,
     tags : {<<>>} \cup {<<Field(k, k)>> : k \in Names},
     fields :
        {<<Field(k, v)>> \o rest :
            k \in Names,
            v \in {Text(s) : s \in Strings} \cup {Number("integer"), Number("float")},
            rest \in {<<>>} \cup {<<Field(<<"y">>, w)>> : w \in {Number("float"), Text(<<"x">>)}}},
     stamped : BOOLEAN]

-----------------------------------------------------------------------------
(* The client: names have their spaces, commas and equals signs escaped,    *)
(* strings their quotes and backslashes.                                    *)
Escaped(s, specials) ==
    FoldLeft(LAMBDA t, c : IF c \in specials THEN t \o <<Escape, c>> ELSE Append(t, c), <<>>, s)
Name(s) == Escaped(s, {Space, Comma, Equals})
Value(v) ==
    CASE v.type = "string" -> <<Quote>> \o Escaped(v.text, {Quote, Escape}) \o <<Quote>>
      [] v.type = "integer" -> v.text \o <<"i">>
      [] v.type = "float" -> v.text
Pair(key, value) == Name(key) \o <<Equals>> \o value
Joined(parts) ==
    FoldLeft(LAMBDA t, part : IF t = <<>> THEN part ELSE t \o <<Comma>> \o part, <<>>, parts)
LineOf(p) ==
    LET series == Joined(<<Escaped(p.measurement, {Space, Comma})>> \o
                         [i \in DOMAIN p.tags |-> Pair(p.tags[i].key, Name(p.tags[i].value))])
        fields == Joined([i \in DOMAIN p.fields |->
                             Pair(p.fields[i].key, Value(p.fields[i].value))])
    IN  series \o <<Space>> \o fields \o (IF p.stamped THEN <<Space, Digit>> ELSE <<>>)

-----------------------------------------------------------------------------
(* The parser.                                                              *)

\* What has been cut so far, the part under way, and whether the scan is in an escape or
\* between quotes.
Scan == [parts |-> <<>>, current |-> <<>>, inside |-> FALSE]
Taken(scan, c) == [scan EXCEPT !.current = Append(@, c)]
CutOff(scan) == [scan EXCEPT !.parts = Append(@, scan.current), !.current = <<>>]
AtComma(scan, c) == IF c = Comma THEN CutOff(scan) ELSE Taken(scan, c)
PartsOf(scan) == IF scan.current = <<>> THEN scan.parts ELSE CutOff(scan).parts

\* splitLineParts: unescaped spaces, wherever they are.
splitLineParts(line) ==
    LET Step(scan, c) ==
            CASE scan.inside -> [Taken(scan, c) EXCEPT !.inside = FALSE]
              [] ~scan.inside /\ c = Escape -> [Taken(scan, c) EXCEPT !.inside = TRUE]
              [] ~scan.inside /\ c = Space -> IF scan.current = <<>> THEN scan ELSE CutOff(scan)
              [] OTHER -> Taken(scan, c)
    IN  PartsOf(FoldLeft(Step, Scan, line))

\* splitLineFields: commas outside quotes, where a quote after a backslash is not one.
Mutant_splitLineFields(s) ==
    PartsOf(FoldLeft(AtComma, Scan, s))
splitLineFields(s) ==
    LET Step(scan, c) ==
            LET toggles == c = Quote /\ (scan.current = <<>> \/ Last(scan.current) # Escape)
            IN  CASE toggles -> [Taken(scan, c) EXCEPT !.inside = ~@]
                  [] ~toggles /\ c = Comma /\ ~scan.inside -> CutOff(scan)
                  [] OTHER -> Taken(scan, c)
    IN  PartsOf(FoldLeft(Step, Scan, s))

\* strings.Split at commas and strings.SplitN at the first equals sign.
AtCommas(s) ==
    CutOff(FoldLeft(AtComma, Scan, s)).parts
IsPair(part) == IsIn(Equals, part)
Pairs(parts) ==
    LET first(part) ==
            CHOOSE i \in DOMAIN part :
                part[i] = Equals /\ \A j \in 1 .. i - 1 : part[j] # Equals
        split(part) == Field(SubSeq(part, 1, first(part) - 1),
                             SubSeq(part, first(part) + 1, Len(part)))
        kept == SelectSeq(parts, IsPair)
    IN  [i \in DOMAIN kept |-> split(kept[i])]
AllPairs(parts) == \A i \in DOMAIN parts : IsPair(parts[i])

\* parseFieldValue; a quote on its own is both the first and the last, and the slice between
\* them panics.
Invalid == [type |-> "error", text |-> <<>>]
Panic == [type |-> "panic", text |-> <<>>]
Digits(s) == s # <<>> /\ \A i \in DOMAIN s : s[i] = Digit
parseFieldValue(s) ==
    CASE s = <<>> -> Invalid
      [] s # <<>> /\ Last(s) = "i" ->
             IF Digits(Front(s)) THEN [type |-> "integer", text |-> Front(s)] ELSE Invalid
      [] s # <<>> /\ Head(s) = Quote /\ Last(s) = Quote ->
             IF Len(s) = 1 THEN Panic
             ELSE [type |-> "string", text |-> SubSeq(s, 2, Len(s) - 1)]
      [] OTHER -> IF Digits(s) THEN [type |-> "float", text |-> s] ELSE Invalid

\* Of two pairs with one key the later one stays in the map.
MapOf(pairs) ==
    [k \in {pairs[i].key : i \in DOMAIN pairs} |->
        pairs[CHOOSE i \in DOMAIN pairs :
                  pairs[i].key = k /\ \A j \in i + 1 .. Len(pairs) : pairs[j].key # k].value]
ReadPairs(pairs) ==
    [i \in DOMAIN pairs |-> Field(pairs[i].key, parseFieldValue(pairs[i].value))]

\* parseMeasurementAndTags: no escape is undone, and none keeps a comma from cutting.
parseMeasurementAndTags(s) ==
    LET parts == AtCommas(s)
    IN  [valid |-> Head(parts) # <<>> /\ AllPairs(Tail(parts)),
         measurement |-> Head(parts),
         tags |-> MapOf(Pairs(Tail(parts)))]

\* A field that is not a pair is passed over.
Mutant_parseFields(s) ==
    [valid |-> TRUE, pairs |-> ReadPairs(Pairs(splitLineFields(s)))]
parseFields(s) ==
    [valid |-> AllPairs(splitLineFields(s)), pairs |-> ReadPairs(Pairs(splitLineFields(s)))]

parseLine(line) ==
    LET parts == splitLineParts(line)
        series == parseMeasurementAndTags(parts[1])
        body == parseFields(parts[2])
        values == {body.pairs[i].value.type : i \in DOMAIN body.pairs}
    IN  CASE Len(parts) < 2 -> Invalid
          [] Len(parts) >= 2 /\ (~series.valid \/ ~body.valid) -> Invalid
          [] OTHER ->
                IF "panic" \in values THEN Panic
                ELSE IF "error" \in values \/ (Len(parts) >= 3 /\ ~Digits(parts[3])) THEN Invalid
                ELSE [type |-> "record", measurement |-> series.measurement,
                      tags |-> series.tags, fields |-> MapOf(body.pairs),
                      stamped |-> Len(parts) >= 3]

-----------------------------------------------------------------------------
NoneIn(s, specials) == \A c \in specials : ~IsIn(c, s)
TextsOf(p) ==
    {p.measurement} \cup UNION {{p.tags[i].key, p.tags[i].value} : i \in DOMAIN p.tags}
    \cup {p.fields[i].key : i \in DOMAIN p.fields}
StringsOf(p) ==
    {p.fields[i].value.text : i \in {j \in DOMAIN p.fields : p.fields[j].value.type = "string"}}
Distinct(p) == \A i, j \in DOMAIN p.fields : i # j => p.fields[i].key # p.fields[j].key

\* A point whose names need no escape, and whose strings have no space, quote or backslash, is
\* read as it was written: commas and equals signs between quotes cut nothing.
LineIsRead ==
    point # NoPoint /\ Distinct(point)
    /\ (\A s \in TextsOf(point) : NoneIn(s, {Space, Comma, Equals}))
    /\ (\A s \in StringsOf(point) : NoneIn(s, {Space, Quote, Escape})) =>
        parseLine(LineOf(point)) =
            [type |-> "record", measurement |-> point.measurement,
             tags |-> MapOf(point.tags),
             fields |-> MapOf(point.fields), stamped |-> point.stamped]

\* Whatever the names, and with spaces or quotes in the strings, but not both, and no
\* backslash: a line that is accepted has all its fields, of the types they were written with,
\* and its numbers are the written ones.
NoFieldIsLost ==
    LET record == parseLine(LineOf(point)) IN
    point # NoPoint /\ Distinct(point)
    /\ (\A s \in StringsOf(point) : NoneIn(s, {Escape}) /\ ~(IsIn(Space, s) /\ IsIn(Quote, s)))
    /\ record.type = "record" =>
        /\ DOMAIN record.fields = {Name(point.fields[i].key) : i \in DOMAIN point.fields}
        /\ \A i \in DOMAIN point.fields :
               LET read == record.fields[Name(point.fields[i].key)]
                   written == point.fields[i].value
               IN  read.type = written.type /\ (written.type # "string" => read = written)

=============================================================================
