------------------------------ MODULE TimesProofs ------------------------------
(***************************************************************************)
(* What holds of the intervals for every duration and of the times of a    *)
(* query for every window, not only for those TLC was given.               *)
(***************************************************************************)
EXTENDS DurationClauses, QueryTimes, TLAPS

USE WordAssumption, ClauseAssumption

\* A clause is one of the clauses.
TypeOK == clause \in Clauses

\* The length of a unit, in ticks.
LEMMA Units == Second = 10 /\ Minute = 600 /\ Hour = 36000 /\ Day = 864000 /\ Week = 6048000
  BY DEF Second, Minute, Hour, Day, Week

\* What the program computes is an integer.
LEMMA WrapType == ASSUME NEW n \in Int PROVE Wrap(n) \in Int
  BY DEF Wrap

\* parseDuration yields integers only.
LEMMA ParseType ==
    ASSUME TypeOK
    PROVE  parseDuration(clause) \subseteq Int
  <1>1. CASE clause = Infinite
    BY <1>1 DEF Infinite, parseDuration
  <1>2. CASE clause = Garbage
    BY <1>2 DEF Garbage, parseDuration
  <1>3. ASSUME NEW n \in Lengths, clause = GoDuration(n)
        PROVE  parseDuration(clause) \subseteq Int
    BY <1>3 DEF GoDuration, parseDuration
  <1>4. ASSUME NEW n \in Numbers, NEW unit \in {"h", "d", "w"}, clause = Count(n, unit)
        PROVE  parseDuration(clause) \subseteq Int
    <2>1. Ticks[unit] \in Int
      BY Units DEF Ticks
    <2>2. -Ticks[unit] \in Int /\ n * Ticks[unit] \in Int
      BY <2>1
    <2>3. Product(n, unit) \in Int
      BY <2>2, WrapType DEF Product
    <2>4. parseDuration(clause) = {Product(n, unit)}
      BY <1>4 DEF Count, parseDuration
    <2> QED BY <2>3, <2>4
  <1> QED BY <1>1, <1>2, <1>3, <1>4 DEF TypeOK, Clauses

\* The delay of compression is shorter than any retention of fifteen minutes or more.
LEMMA CompressFirst ==
    ASSUME NEW d \in Nat, d >= 15 * Minute
    PROVE  CompressAfter(d) < d
  BY Units DEF CompressAfter

\* The automatic chunk interval is an hour, or no more than a twenty-fourth of the
\* retention, or a day for what exceeds a week.
LEMMA ChunkBound ==
    ASSUME NEW d \in Nat
    PROVE  /\ AutoChunk(d) \in Nat /\ AutoChunk(d) <= Day
           /\ d >= Hour => AutoChunk(d) <= d
           /\ d > 0 /\ d < Hour => AutoChunk(d) = Hour
  BY Units DEF AutoChunk

\* The unit of an interval is a whole number of seconds that divides the length, unless
\* it is the second itself.
LEMMA IntervalLength ==
    ASSUME NEW d \in Nat, d > 0
    PROVE  nsToInterval(d) <= d /\ d - nsToInterval(d) < Second
  <1>1. CASE d >= Day /\ d % Day = 0
    BY <1>1, Units DEF nsToInterval
  <1>2. CASE ~(d >= Day /\ d % Day = 0) /\ d >= Hour /\ d % Hour = 0
    BY <1>2, Units DEF nsToInterval
  <1>3. CASE ~(d >= Day /\ d % Day = 0) /\ ~(d >= Hour /\ d % Hour = 0)
             /\ d >= Minute /\ d % Minute = 0
    BY <1>3, Units DEF nsToInterval
  <1>4. CASE ~(d >= Day /\ d % Day = 0) /\ ~(d >= Hour /\ d % Hour = 0)
             /\ ~(d >= Minute /\ d % Minute = 0)
    BY <1>4, Units DEF nsToInterval
  <1> QED BY <1>1, <1>2, <1>3, <1>4

\* The clause a policy is given is always one of the clauses.
LEMMA TypeCorrect == Spec => []TypeOK
  <1>1. Init => TypeOK
    BY DEF Init, TypeOK, Clauses
  <1>2. TypeOK /\ [Next]_clause => TypeOK'
    BY DEF TypeOK, Next
  <1> QED BY <1>1, <1>2, PTL DEF Spec

\* Whatever the retention, its data is compressed before it is deleted.
THEOREM CompressionPrecedesDrop == Spec => []CompressedBeforeDropped
  <1>1. ASSUME TypeOK PROVE CompressedBeforeDropped
    <2> SUFFICES ASSUME NEW d \in Retentions, d > 0
                 PROVE  CompressAfter(d) < d
      BY DEF CompressedBeforeDropped
    <2>1. d \in Nat /\ d >= 15 * Minute
      BY <1>1, ParseType, Units DEF Retentions, accepted
    <2> QED BY <2>1, CompressFirst
  <1> QED BY <1>1, TypeCorrect, PTL

\* Whatever the retention, an automatic chunk keeps expired data for an hour, or for no
\* longer than the retention and a day.
THEOREM ChunksAreBounded == Spec => []ChunkWithinRetention
  <1>1. ASSUME TypeOK PROVE ChunkWithinRetention
    <2>1. \A d \in Retentions : d \in Nat
      BY <1>1, ParseType DEF Retentions
    <2> QED BY <2>1, ChunkBound DEF ChunkWithinRetention
  <1> QED BY <1>1, TypeCorrect, PTL

\* Whatever the shard duration, no more than a fraction of a second of it is lost.
THEOREM ShardsAreKept == Spec => []ShardIsKept
  <1>1. ASSUME TypeOK PROVE ShardIsKept
    <2> SUFFICES ASSUME NEW d \in parseDuration(clause), d > 0
                 PROVE  /\ ChunkInterval(0, d) <= d
                        /\ d - ChunkInterval(0, d) < Second
      BY DEF ShardIsKept
    <2>1. d \in Nat
      BY <1>1, ParseType
    <2> QED BY <2>1, IntervalLength DEF ChunkInterval
  <1> QED BY <1>1, TypeCorrect, PTL

\* Whatever the retention of an hour or more, the shard group reported for it fits into it.
THEOREM ReportsFit == Spec => []ReportedShardFits
  <1>1. ASSUME TypeOK PROVE ReportedShardFits
    <2> SUFFICES ASSUME NEW d \in Retentions, d >= Hour
                 PROVE  shardGroupDuration(d) <= d
      BY DEF ReportedShardFits
    <2>1. d \in Int
      BY <1>1, ParseType DEF Retentions
    <2> QED BY <2>1, Units DEF shardGroupDuration
  <1> QED BY <1>1, TypeCorrect, PTL

-----------------------------------------------------------------------------
(* The times of a query.                                                    *)

\* What is written is at most a second before the time it stands for, and never after it.
LEMMA SecondsBounds ==
    ASSUME NEW ms \in Int
    PROVE  Seconds(ms) \in Int /\ Seconds(ms) <= ms /\ ms < Seconds(ms) + 1000
  BY SMT DEF Seconds

\* Seconds are in the order of the times they stand for.
LEMMA SecondsOrder ==
    ASSUME NEW a \in Int, NEW b \in Int, a <= b
    PROVE  Seconds(a) <= Seconds(b)
  <1>1. \E m, n \in Int : Seconds(a) = 1000 * m /\ Seconds(b) = 1000 * n
    BY SMT DEF Seconds
  <1> QED BY <1>1, SecondsBounds, SMT

\* The statement of a window that is answered compares with the seconds of its ends.
LEMMA WithinSeconds ==
    ASSUME NEW p \in Int, NEW a \in Nat, NEW b \in Nat
    PROVE  Within(p, a, b) <=> Seconds(a) <= p /\ p < Seconds(b)
  BY DEF Within, Literal, Until

\* Two windows side by side (a query that pages through time) share no point and miss none,
\* whatever their times are, from 1970 on.
THEOREM SideBySide == window \in Windows => WindowsPartition
  <1> SUFFICES ASSUME window \in Windows, Since1970, NEW p \in Times
               PROVE  /\ Within(p, window[1], window[3])
                            <=> \/ Within(p, window[1], window[2])
                                \/ Within(p, window[2], window[3])
                      /\ ~(Within(p, window[1], window[2]) /\ Within(p, window[2], window[3]))
    BY DEF WindowsPartition
  <1>1. window[1] \in Nat /\ window[2] \in Nat /\ window[3] \in Nat /\ p \in Int
    <2>1. window[1] \in Int /\ window[2] \in Int /\ window[3] \in Int /\ p \in Int
      BY TimesAssumption DEF Windows
    <2>2. DOMAIN window = 1 .. 3
      BY DEF Windows
    <2>3. window[1] >= 0 /\ window[2] >= 0 /\ window[3] >= 0
      BY <2>2 DEF Since1970
    <2> QED BY <2>1, <2>3
  <1>2. Seconds(window[1]) <= Seconds(window[2]) /\ Seconds(window[2]) <= Seconds(window[3])
    BY <1>1, SecondsOrder DEF Windows
  <1>3. \A i \in 1 .. 3 : Seconds(window[i]) \in Int
    BY <1>1, SecondsBounds
  <1> QED BY <1>1, <1>2, <1>3, WithinSeconds

\* The truncation of a window's ends is noticed in the seconds of the ends only, and a
\* DELETE by time removes no point newer than it says, whatever the times are.
THEOREM EndsOnly == window \in Windows => WrongAtTheEndsOnly
  <1> SUFFICES ASSUME window \in Windows, NEW p \in Times
               PROVE  /\ Within(p, window[1], window[2])
                            => p > window[1] - 1000 /\ p < window[2]
                      /\ Since1970 /\ window[1] <= p /\ p < window[2]
                         /\ ~Within(p, window[1], window[2])
                            => p > window[2] - 1000
                      /\ TimeFilter(p, window[1], window[2])
                            => p > window[1] - 1000 /\ p <= window[2]
    BY DEF WrongAtTheEndsOnly
  <1>1. window[1] \in Int /\ window[2] \in Int /\ p \in Int
    BY TimesAssumption DEF Windows
  <1>2. /\ Seconds(window[1]) \in Int /\ Seconds(window[2]) \in Int
        /\ Seconds(window[1]) <= window[1] /\ window[1] < Seconds(window[1]) + 1000
        /\ Seconds(window[2]) <= window[2] /\ window[2] < Seconds(window[2]) + 1000
    BY <1>1, SecondsBounds
  <1>3. Within(p, window[1], window[2]) => Seconds(window[1]) <= p /\ p < Seconds(window[2])
    BY DEF Within, Literal, Until
  <1>4. ASSUME Since1970
        PROVE  Within(p, window[1], window[2])
                 <=> Seconds(window[1]) <= p /\ p < Seconds(window[2])
    <2>1. window[1] \in Nat /\ window[2] \in Nat
      BY <1>1, <1>4 DEF Since1970, Windows
    <2> QED BY <1>1, <2>1, WithinSeconds
  <1> QED BY <1>1, <1>2, <1>3, <1>4 DEF TimeFilter

=============================================================================
