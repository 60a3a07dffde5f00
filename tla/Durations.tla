------------------------------ MODULE Durations ------------------------------
(***************************************************************************)
(* The arithmetic of retention policies in adapter/retention.go: how a     *)
(* DURATION clause becomes a number, and which chunk, compression and job  *)
(* intervals a number gives.  Durations are counted in ticks of a tenth of *)
(* a second, so that there is something a whole number of seconds cannot   *)
(* express and years still fit TLC's integers.  The program counts         *)
(* nanoseconds in an int64; the size of that word is a parameter here.     *)
(***************************************************************************)
EXTENDS Integers

CONSTANT Word   \* how many values an integer of the program has
ASSUME WordAssumption == Word \in Nat \ {0} /\ Word % 2 = 0

Second == 10
Minute == 60 * Second
Hour == 60 * Minute
Day == 24 * Hour
Week == 7 * Day

MaxInt == (Word \div 2) - 1

\* The integer of the program that is n modulo Word.
Wrap(n) == ((n + (Word \div 2)) % Word) - (Word \div 2)

-----------------------------------------------------------------------------
(* parseDuration.  A clause is INF (or 0s, or 0), or what Go's              *)
(* time.ParseDuration accepts (any signed length, checked against overflow  *)
(* there), or digits followed by one of the units h, d and w, or neither.   *)
(* The clauses in h that fit are read by Go's parser, with the same result. *)

Infinite == [form |-> "inf"]
GoDuration(n) == [form |-> "go", length |-> n]
Count(n, unit) == [form |-> "count", number |-> n, unit |-> unit]
Garbage == [form |-> "garbage"]

Ticks == [h |-> Hour, d |-> Day, w |-> Week]

\* number * multiplier.  Digits past the range of an integer give the largest one
\* (the error of ParseInt is ignored); times an even multiplier that is -multiplier.
\* Nothing notices a product that does not fit: it comes out as some other length.
Product(n, unit) ==
    IF n > MaxInt THEN Wrap(-Ticks[unit]) ELSE Wrap(n * Ticks[unit])

\* The number a clause stands for, or no number if it is refused.
parseDuration(clause) ==
    CASE clause.form = "inf" -> {0}
      [] clause.form = "go" -> {clause.length}
      [] clause.form = "count" -> {Product(clause.number, clause.unit)}
      [] OTHER -> {}

\* The minimum CreatePolicy and AlterPolicy enforce.
accepted(d) == ~(d > 0 /\ d < 15 * Minute)

-----------------------------------------------------------------------------
(* Intervals sent to TimescaleDB.                                           *)

\* A Mutant_ operator is a plausible bug in the definition that follows it.  Here: the
\* largest unit that fits, without the tests that it divides the length.
Mutant_nsToInterval(d) ==
    IF d >= Day THEN (d \div Day) * Day
    ELSE IF d >= Hour THEN (d \div Hour) * Hour ELSE (d \div Second) * Second

\* nsToInterval: a count of the largest unit that divides d; seconds are rounded
\* down.  An SQL interval is its length in ticks.
nsToInterval(d) ==
    LET unit == IF d >= Day /\ d % Day = 0 THEN Day
                ELSE IF d >= Hour /\ d % Hour = 0 THEN Hour
                ELSE IF d >= Minute /\ d % Minute = 0 THEN Minute
                ELSE Second
    IN (d \div unit) * unit

\* Neither the division by 24 nor the minimum of an hour.
Mutant_AutoChunk(d) == IF d = 0 \/ d \div Hour > 7 * 24 THEN Day ELSE (d \div Hour) * Hour

\* The chunk interval of a retention d when no shard duration is set.
AutoChunk(d) ==
    LET hours == d \div Hour IN
    IF d = 0 \/ hours > 7 * 24 THEN Day
    ELSE IF hours \div 24 < 1 THEN Hour
    ELSE (hours \div 24) * Hour

\* DefaultChunkInterval of a policy; "1 day" without one.
ChunkInterval(d, shard) == IF shard > 0 THEN nsToInterval(shard) ELSE AutoChunk(d)
NoPolicyInterval == Day

\* A quarter of the retention, but at least an hour.
Mutant_CompressAfter(d) == IF d = 0 \/ d \div Hour > 7 * 24 THEN Day
                           ELSE IF d \div Hour < 4 THEN Hour ELSE ((d \div Hour) \div 4) * Hour

\* DefaultCompressAfter.
CompressAfter(d) ==
    LET hours == d \div Hour IN
    IF d = 0 \/ hours > 7 * 24 THEN Day
    ELSE IF hours \div 4 < 1 THEN 10 * Second
    ELSE (hours \div 4) * Hour

\* How often the retention job and the compression job run.
RetentionSchedule(d) == IF d # 0 /\ d \div Hour < 24 THEN 5 * Minute ELSE Hour
CompressionSchedule(d) == IF d # 0 /\ d \div Hour < 24 THEN Minute ELSE Hour

\* The test for a retention shorter than a day is missing.
Mutant_shardGroupDuration(d) ==
    LET hours == d \div Hour IN
    IF hours = 0 THEN 168 * Hour ELSE IF hours < 4320 THEN 24 * Hour ELSE 168 * Hour

\* shardGroupDuration, what SHOW RETENTION POLICIES reports.
shardGroupDuration(d) ==
    LET hours == d \div Hour IN
    IF hours = 0 THEN 168 * Hour
    ELSE IF hours < 24 THEN Hour
    ELSE IF hours < 4320 THEN 24 * Hour
    ELSE 168 * Hour

=============================================================================
