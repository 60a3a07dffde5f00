--------------------------- MODULE DurationClauses ---------------------------
(***************************************************************************)
(* Durations at work: a policy is given one DURATION (or SHARD DURATION)   *)
(* clause after the other, and what follows from the clause is judged.     *)
(***************************************************************************)
EXTENDS Durations

CONSTANTS Numbers,     \* digits of a clause with a unit of its own
          Lengths      \* lengths of a clause that Go's parser reads
ASSUME ClauseAssumption == Numbers \subseteq Nat /\ Lengths \subseteq Int

VARIABLE clause

Clauses ==
    {Infinite, Garbage} \cup {GoDuration(n) : n \in Lengths}
    \cup {Count(n, unit) : n \in Numbers, unit \in {"h", "d", "w"}}

Init == clause = Infinite
Next == \E c \in Clauses : clause' = c
Spec == Init /\ [][Next]_clause

\* The durations a policy can be given, but for the negative ones, which nothing refuses.
Retentions == {d \in parseDuration(clause) : accepted(d) /\ d >= 0}

-----------------------------------------------------------------------------
\* Data is compressed before its retention deletes it, whatever the retention: the
\* delay is shorter than the retention.
CompressedBeforeDropped == \A d \in Retentions : d > 0 => CompressAfter(d) < d

\* Automatic chunks are no longer than the retention, but for the minimum of an hour, and
\* at most a day: a chunk goes when all of it has expired, so data outlives its retention
\* by at most one chunk.
ChunkWithinRetention ==
    \A d \in Retentions :
        /\ AutoChunk(d) <= Day
        /\ d >= Hour => AutoChunk(d) <= d
        /\ d > 0 /\ d < Hour => AutoChunk(d) = Hour

\* A shard duration reaches TimescaleDB as it was set, to the second.
ShardIsKept ==
    \A d \in parseDuration(clause) : d > 0 =>
        ChunkInterval(0, d) <= d /\ d - ChunkInterval(0, d) < Second

\* The shard group SHOW RETENTION POLICIES reports is no longer than the retention, of
\* those an hour or longer; for those below an hour the code reports the week of an
\* infinite one.  (No claim that InfluxDB reports the same: see README, section 4.)
ReportedShardFits == \A d \in Retentions : d >= Hour => shardGroupDuration(d) <= d

=============================================================================
