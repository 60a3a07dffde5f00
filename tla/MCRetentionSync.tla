---------------------------- MODULE MCRetentionSync ----------------------------
(***************************************************************************)
(* RetentionSync with one or two databases and few durations.              *)
(***************************************************************************)
EXTENDS RetentionSync, TLC

CONSTANTS d1, d2, t1, t2, h1, h2, w1, w2, auto, p, q

\* Infinite, and an hour, which gives other intervals than infinite.
ShortOrInfinite == {0, Hour}
QuarterHour == 15 * Minute
LargeWord == 2147483646

InOne == [t \in Tables |-> d1]
InTwo == (t1 :> d1) @@ (t2 :> d2)

Sym == Permutations(Handlers)

=============================================================================
