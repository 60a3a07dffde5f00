------------------------------ MODULE QueryTimes ------------------------------
(***************************************************************************)
(* The times of a WHERE clause: convertWhere in adapter/influxql_where.go   *)
(* and the range that HandleQuery gives it.  The milliseconds of a query    *)
(* become whole seconds in SQL; points keep the milliseconds they have.     *)
(***************************************************************************)
EXTENDS Integers

CONSTANT Times       \* milliseconds
ASSUME TimesAssumption == Times \subseteq Int

VARIABLE window      \* the ends <<a, b, c>> of two windows side by side, or <<>>

Windows == {w \in Times \X Times \X Times : w[1] <= w[2] /\ w[2] <= w[3]}

\* A time as it is written in SQL: the format has no fractions.
Seconds(ms) == ms - (ms % 1000)

\* The time a literal of milliseconds stands for, rounded to the nearest second.
Mutant_Literal(ms) == IF ms >= 0 THEN {Seconds(ms + 500)} ELSE {}
\* The time a literal of milliseconds stands for.  The pattern takes the digits only: a minus
\* is left standing before the quoted date, which SQL refuses.
Literal(ms) == IF ms >= 0 THEN {Seconds(ms)} ELSE {}
\* The end of a window is moved to the end of its second.
Mutant_Until(ms) == Literal(ms + 999)
Until(ms) == Literal(ms)

\* The points of time >= a AND time < b (none where the statement is refused), and those of
\* the closed range of $timeFilter, whose ends are written without a pattern.
Within(p, a, b) == \E from \in Literal(a), to \in Until(b) : from <= p /\ p < to
TimeFilter(p, from, to) == Seconds(from) <= p /\ p <= Seconds(to)

\* A window with all its ends in 1970 or later, the only kind that is answered.
Since1970 == window # <<>> /\ \A i \in DOMAIN window : window[i] >= 0

\* Of two windows side by side every point of both is in exactly one, whatever the
\* milliseconds of their ends: a client that pages through time gets each point once, but
\* for the pages that reach back before 1970, which are refused.
WindowsPartition ==
    Since1970 => \A p \in Times :
        /\ Within(p, window[1], window[3])
              <=> Within(p, window[1], window[2]) \/ Within(p, window[2], window[3])
        /\ ~(Within(p, window[1], window[2]) /\ Within(p, window[2], window[3]))

\* A window is wrong about points in the seconds of its ends only: those before its beginning
\* are in it, and those before its end are not, while none at its end or after it ever is, so
\* that a DELETE of what is older than b removes nothing newer.  $timeFilter is no worse, on
\* either side of 1970.
WrongAtTheEndsOnly ==
    window # <<>> => \A p \in Times :
        /\ Within(p, window[1], window[2]) => p > window[1] - 1000 /\ p < window[2]
        /\ Since1970 /\ window[1] <= p /\ p < window[2] /\ ~Within(p, window[1], window[2])
              => p > window[2] - 1000
        /\ TimeFilter(p, window[1], window[2]) => p > window[1] - 1000 /\ p <= window[2]

=============================================================================
