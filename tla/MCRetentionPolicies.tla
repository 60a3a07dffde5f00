------------------------- MODULE MCRetentionPolicies -------------------------
(***************************************************************************)
(* RetentionPolicies with small sets of durations.  The unit is a minute:  *)
(* MinRetention is 15.                                                     *)
(***************************************************************************)
EXTENDS RetentionPolicies

\* Infinite, below the minimum, and legal.
PlainDurations == {0, 10, 30}

=============================================================================
