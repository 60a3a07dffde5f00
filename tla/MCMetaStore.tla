----------------------------- MODULE MCMetaStore -----------------------------
(***************************************************************************)
(* MetaStore with small request sets.                                      *)
(***************************************************************************)
EXTENDS MetaStore, TLC

CONSTANTS a, b, g, m1, m2

\* Writes of one record of one shape.
OneShape == {[m \in {m1} |-> <<{a}>>]}

\* ... of two shapes of one measurement.
TwoShapes == {[m \in {m1} |-> <<{a}>>], [m \in {m1} |-> <<{a, b}>>]}

\* Records with the tag g: one; two of which the second lacks a field; and a write that
\* touches two measurements.
TaggedShapes == {[m \in {m1} |-> <<{a, g}>>],
                 [m \in {m1} |-> <<{a, b, g}, {a, g}>>],
                 [m \in {m1, m2} |-> <<{b, g}>>]}

Sym == Permutations(Procs)

=============================================================================
