----------------------------- MODULE MCProxyLocks -----------------------------
(***************************************************************************)
(* ProxyLocks with two or three goroutines.                                *)
(***************************************************************************)
EXTENDS ProxyLocks, TLC

CONSTANTS g1, g2, g3

\* Every handler and the background loop.
Everything == DOMAIN Code

Sym == Permutations(Goroutines)

=============================================================================
