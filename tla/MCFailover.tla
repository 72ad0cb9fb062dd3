----------------------------- MODULE MCFailover -----------------------------
(* Finite instances of Failover for TLC. *)
EXTENDS Failover, TLC

\* Runs and usable providers are interchangeable in every definition.
Symmetry == Permutations(Runs) \union Permutations(Providers \ Unusable)
=============================================================================
