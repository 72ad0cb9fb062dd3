------------------------------ MODULE MCEngine ------------------------------
(* Finite instances of Engine for TLC. *)
EXTENDS Engine, TLC

\* Nothing is like anything but itself.
Exact == {<<o, o>> : o \in Outputs}

\* Runs are interchangeable, and so are outputs related by Exact.
Symmetry == Permutations(Runs) \union Permutations(Outputs)
=============================================================================
