---------------------------- MODULE MCConnection ----------------------------
(* Symmetry of the operations, processes and profiles of Connection.        *)
EXTENDS Connection, TLC

Symmetry == Permutations(Calls) \cup Permutations(Cores)
            \cup Permutations(Configs)
=============================================================================
