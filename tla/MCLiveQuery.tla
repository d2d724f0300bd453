---------------------------- MODULE MCLiveQuery ----------------------------
(* Small instances of LiveQuery for TLC. *)
EXTENDS LiveQuery

\* Clients are interchangeable in every definition.
Symmetry == Permutations(Conns)

=============================================================================
