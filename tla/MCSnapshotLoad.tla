--------------------------- MODULE MCSnapshotLoad ---------------------------
(* Small instances of SnapshotLoad for TLC. *)
EXTENDS SnapshotLoad, TLC

\* Tables are interchangeable in every definition.
Symmetry == Permutations(Tables)

=============================================================================
