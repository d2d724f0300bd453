--------------------------- MODULE MCRowPipeline ---------------------------
(* Small instances of RowPipeline for TLC. *)
EXTENDS RowPipeline, TLC

\* Keys and values are interchangeable in every definition.
Symmetry == Permutations(Keys) \cup Permutations(Vals)

\* A process that was started with a checkpoint, as every restarted one is.
Restarted == Init /\ initialCp # NoCp
RestartedSpec == Restarted /\ [][Next]_vars

=============================================================================
