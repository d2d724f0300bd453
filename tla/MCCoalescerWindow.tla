------------------------- MODULE MCCoalescerWindow -------------------------
(* Small instances of CoalescerWindow for TLC. *)
EXTENDS CoalescerWindow, TLC

\* Keys and values are interchangeable in every definition.
Symmetry == Permutations(Keys) \cup Permutations(Vals)

=============================================================================
