-------------------------- MODULE MCAccountManager --------------------------
(* Small instances of AccountManager for TLC. *)
EXTENDS AccountManager

\* An account, the same with another server, another key, or disabled.
Base == [url |-> 1, key |-> 1, active |-> TRUE]
MCConfigs == {Base, [Base EXCEPT !.url = 2], [Base EXCEPT !.key = 2], [Base EXCEPT !.active = FALSE]}
FewConfigs == {Base, [Base EXCEPT !.url = 2]}

\* At the start each account is missing or as above; edits and requests bring the rest.
FewFiles == Init /\ file \in [Ids -> {Nobody, Base}]
FewFilesSpec == FewFiles /\ [][Next]_vars /\ Fairness

=============================================================================
