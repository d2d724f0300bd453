------------------------------- MODULE Replica -------------------------------
(***************************************************************************)
(* What a replication pipeline promises to whoever reads the replica: the  *)
(* replica is always the source as it was at one position of its history,  *)
(* that position is the one the replica advertises, and it only moves      *)
(* forward.                                                                *)
(***************************************************************************)
EXTENDS Integers

CONSTANT States   \* the states a table can be in

VARIABLES
  size,     \* the number of changes the source has made
  history,  \* history[i] is the source after its first i changes
  replica,  \* the replica
  pos       \* the position the replica advertises

vars == <<size, history, replica, pos>>

Init ==
  /\ size = 0
  /\ \E s \in States : history = [i \in {0} |-> s]
  /\ replica = history[0]
  /\ pos = 0

\* The source changes.
Change ==
  /\ size' = size + 1
  /\ \E s \in States :
       history' = [i \in 0..(size + 1) |-> IF i = size + 1 THEN s ELSE history[i]]
  /\ UNCHANGED <<replica, pos>>

\* The replica catches up, by one change or by many.
CatchUp ==
  /\ \E p \in (pos + 1)..size : pos' = p /\ replica' = history[p]
  /\ UNCHANGED <<size, history>>

Next == Change \/ CatchUp

Spec == Init /\ [][Next]_vars

=============================================================================
