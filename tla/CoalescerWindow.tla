--------------------------- MODULE CoalescerWindow ---------------------------
(***************************************************************************)
(* The coalescer as a state machine: MySQL changes the source table one    *)
(* row at a time, each change is pushed into the window, and the window is *)
(* flushed into the stored table at any moment.  The stored table starts   *)
(* as an exact copy (the initial snapshot).                                *)
(*                                                                         *)
(* Workload says which reuses of a primary key the application makes       *)
(* between two flushes.  They are all legal in MySQL:                      *)
(*   "takeover"  a primary-key change onto a key vacated in this window,   *)
(*   "reinsert"  an insert of a key a primary-key change vacated,          *)
(*   "chain"     a primary-key change of a row that already moved.         *)
(***************************************************************************)
EXTENDS Coalescer

CONSTANT Workload

ASSUME WorkloadAssumption == Workload \subseteq {"takeover", "reinsert", "chain"}

VARIABLES
  source,   \* the MySQL table
  stored,   \* the DuckDB table
  entry,    \* the window: pending entries
  order,    \* the window: IndexMap order
  freed,    \* keys vacated since the last flush, by a delete or a move
  moved,    \* keys vacated since the last flush by a move
  arrived   \* keys a row moved to since the last flush

vars == <<source, stored, entry, order, freed, moved, arrived>>

-----------------------------------------------------------------------------
Init ==
  /\ source \in Table
  /\ stored = source
  /\ entry = NoEntries
  /\ order = << >>
  /\ freed = {}
  /\ moved = {}
  /\ arrived = {}

\* The writer receives op: MySQL executed it and the window absorbs it.
Push(op) ==
  /\ Loggable(source, op)
  /\ source' = ApplyOp(source, op)
  /\ entry' = PushEntry(entry, op)
  /\ order' = PushOrder(entry, order, op)
  /\ UNCHANGED stored

InsertRow ==
  \E k \in Keys, v \in Vals :
    /\ k \in moved => "reinsert" \in Workload
    /\ Push([kind |-> "insert", key |-> k, val |-> v, before |-> NoKey])
    /\ UNCHANGED <<freed, moved, arrived>>

UpdateRow ==
  \E k \in Keys, v \in Vals :
    /\ Push([kind |-> "update", key |-> k, val |-> v, before |-> k])
    /\ UNCHANGED <<freed, moved, arrived>>

MoveRow ==
  \E k, to \in Keys, v \in Vals :
    /\ to # k
    /\ to \in freed => "takeover" \in Workload
    /\ k \in arrived => "chain" \in Workload
    /\ Push([kind |-> "update", key |-> to, val |-> v, before |-> k])
    /\ freed' = freed \cup {k}
    /\ moved' = moved \cup {k}
    /\ arrived' = arrived \cup {to}

DeleteRow ==
  \E k \in Keys :
    /\ Push([kind |-> "delete", key |-> k, val |-> Absent, before |-> k])
    /\ freed' = freed \cup {k}
    /\ UNCHANGED <<moved, arrived>>

\* flush_batch: a non-empty window is written and drained.
Flush ==
  /\ Pending(entry) # {}
  /\ stored' = FlushResult(stored, entry, order)
  /\ entry' = NoEntries
  /\ order' = << >>
  /\ freed' = {}
  /\ moved' = {}
  /\ arrived' = {}
  /\ UNCHANGED source

Next == InsertRow \/ UpdateRow \/ MoveRow \/ DeleteRow \/ Flush

Spec == Init /\ [][Next]_vars

-----------------------------------------------------------------------------
(* Properties.                                                             *)

\* Type correctness: the order lists exactly the keys that have an entry, each
\* once, whatever shift_remove and swap_remove did to it.
TypeOK ==
  /\ source \in Table
  /\ stored \in Table
  /\ entry \in [Keys -> Entries]
  /\ order \in Seq(Keys)
  /\ Pending(entry) = {order[i] : i \in DOMAIN order}
  /\ \A i, j \in DOMAIN order : order[i] = order[j] => i = j
  /\ freed \subseteq Keys
  /\ moved \subseteq freed
  /\ arrived \subseteq Keys

\* The window is a faithful summary of the operations it absorbed: what each
\* entry says of its key is what MySQL holds, and no before image names a key
\* that has an entry of its own (coalescer.rs:179-182).
WindowFaithful == Represents(entry, stored, source, freed, moved)

\* Flushing the window now would store what MySQL holds: coalescing loses no
\* operation and invents none.
FlushMatchesSource == FlushResult(stored, entry, order) = source

\* "leaves the OLD row behind unless the before-pk is deleted as well"
\* (writer.rs:728): after a flush no key holds a row that MySQL no longer has.
NoGhostRows ==
  \A k \in Keys : source[k] = Absent => FlushResult(stored, entry, order)[k] = Absent

\* compute_stale_pks suppresses only rows MySQL has moved away
\* (writer.rs:638-639): a row MySQL holds survives the flush.
NoLostRows ==
  \A k \in Keys : source[k] # Absent => FlushResult(stored, entry, order)[k] # Absent

=============================================================================
