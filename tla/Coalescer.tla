------------------------------ MODULE Coalescer ------------------------------
(***************************************************************************)
(* The in-memory batch coalescer of the store writer                       *)
(* (src/store/coalescer.rs) and the part of the flush that turns a         *)
(* coalesced window into DELETE and INSERT statements                      *)
(* (StoreWriter::flush_batch and compute_stale_pks, src/store/writer.rs),  *)
(* as pure operators over one replicated table.                            *)
(*                                                                         *)
(* A row is its primary key and a value standing for every other column.   *)
(* A before image matters to the code only through its primary key, so it  *)
(* is reduced to that key.  The IndexMap of the code is a pair:            *)
(*   entry  what is pending for each key (kind "none" when nothing is),    *)
(*   order  the keys that have an entry, in IndexMap order.                *)
(* Tables do not interact inside a window: one is enough.                  *)
(***************************************************************************)
EXTENDS Integers, Sequences

CONSTANTS
  Keys,     \* primary keys of the table
  Vals,     \* contents of the other columns
  Absent,   \* the value of a key that has no row
  NoKey     \* the key of a missing before image

ASSUME AbsentAssumption == Absent \notin Vals
ASSUME NoKeyAssumption == NoKey \notin Keys

-----------------------------------------------------------------------------
(* Tables and row operations.                                              *)

Table == [Keys -> Vals \cup {Absent}]

\* RowOp: the row mutations a binlog rows event is parsed into.  key is the
\* primary key of the after image (of the before image for a delete).
RowOps ==
  [kind : {"insert"}, key : Keys, val : Vals, before : {NoKey}]
    \cup [kind : {"update"}, key : Keys, val : Vals, before : Keys]
    \cup [kind : {"delete"}, key : Keys, val : {Absent}, before : Keys]

\* What MySQL can log when the table holds t: it checks the primary key and
\* logs only rows it changed.
Loggable(t, op) ==
  \/ op.kind = "insert" /\ t[op.key] = Absent
  \/ /\ op.kind = "update"
     /\ t[op.before] # Absent
     /\ op.before # op.key => t[op.key] = Absent
  \/ op.kind = "delete" /\ op.before = op.key /\ t[op.key] # Absent

\* The table after MySQL executed op.
ApplyOp(t, op) ==
  [k \in Keys |-> IF k = op.key THEN op.val
                  ELSE IF k = op.before THEN Absent ELSE t[k]]

\* An update that changes the primary key.
MovesRow(op) == op.kind = "update" /\ op.before # op.key

\* Keys an operation vacates, and those it vacates by moving their row.
Vacated(op) == IF op.kind = "delete" \/ MovesRow(op) THEN {op.before} ELSE {}
MovedAway(op) == IF MovesRow(op) THEN {op.before} ELSE {}

\* The operation does not use a vacated key again in one of the two ways the
\* coalescer loses track of: an insert of a key whose row moved away, a move
\* onto a vacated key.
NoReuse(op, freed, moved) ==
  /\ op.kind = "insert" => op.key \notin moved
  /\ MovesRow(op) => op.key \notin freed

-----------------------------------------------------------------------------
(* The window: BatchCoalescer::push.                                       *)

\* CoalescedRowOp, or nothing pending.
NoEntry == [kind |-> "none", val |-> Absent, before |-> NoKey]

Entries ==
  {NoEntry}
    \cup [kind : {"insert"}, val : Vals, before : {NoKey}]
    \cup [kind : {"update"}, val : Vals, before : Keys]
    \cup [kind : {"delete"}, val : {Absent}, before : Keys]

NoEntries == [k \in Keys |-> NoEntry]

Pending(entry) == {k \in Keys : entry[k].kind # "none"}

PositionOf(order, k) == CHOOSE i \in 1..Len(order) : order[i] = k

\* IndexMap::shift_remove keeps the order of what remains.
ShiftRemove(order, k) ==
  [i \in 1..(Len(order) - 1) |->
     IF i < PositionOf(order, k) THEN order[i] ELSE order[i + 1]]

\* Mutant: drops the last key instead of the removed one.
SwapRemoveDropsLast(order, k) == [i \in 1..(Len(order) - 1) |-> order[i]]

\* IndexMap::swap_remove moves the last key into the hole.
SwapRemove(order, k) ==
  [i \in 1..(Len(order) - 1) |->
     IF i = PositionOf(order, k) THEN order[Len(order)] ELSE order[i]]

\* A primary-key change of a row this window inserted or updated takes over
\* that row's entry.
Collapses(entry, op) ==
  MovesRow(op) /\ entry[op.before].kind \in {"insert", "update"}

CollapsedEntries(entry, op) ==
  IF Collapses(entry, op) THEN [entry EXCEPT ![op.before] = NoEntry] ELSE entry

CollapsedOp(entry, op) ==
  IF Collapses(entry, op)
  THEN [op EXCEPT !.kind = entry[op.before].kind,
                  !.before = entry[op.before].before]
  ELSE op

MergedKind(prev, new) ==
  CASE new = "delete"                     -> "delete"
    [] prev = "insert" /\ new # "delete"  -> "insert"
    [] OTHER                              -> "update"

\* Mutant: the newest before image replaces the first.
MergedNewestBefore(prev, op) ==
  IF prev.kind = "none"
  THEN [kind |-> op.kind, val |-> op.val, before |-> op.before]
  ELSE IF prev.kind = "insert" /\ op.kind = "delete"
       THEN NoEntry
       ELSE [kind |-> MergedKind(prev.kind, op.kind), val |-> op.val,
             before |-> IF prev.kind = "insert" THEN prev.before ELSE op.before]

\* The transition table: the entry of a key after one more operation on it.
\* The first before image of the window is the one that is kept.
Merged(prev, op) ==
  IF prev.kind = "none"
  THEN [kind |-> op.kind, val |-> op.val, before |-> op.before]
  ELSE IF prev.kind = "insert" /\ op.kind = "delete"
       THEN NoEntry
       ELSE [kind |-> MergedKind(prev.kind, op.kind), val |-> op.val,
             before |-> prev.before]

\* Mutant: the key of an update is taken from its before image.
PushEntryByBefore(entry, op) ==
  LET new  == CollapsedOp(entry, op)
      rest == CollapsedEntries(entry, op)
      key  == IF op.kind = "update" THEN op.before ELSE op.key
  IN  [rest EXCEPT ![key] = Merged(rest[key], new)]

\* The window's entries after one more operation.
PushEntry(entry, op) ==
  LET new  == CollapsedOp(entry, op)
      rest == CollapsedEntries(entry, op)
  IN  [rest EXCEPT ![op.key] = Merged(rest[op.key], new)]

\* The window's order after one more operation.
PushOrder(entry, order, op) ==
  LET rest == CollapsedEntries(entry, op)
      kept == IF Collapses(entry, op) THEN ShiftRemove(order, op.before) ELSE order
  IN  IF rest[op.key].kind = "none" THEN Append(kept, op.key)
      ELSE IF PushEntry(entry, op)[op.key].kind = "none" THEN SwapRemove(kept, op.key)
      ELSE kept

-----------------------------------------------------------------------------
(* The flush: compute_stale_pks and the statements of flush_batch.         *)

\* The entry of j carries the before image of another key k.
Consumes(entry, j, k) == j # k /\ entry[j].before = k

\* Keys whose row was moved away by an entry at a later position.
StaleKeys(entry, order) ==
  {k \in Pending(entry) :
     \E j \in Pending(entry) :
        Consumes(entry, j, k) /\ PositionOf(order, j) > PositionOf(order, k)}

\* Mutant: the old key of a moved row is not deleted.
DeletedKeysOwnOnly(entry, order) ==
  {k \in Pending(entry) : entry[k].kind = "insert" => k \notin StaleKeys(entry, order)}

\* Keys the flush deletes: the pending ones (not of a stale insert) and every
\* before image that differs from its key.
DeletedKeys(entry, order) ==
  {k \in Pending(entry) : entry[k].kind = "insert" => k \notin StaleKeys(entry, order)}
    \cup {k \in Keys : \E j \in Pending(entry) : Consumes(entry, j, k)}

\* Keys the flush appends.
AppendedKeys(entry, order) ==
  {k \in Pending(entry) : entry[k].kind # "delete"} \ StaleKeys(entry, order)

\* The stored table after one flush: all deletes, then all appends, in one
\* DuckDB transaction.
FlushResult(t, entry, order) ==
  [k \in Keys |->
     IF k \in AppendedKeys(entry, order) THEN entry[k].val
     ELSE IF k \in DeletedKeys(entry, order) THEN Absent ELSE t[k]]

-----------------------------------------------------------------------------
(* What a window stands for.                                               *)

\* The window entry, over the stored table base, stands for the table cur.
\* moved are the keys vacated by a primary-key change and freed all vacated
\* keys, since the window was empty at the latest.
Represents(entry, base, cur, freed, moved) ==
  \A k \in Keys :
    /\ entry[k].kind \in {"insert", "update"} => cur[k] = entry[k].val
    /\ entry[k].kind = "delete" => cur[k] = Absent /\ k \in freed
    /\ entry[k].kind = "insert" => base[k] = Absent
    /\ entry[k].before \notin {k, NoKey} => base[k] = Absent /\ entry[k].before \in moved
    /\ IF \E j \in Keys : Consumes(entry, j, k)
       THEN entry[k].kind = "none" /\ cur[k] = Absent
       ELSE entry[k].kind = "none" => cur[k] = base[k]

=============================================================================
