--------------------------- MODULE CoalescerProofs ---------------------------
(***************************************************************************)
(* Lemmas about the coalescer's operators: what one push does to the       *)
(* window, and what a flush writes.  They are used by the proofs about the *)
(* window alone (CoalescerWindowProofs) and about the whole pipeline       *)
(* (RowPipelineProofs).                                                    *)
(***************************************************************************)
EXTENDS Coalescer, TLAPS

Windows == [Keys -> Entries]

-----------------------------------------------------------------------------
\* The fields of entries and operations (coalescer.rs:95-119).
LEMMA EntryFields ==
  ASSUME NEW e \in Entries
  PROVE  /\ e.kind \in {"none", "insert", "update", "delete"}
         /\ e.kind = "none" => e.val = Absent /\ e.before = NoKey
         /\ e.kind = "insert" => e.val \in Vals /\ e.before = NoKey
         /\ e.kind = "update" => e.val \in Vals /\ e.before \in Keys
         /\ e.kind = "delete" => e.val = Absent /\ e.before \in Keys
         /\ e = [kind |-> e.kind, val |-> e.val, before |-> e.before]
BY DEF Entries, NoEntry

LEMMA OpFields ==
  ASSUME NEW op \in RowOps
  PROVE  /\ op.kind \in {"insert", "update", "delete"}
         /\ op.key \in Keys
         /\ op.kind = "insert" => op.val \in Vals /\ op.before = NoKey
         /\ op.kind = "update" => op.val \in Vals /\ op.before \in Keys
         /\ op.kind = "delete" => op.val = Absent /\ op.before \in Keys
BY DEF RowOps

\* An operation leaves a table a table.
LEMMA ApplyOpType ==
  ASSUME NEW t \in Table, NEW op \in RowOps
  PROVE  ApplyOp(t, op) \in Table
BY OpFields DEF ApplyOp, Table

\* Flushing leaves a table a table.
LEMMA FlushType ==
  ASSUME NEW t \in Table, NEW entry \in Windows, NEW order
  PROVE  FlushResult(t, entry, order) \in Table
<1>1. ASSUME NEW k \in AppendedKeys(entry, order)
      PROVE  k \in Keys /\ entry[k].val \in Vals
  <2>1. k \in Keys /\ entry[k] \in Entries /\ entry[k].kind \notin {"none", "delete"}
    BY <1>1 DEF AppendedKeys, Pending, Windows
  <2> QED BY <2>1, EntryFields
<1> QED BY <1>1 DEF FlushResult, Table, Windows

\* The empty window stands for the stored table itself.
LEMMA EmptyRepresents ==
  ASSUME NEW t \in Table, NEW freed, NEW moved
  PROVE  /\ NoEntries \in Windows
         /\ Represents(NoEntries, t, t, freed, moved)
BY NoKeyAssumption DEF Represents, NoEntries, NoEntry, Consumes, Windows, Entries

\* Flushing a faithful window stores the table it stands for, whatever order
\* the IndexMap is in: no row is stale (writer.rs:621-877, 894-937).
LEMMA FlushExact ==
  ASSUME NEW base \in Table, NEW cur \in Table, NEW entry \in Windows,
         NEW order, NEW freed, NEW moved,
         Represents(entry, base, cur, freed, moved)
  PROVE  FlushResult(base, entry, order) = cur
<1>1. StaleKeys(entry, order) = {}
  BY DEF StaleKeys, Represents, Pending
<1>2. ASSUME NEW k \in Keys
      PROVE  FlushResult(base, entry, order)[k] = cur[k]
  <2>1. entry[k] \in Entries
    BY DEF Windows
  <2>2. CASE entry[k].kind \in {"insert", "update"}
    <3>1. k \in AppendedKeys(entry, order)
      BY <1>1, <2>2 DEF AppendedKeys, Pending
    <3> QED BY <2>2, <3>1 DEF FlushResult, Represents
  <2>3. CASE entry[k].kind = "delete"
    <3>1. k \notin AppendedKeys(entry, order) /\ k \in DeletedKeys(entry, order)
      BY <2>3 DEF AppendedKeys, DeletedKeys, Pending
    <3> QED BY <2>3, <3>1 DEF FlushResult, Represents
  <2>4. CASE entry[k].kind = "none" /\ \E j \in Keys : Consumes(entry, j, k)
    <3>1. PICK j \in Keys : Consumes(entry, j, k)
      BY <2>4
    <3>2. entry[j] \in Entries /\ entry[j].before \in Keys
      BY <3>1 DEF Windows, Consumes
    <3>3. j \in Pending(entry)
      BY <3>2, EntryFields, NoKeyAssumption DEF Pending
    <3>4. k \notin AppendedKeys(entry, order) /\ k \in DeletedKeys(entry, order)
      BY <2>4, <3>1, <3>3 DEF AppendedKeys, DeletedKeys, Pending
    <3> QED BY <2>4, <3>4 DEF FlushResult, Represents
  <2>5. CASE entry[k].kind = "none" /\ ~ \E j \in Keys : Consumes(entry, j, k)
    <3>1. k \notin AppendedKeys(entry, order) /\ k \notin DeletedKeys(entry, order)
      BY <2>5 DEF AppendedKeys, DeletedKeys, Pending
    <3> QED BY <2>5, <3>1 DEF FlushResult, Represents
  <2> QED BY <2>1, <2>2, <2>3, <2>4, <2>5, EntryFields
<1> QED BY <1>2 DEF FlushResult, Table

-----------------------------------------------------------------------------
\* What merging one more operation into an entry gives (coalescer.rs:249-395).
LEMMA MergedType ==
  ASSUME NEW prev \in Entries, NEW op \in RowOps
  PROVE  Merged(prev, op) \in Entries
<1>1. CASE prev.kind = "none"
  BY <1>1, OpFields DEF Merged, Entries
<1>2. CASE prev.kind = "insert" /\ op.kind = "delete"
  BY <1>2 DEF Merged, Entries
<1>3. CASE prev.kind = "insert" /\ op.kind # "delete"
  BY <1>3, OpFields, EntryFields DEF Merged, MergedKind, Entries
<1>4. CASE prev.kind \in {"update", "delete"}
  BY <1>4, OpFields, EntryFields DEF Merged, MergedKind, Entries
<1> QED BY <1>1, <1>2, <1>3, <1>4, EntryFields

\* A collapsed operation is a row operation again (coalescer.rs:184-246).
LEMMA CollapsedOpType ==
  ASSUME NEW entry \in Windows, NEW op \in RowOps
  PROVE  /\ CollapsedOp(entry, op) \in RowOps
         /\ CollapsedOp(entry, op).key = op.key
         /\ CollapsedOp(entry, op).val = op.val
<1>1. CASE Collapses(entry, op)
  <2>1. op.kind = "update" /\ op.key \in Keys /\ op.val \in Vals /\ op.before \in Keys
    BY <1>1, OpFields DEF Collapses, MovesRow
  <2>2. entry[op.before] \in Entries
    BY <2>1 DEF Windows
  <2>3. CollapsedOp(entry, op) = [op EXCEPT !.kind = entry[op.before].kind,
                                            !.before = entry[op.before].before]
    BY <1>1 DEF CollapsedOp
  <2>4. op = [kind |-> op.kind, key |-> op.key, val |-> op.val, before |-> op.before]
    BY DEF RowOps
  <2>5. CollapsedOp(entry, op) = [kind |-> entry[op.before].kind, key |-> op.key,
                                  val |-> op.val, before |-> entry[op.before].before]
    BY <2>3, <2>4
  <2> QED BY <1>1, <2>1, <2>2, <2>5, EntryFields DEF Collapses, RowOps
<1>2. CASE ~ Collapses(entry, op)
  BY <1>2 DEF CollapsedOp
<1> QED BY <1>1, <1>2

LEMMA CollapsedEntriesType ==
  ASSUME NEW entry \in Windows, NEW op \in RowOps
  PROVE  CollapsedEntries(entry, op) \in Windows
BY DEF CollapsedEntries, Windows, Entries

\* Pushing keeps the window a window.
LEMMA PushType ==
  ASSUME NEW entry \in Windows, NEW op \in RowOps
  PROVE  PushEntry(entry, op) \in Windows
<1>1. CollapsedEntries(entry, op) \in Windows
  BY CollapsedEntriesType
<1>2. CollapsedOp(entry, op) \in RowOps
  BY CollapsedOpType
<1>3. op.key \in Keys
  BY OpFields
<1>4. Merged(CollapsedEntries(entry, op)[op.key], CollapsedOp(entry, op)) \in Entries
  BY <1>1, <1>2, <1>3, MergedType DEF Windows
<1> QED BY <1>1, <1>4 DEF PushEntry, Windows


\* A function on 1..n is a sequence.
LEMMA FunctionIsSeq ==
  ASSUME NEW S, NEW n \in Nat, NEW f \in [1..n -> S]
  PROVE  f \in Seq(S) /\ Len(f) = n
OBVIOUS

\* Pushing keeps the order a sequence of keys.
LEMMA PushOrderType ==
  ASSUME NEW entry, NEW op \in RowOps, NEW order \in Seq(Keys)
  PROVE  PushOrder(entry, order, op) \in Seq(Keys)
<1>1. ASSUME NEW s \in Seq(Keys), NEW k
      PROVE  ShiftRemove(s, k) \in Seq(Keys) /\ SwapRemove(s, k) \in Seq(Keys)
  <2>1. CASE Len(s) = 0
    <3>1. 1..(Len(s) - 1) = {} /\ 1..0 = {} /\ 0 \in Nat
      BY <2>1
    <3>2. ShiftRemove(s, k) \in [1..0 -> Keys] /\ SwapRemove(s, k) \in [1..0 -> Keys]
      BY <3>1 DEF ShiftRemove, SwapRemove
    <3> QED BY <3>1, <3>2, FunctionIsSeq
  <2>2. CASE Len(s) # 0
    <3>1. Len(s) - 1 \in Nat /\ Len(s) \in 1..Len(s)
      BY <2>2
    <3>2. \A i \in 1..(Len(s) - 1) : s[i] \in Keys /\ s[i + 1] \in Keys /\ s[Len(s)] \in Keys
      BY <3>1
    <3>3. /\ ShiftRemove(s, k) \in [1..(Len(s) - 1) -> Keys]
          /\ SwapRemove(s, k) \in [1..(Len(s) - 1) -> Keys]
      BY <3>2 DEF ShiftRemove, SwapRemove
    <3> QED BY <3>1, <3>3, FunctionIsSeq
  <2> QED BY <2>1, <2>2
<1>2. op.key \in Keys
  BY OpFields
<1> QED BY <1>1, <1>2 DEF PushOrder

-----------------------------------------------------------------------------
(* Where the values of a window come from.                                 *)

\* Every value the window would write is in held, a set of key-value pairs:
\* the value of a pending key, and the absence of a key its entry consumes.
DrawsOn(entry, held) ==
  \A k \in Keys : entry[k].kind # "none" =>
    /\ <<k, entry[k].val>> \in held
    /\ entry[k].before \in Keys \ {k} => <<entry[k].before, Absent>> \in held

LEMMA EmptyDraws ==
  ASSUME NEW held
  PROVE  DrawsOn(NoEntries, held)
BY DEF DrawsOn, NoEntries, NoEntry

\* A push makes up no values, whichever keys are used again (coalescer.rs:184-395).
LEMMA PushDraws ==
  ASSUME NEW entry \in Windows, NEW op \in RowOps, NEW held,
         DrawsOn(entry, held), <<op.key, op.val>> \in held,
         op.before \in Keys \ {op.key} => <<op.before, Absent>> \in held
  PROVE  DrawsOn(PushEntry(entry, op), held)
<1> DEFINE rest == CollapsedEntries(entry, op)
           new == CollapsedOp(entry, op)
           e == Merged(rest[op.key], new)
<1>1. op.key \in Keys /\ rest \in Windows /\ new \in RowOps /\ new.val = op.val
  BY OpFields, CollapsedEntriesType, CollapsedOpType
<1>2. DrawsOn(rest, held)
  BY DEF DrawsOn, CollapsedEntries, NoEntry, Windows
<1>3. new.before \in Keys \ {op.key} => <<new.before, Absent>> \in held
  <2>1. CASE Collapses(entry, op)
    <3>1. op.before \in Keys \ {op.key} /\ entry[op.before].kind # "none"
      BY <2>1, OpFields DEF Collapses, MovesRow
    <3>2. new.before = entry[op.before].before
      <4>1. CollapsedOp(entry, op) = [op EXCEPT !.kind = entry[op.before].kind,
                                                !.before = entry[op.before].before]
        BY <2>1 DEF CollapsedOp
      <4>2. op = [kind |-> op.kind, key |-> op.key, val |-> op.val, before |-> op.before]
        BY DEF RowOps
      <4> QED BY <4>1, <4>2
    <3> QED BY <3>1, <3>2 DEF DrawsOn
  <2>2. CASE ~ Collapses(entry, op)
    BY <2>2 DEF CollapsedOp
  <2> QED BY <2>1, <2>2
<1>4. PushEntry(entry, op) = [rest EXCEPT ![op.key] = e]
  BY DEF PushEntry
<1>5. e.kind # "none" =>
        e.val = op.val /\ (e.before = new.before \/ (rest[op.key].kind # "none"
                                                      /\ e.before = rest[op.key].before))
  BY <1>1 DEF Merged, NoEntry
<1> HIDE DEF rest, new, e
<1> QED BY <1>1, <1>2, <1>3, <1>4, <1>5 DEF DrawsOn, Windows

\* A flush writes only values of its window and leaves the others.
LEMMA FlushDraws ==
  ASSUME NEW t \in Table, NEW entry \in Windows, NEW order, NEW held,
         DrawsOn(entry, held), \A k \in Keys : <<k, t[k]>> \in held,
         NEW k \in Keys
  PROVE  <<k, FlushResult(t, entry, order)[k]>> \in held
<1> DEFINE v == FlushResult(t, entry, order)[k]
<1>1. CASE k \in AppendedKeys(entry, order)
  <2>1. v = entry[k].val /\ entry[k].kind # "none"
    BY <1>1 DEF FlushResult, AppendedKeys, Pending
  <2> QED BY <2>1 DEF DrawsOn
<1>2. CASE k \notin AppendedKeys(entry, order) /\ k \in DeletedKeys(entry, order)
  <2>1. v = Absent
    BY <1>2 DEF FlushResult
  <2>2. CASE entry[k].kind = "delete"
    <3>1. entry[k].val = Absent
      BY <2>2, EntryFields DEF Windows
    <3> QED BY <2>1, <2>2, <3>1 DEF DrawsOn
  <2>3. CASE \E j \in Pending(entry) : Consumes(entry, j, k)
    BY <2>1, <2>3 DEF DrawsOn, Pending, Consumes
  <2>4. entry[k].kind = "delete" \/ \E j \in Pending(entry) : Consumes(entry, j, k)
    BY <1>2 DEF AppendedKeys, DeletedKeys, StaleKeys
  <2> QED BY <2>2, <2>3, <2>4
<1>3. CASE k \notin AppendedKeys(entry, order) /\ k \notin DeletedKeys(entry, order)
  BY <1>3 DEF FlushResult
<1> QED BY <1>1, <1>2, <1>3

-----------------------------------------------------------------------------
\* An operation that does not collapse only touches the entry of its own key.
LEMMA PushPlain ==
  ASSUME NEW entry, NEW op, ~ Collapses(entry, op)
  PROVE  PushEntry(entry, op) = [entry EXCEPT ![op.key] = Merged(entry[op.key], op)]
BY DEF PushEntry, CollapsedOp, CollapsedEntries

\* Merged, case by case.
LEMMA MergedCases ==
  ASSUME NEW prev \in Entries, NEW op \in RowOps
  PROVE  /\ prev.kind = "none" =>
              Merged(prev, op) = [kind |-> op.kind, val |-> op.val, before |-> op.before]
         /\ prev.kind = "insert" /\ op.kind = "delete" => Merged(prev, op) = NoEntry
         /\ prev.kind = "insert" /\ op.kind # "delete" =>
              Merged(prev, op) = [kind |-> "insert", val |-> op.val, before |-> NoKey]
         /\ prev.kind \in {"update", "delete"} =>
              Merged(prev, op) =
                [kind |-> IF op.kind = "delete" THEN "delete" ELSE "update",
                 val |-> op.val, before |-> prev.before]
BY EntryFields, OpFields DEF Merged, MergedKind

\* Entry e and value v may replace what the window entry holds and stands for
\* at key k.
Fits(entry, base, k, e, v, freed) ==
  /\ ~ \E j \in Keys : Consumes(entry, j, k)
  /\ e.before \in {k, NoKey, entry[k].before}
  /\ entry[k].before \notin {k, NoKey} => e.before = entry[k].before
  /\ e.kind \in {"insert", "update"} => v = e.val
  /\ e.kind = "delete" => v = Absent /\ k \in freed
  /\ e.kind = "none" => v = base[k]
  /\ e.kind = "insert" => base[k] = Absent

\* One key changes and so does its entry: the window remains faithful.
LEMMA OneKeyRepresents ==
  ASSUME NEW base \in Table, NEW cur \in Table, NEW entry \in Windows,
         NEW freed, NEW moved, NEW freed2, NEW moved2,
         freed \subseteq freed2, moved \subseteq moved2,
         Represents(entry, base, cur, freed, moved),
         NEW k \in Keys, NEW e \in Entries, NEW v \in Vals \cup {Absent},
         Fits(entry, base, k, e, v, freed2)
  PROVE  Represents([entry EXCEPT ![k] = e], base, [cur EXCEPT ![k] = v], freed2, moved2)
<1> DEFINE entry2 == [entry EXCEPT ![k] = e]
           cur2 == [cur EXCEPT ![k] = v]
<1>1. entry[k] \in Entries /\ cur2[k] = v /\ entry2[k] = e
  BY DEF Table, Windows
<1>2. \A j \in Keys : j # k => entry2[j] = entry[j] /\ cur2[j] = cur[j]
  BY DEF Table, Windows
<1>3. \A i, j \in Keys : i # j => (Consumes(entry2, j, i) <=> Consumes(entry, j, i))
  <2>1. \A i \in Keys : i # k => (Consumes(entry2, k, i) <=> Consumes(entry, k, i))
    BY <1>1, NoKeyAssumption DEF Consumes, Fits
  <2> QED BY <1>2, <2>1 DEF Consumes
<1>4. ASSUME NEW i \in Keys, i # k
      PROVE  /\ entry2[i].kind \in {"insert", "update"} => cur2[i] = entry2[i].val
             /\ entry2[i].kind = "delete" => cur2[i] = Absent /\ i \in freed2
             /\ entry2[i].kind = "insert" => base[i] = Absent
             /\ entry2[i].before \notin {i, NoKey} =>
                  base[i] = Absent /\ entry2[i].before \in moved2
             /\ IF \E j \in Keys : Consumes(entry2, j, i)
                THEN entry2[i].kind = "none" /\ cur2[i] = Absent
                ELSE entry2[i].kind = "none" => cur2[i] = base[i]
  <2>1. (\E j \in Keys : Consumes(entry2, j, i)) <=> (\E j \in Keys : Consumes(entry, j, i))
    BY <1>3 DEF Consumes
  <2> HIDE DEF entry2, cur2
  <2> QED BY <1>2, <1>4, <2>1 DEF Represents
<1>5. /\ entry2[k].kind \in {"insert", "update"} => cur2[k] = entry2[k].val
      /\ entry2[k].kind = "delete" => cur2[k] = Absent /\ k \in freed2
      /\ entry2[k].kind = "insert" => base[k] = Absent
      /\ entry2[k].before \notin {k, NoKey} => base[k] = Absent /\ entry2[k].before \in moved2
  BY <1>1 DEF Represents, Fits
<1>6. IF \E j \in Keys : Consumes(entry2, j, k)
      THEN entry2[k].kind = "none" /\ cur2[k] = Absent
      ELSE entry2[k].kind = "none" => cur2[k] = base[k]
  <2>1. (\E j \in Keys : Consumes(entry2, j, k)) <=> (\E j \in Keys : Consumes(entry, j, k))
    BY <1>3 DEF Consumes
  <2> QED BY <1>1, <2>1 DEF Fits
<1> HIDE DEF entry2, cur2
<1>7. Represents(entry2, base, cur2, freed2, moved2)
  BY <1>4, <1>5, <1>6 DEF Represents
<1> QED BY <1>7 DEF entry2, cur2


-----------------------------------------------------------------------------
\* The steps of the main lemma.  A fresh insert (coalescer.rs:249-256, 346-359).
LEMMA PushInsert ==
  ASSUME NEW base \in Table, NEW cur \in Table, NEW entry \in Windows,
         NEW freed, NEW moved, moved \subseteq freed,
         Represents(entry, base, cur, freed, moved),
         NEW op \in RowOps, op.kind = "insert", Loggable(cur, op), NoReuse(op, freed, moved)
  PROVE  Represents(PushEntry(entry, op), base, ApplyOp(cur, op), freed, moved)
<1> DEFINE k == op.key
           e == Merged(entry[k], op)
<1>1. k \in Keys /\ op.val \in Vals /\ op.before = NoKey /\ cur[k] = Absent /\ k \notin moved
  BY OpFields DEF Loggable, NoReuse
<1>2. entry[k] \in Entries /\ e \in Entries
  BY <1>1, MergedType DEF Windows
<1>3. PushEntry(entry, op) = [entry EXCEPT ![k] = e]
  BY PushPlain DEF Collapses, MovesRow
<1>4. ApplyOp(cur, op) = [cur EXCEPT ![k] = op.val]
  BY <1>1, NoKeyAssumption DEF ApplyOp, Table
<1>5. entry[k].kind \in {"none", "delete"}
  BY <1>1, <1>2, EntryFields, AbsentAssumption DEF Represents
<1>6. ~ \E j \in Keys : Consumes(entry, j, k)
  <2>1. SUFFICES ASSUME NEW j \in Keys, Consumes(entry, j, k)
                 PROVE  FALSE
    OBVIOUS
  <2>2. entry[j].before \notin {j, NoKey} /\ entry[j].before = k
    BY <1>1, <2>1, NoKeyAssumption DEF Consumes
  <2> QED BY <1>1, <2>2 DEF Represents
<1>7. ASSUME entry[k].kind = "none"
      PROVE  Fits(entry, base, k, e, op.val, freed)
  <2>1. e = [kind |-> "insert", val |-> op.val, before |-> NoKey]
    BY <1>1, <1>2, <1>7, MergedCases
  <2>2. base[k] = Absent
    BY <1>1, <1>6, <1>7 DEF Represents
  <2>3. entry[k].before = NoKey
    BY <1>2, <1>7, EntryFields
  <2> HIDE DEF e, k
  <2> QED BY <1>1, <1>2, <1>6, <2>1, <2>2, <2>3 DEF Fits
<1>8. ASSUME entry[k].kind = "delete"
      PROVE  Fits(entry, base, k, e, op.val, freed)
  <2>1. e = [kind |-> "update", val |-> op.val, before |-> entry[k].before]
    BY <1>1, <1>2, <1>8, MergedCases
  <2> HIDE DEF e, k
  <2> QED BY <1>1, <1>2, <1>6, <2>1 DEF Fits
<1>9. Fits(entry, base, k, e, op.val, freed)
  BY <1>5, <1>7, <1>8
<1> HIDE DEF e, k
<1>10. Represents([entry EXCEPT ![k] = e], base, [cur EXCEPT ![k] = op.val], freed, moved)
  BY <1>1, <1>2, <1>9, OneKeyRepresents
<1> QED BY <1>1, <1>3, <1>4, <1>10 DEF e, k

\* The row of a key that has a row is not consumed by another entry.
LEMMA PresentNotConsumed ==
  ASSUME NEW base, NEW cur, NEW entry, NEW freed, NEW moved,
         Represents(entry, base, cur, freed, moved),
         NEW k \in Keys, cur[k] # Absent
  PROVE  /\ ~ \E j \in Keys : Consumes(entry, j, k)
         /\ entry[k].kind # "delete"
BY DEF Represents

\* An update in place (T4, T7, T8).
LEMMA PushUpdate ==
  ASSUME NEW base \in Table, NEW cur \in Table, NEW entry \in Windows,
         NEW freed, NEW moved, moved \subseteq freed,
         Represents(entry, base, cur, freed, moved),
         NEW op \in RowOps, op.kind = "update", op.before = op.key, Loggable(cur, op)
  PROVE  Represents(PushEntry(entry, op), base, ApplyOp(cur, op), freed, moved)
<1> DEFINE k == op.key
           e == Merged(entry[k], op)
<1>1. k \in Keys /\ op.val \in Vals /\ op.before = k /\ cur[k] # Absent
  BY OpFields DEF Loggable
<1>2. entry[k] \in Entries /\ e \in Entries
  BY <1>1, MergedType DEF Windows
<1>3. PushEntry(entry, op) = [entry EXCEPT ![k] = e]
  BY PushPlain DEF Collapses, MovesRow
<1>4. ApplyOp(cur, op) = [cur EXCEPT ![k] = op.val]
  BY <1>1 DEF ApplyOp, Table
<1>5. ~ (\E j \in Keys : Consumes(entry, j, k)) /\ entry[k].kind \in {"none", "insert", "update"}
  BY <1>1, <1>2, PresentNotConsumed, EntryFields
<1>6. ASSUME entry[k].kind = "none"
      PROVE  Fits(entry, base, k, e, op.val, freed)
  <2>1. e = [kind |-> "update", val |-> op.val, before |-> k]
    BY <1>1, <1>2, <1>6, MergedCases
  <2>2. entry[k].before = NoKey
    BY <1>2, <1>6, EntryFields
  <2> HIDE DEF e, k
  <2> QED BY <1>1, <1>2, <1>5, <2>1, <2>2 DEF Fits
<1>7. ASSUME entry[k].kind = "insert"
      PROVE  Fits(entry, base, k, e, op.val, freed)
  <2>1. e = [kind |-> "insert", val |-> op.val, before |-> NoKey]
    BY <1>1, <1>2, <1>7, MergedCases
  <2>2. entry[k].before = NoKey /\ base[k] = Absent
    BY <1>1, <1>2, <1>7, EntryFields DEF Represents
  <2> HIDE DEF e, k
  <2> QED BY <1>1, <1>2, <1>5, <2>1, <2>2 DEF Fits
<1>8. ASSUME entry[k].kind = "update"
      PROVE  Fits(entry, base, k, e, op.val, freed)
  <2>1. e = [kind |-> "update", val |-> op.val, before |-> entry[k].before]
    BY <1>1, <1>2, <1>8, MergedCases
  <2> HIDE DEF e, k
  <2> QED BY <1>1, <1>2, <1>5, <2>1 DEF Fits
<1>9. Fits(entry, base, k, e, op.val, freed)
  BY <1>5, <1>6, <1>7, <1>8
<1> HIDE DEF e, k
<1>10. Represents([entry EXCEPT ![k] = e], base, [cur EXCEPT ![k] = op.val], freed, moved)
  BY <1>1, <1>2, <1>9, OneKeyRepresents
<1> QED BY <1>1, <1>3, <1>4, <1>10 DEF e, k

\* A delete (T5, T6).
LEMMA PushDelete ==
  ASSUME NEW base \in Table, NEW cur \in Table, NEW entry \in Windows,
         NEW freed, NEW moved, moved \subseteq freed,
         Represents(entry, base, cur, freed, moved),
         NEW op \in RowOps, op.kind = "delete", Loggable(cur, op)
  PROVE  Represents(PushEntry(entry, op), base, ApplyOp(cur, op),
                    freed \cup {op.before}, moved)
<1> DEFINE k == op.key
           e == Merged(entry[k], op)
<1>1. k \in Keys /\ op.val = Absent /\ op.before = k /\ cur[k] # Absent
  BY OpFields DEF Loggable
<1>2. entry[k] \in Entries /\ e \in Entries
  BY <1>1, MergedType DEF Windows
<1>3. PushEntry(entry, op) = [entry EXCEPT ![k] = e]
  BY PushPlain DEF Collapses, MovesRow
<1>4. ApplyOp(cur, op) = [cur EXCEPT ![k] = Absent]
  BY <1>1 DEF ApplyOp, Table
<1>5. ~ (\E j \in Keys : Consumes(entry, j, k)) /\ entry[k].kind \in {"none", "insert", "update"}
  BY <1>1, <1>2, PresentNotConsumed, EntryFields
<1>6. freed \subseteq freed \cup {k} /\ moved \subseteq moved /\ k \in freed \cup {k}
  OBVIOUS
<1>7. ASSUME entry[k].kind = "none"
      PROVE  Fits(entry, base, k, e, Absent, freed \cup {k})
  <2>1. e = [kind |-> "delete", val |-> Absent, before |-> k]
    BY <1>1, <1>2, <1>7, MergedCases
  <2>2. entry[k].before = NoKey
    BY <1>2, <1>7, EntryFields
  <2> HIDE DEF e, k
  <2> QED BY <1>1, <1>2, <1>5, <1>6, <2>1, <2>2 DEF Fits
<1>8. ASSUME entry[k].kind = "insert"
      PROVE  Fits(entry, base, k, e, Absent, freed \cup {k})
  <2>1. e = NoEntry
    BY <1>1, <1>2, <1>8, MergedCases
  <2>2. entry[k].before = NoKey /\ base[k] = Absent
    BY <1>1, <1>2, <1>8, EntryFields DEF Represents
  <2>3. e.kind = "none" /\ e.before = NoKey
    BY <2>1 DEF NoEntry
  <2> HIDE DEF e, k
  <2> QED BY <1>1, <1>2, <1>5, <1>6, <2>2, <2>3 DEF Fits
<1>9. ASSUME entry[k].kind = "update"
      PROVE  Fits(entry, base, k, e, Absent, freed \cup {k})
  <2>1. e = [kind |-> "delete", val |-> Absent, before |-> entry[k].before]
    BY <1>1, <1>2, <1>9, MergedCases
  <2> HIDE DEF e, k
  <2> QED BY <1>1, <1>2, <1>5, <1>6, <2>1 DEF Fits
<1>10. Fits(entry, base, k, e, Absent, freed \cup {k})
  BY <1>5, <1>7, <1>8, <1>9
<1> HIDE DEF e, k
<1>11. Represents([entry EXCEPT ![k] = e], base, [cur EXCEPT ![k] = Absent], freed \cup {k}, moved)
  BY <1>1, <1>2, <1>10, OneKeyRepresents
<1> QED BY <1>1, <1>3, <1>4, <1>11 DEF e, k

\* The entry of the new key after a primary-key change (coalescer.rs:184-246,
\* 257-266): the row's own entry moves to the new key, or a new one is made.
LEMMA MovedEntry ==
  ASSUME NEW entry \in Windows, NEW op \in RowOps, MovesRow(op),
         entry[op.key] = NoEntry, entry[op.before].kind # "delete"
  PROVE  LET b == op.before
             k == op.key
             e == PushEntry(entry, op)[k]
         IN  /\ e \in Entries
             /\ PushEntry(entry, op) = [[entry EXCEPT ![b] = NoEntry] EXCEPT ![k] = e]
             /\ e.val = op.val /\ e.val \in Vals
             /\ entry[b].kind = "none" => e.kind = "update" /\ e.before = b
             /\ entry[b].kind = "insert" => e.kind = "insert" /\ e.before = NoKey
             /\ entry[b].kind = "update" => e.kind = "update" /\ e.before = entry[b].before
<1> DEFINE b == op.before
           k == op.key
           new == CollapsedOp(entry, op)
           rest == CollapsedEntries(entry, op)
           e == PushEntry(entry, op)[k]
<1>1. /\ op.kind = "update" /\ k \in Keys /\ op.val \in Vals /\ b \in Keys /\ b # k
      /\ entry[b] \in Entries
  BY OpFields DEF MovesRow, Windows
<1>2. new \in RowOps /\ new.val = op.val /\ rest \in Windows
  BY CollapsedOpType, CollapsedEntriesType
<1>3. rest[k] = NoEntry
  BY <1>1 DEF CollapsedEntries, Windows
<1>4. NoEntry \in Entries /\ NoEntry.kind = "none"
  BY DEF NoEntry, Entries
<1>5. Merged(rest[k], new) = [kind |-> new.kind, val |-> new.val, before |-> new.before]
  BY <1>2, <1>3, <1>4, MergedCases
<1>6. PushEntry(entry, op) = [rest EXCEPT ![k] = Merged(rest[k], new)]
  BY DEF PushEntry
<1>7. e = [kind |-> new.kind, val |-> new.val, before |-> new.before]
  BY <1>1, <1>2, <1>5, <1>6 DEF Windows
<1>8. e \in Entries
  BY <1>1, PushType DEF Windows
<1>9. rest = [entry EXCEPT ![b] = NoEntry]
  <2>1. CASE Collapses(entry, op)
    BY <2>1 DEF CollapsedEntries
  <2>2. CASE ~ Collapses(entry, op)
    <3>1. entry[b].kind = "none"
      BY <1>1, <2>2, EntryFields DEF Collapses
    <3>2. entry[b] = NoEntry
      BY <1>1, <3>1, EntryFields DEF NoEntry
    <3> QED BY <1>1, <2>2, <3>2 DEF CollapsedEntries, Windows
  <2> QED BY <2>1, <2>2
<1>10. /\ entry[b].kind = "none" => new = op
       /\ entry[b].kind \in {"insert", "update"} =>
            new = [op EXCEPT !.kind = entry[b].kind, !.before = entry[b].before]
  BY DEF CollapsedOp, Collapses
<1>11. op = [kind |-> op.kind, key |-> op.key, val |-> op.val, before |-> op.before]
  BY DEF RowOps
<1>12. entry[b].kind \in {"insert", "update"} =>
         new.kind = entry[b].kind /\ new.before = entry[b].before
  BY <1>10, <1>11
<1>13. entry[b].kind = "insert" => entry[b].before = NoKey
  BY <1>1, EntryFields
<1>14. PushEntry(entry, op) = [[entry EXCEPT ![b] = NoEntry] EXCEPT ![k] = e]
  BY <1>1, <1>2, <1>6, <1>9 DEF Windows
<1>15. /\ e.val = op.val /\ e.val \in Vals
       /\ entry[b].kind = "none" => e.kind = "update" /\ e.before = b
       /\ entry[b].kind = "insert" => e.kind = "insert" /\ e.before = NoKey
       /\ entry[b].kind = "update" => e.kind = "update" /\ e.before = entry[b].before
  <2> HIDE DEF new, e
  <2> QED BY <1>1, <1>2, <1>7, <1>10, <1>12, <1>13
<1> QED BY <1>8, <1>14, <1>15

\* A primary-key change.
LEMMA PushMove ==
  ASSUME NEW base \in Table, NEW cur \in Table, NEW entry \in Windows,
         NEW freed, NEW moved, moved \subseteq freed,
         Represents(entry, base, cur, freed, moved),
         NEW op \in RowOps, MovesRow(op), Loggable(cur, op), NoReuse(op, freed, moved)
  PROVE  Represents(PushEntry(entry, op), base, ApplyOp(cur, op),
                    freed \cup {op.before}, moved \cup {op.before})
<1> DEFINE b == op.before
           k == op.key
           e == PushEntry(entry, op)[k]
           entry2 == PushEntry(entry, op)
           cur2 == ApplyOp(cur, op)
           freed2 == freed \cup {b}
           moved2 == moved \cup {b}
<1>1. /\ k \in Keys /\ b \in Keys /\ b # k /\ op.val \in Vals
      /\ cur[b] # Absent /\ cur[k] = Absent /\ k \notin freed /\ k \notin moved
  BY OpFields DEF MovesRow, Loggable, NoReuse
<1>2. entry[b] \in Entries /\ entry[k] \in Entries
  BY <1>1 DEF Windows
<1>3. ~ (\E j \in Keys : Consumes(entry, j, b)) /\ entry[b].kind \in {"none", "insert", "update"}
  BY <1>1, <1>2, PresentNotConsumed, EntryFields
<1>4. entry[k].kind = "none"
  BY <1>1, <1>2, EntryFields, AbsentAssumption DEF Represents
<1>5. entry[k] = NoEntry
  BY <1>2, <1>4, EntryFields DEF NoEntry
<1>6. ~ \E j \in Keys : Consumes(entry, j, k)
  <2>1. SUFFICES ASSUME NEW j \in Keys, Consumes(entry, j, k)
                 PROVE  FALSE
    OBVIOUS
  <2>2. entry[j].before \notin {j, NoKey} /\ entry[j].before = k
    BY <1>1, <2>1, NoKeyAssumption DEF Consumes
  <2> QED BY <1>1, <2>2 DEF Represents
<1>7. base[k] = Absent
  BY <1>1, <1>4, <1>6 DEF Represents
<1>8. /\ e.val = op.val
      /\ e \in Entries
      /\ entry2 = [[entry EXCEPT ![b] = NoEntry] EXCEPT ![k] = e]
      /\ entry[b].kind = "none" => e.kind = "update" /\ e.before = b
      /\ entry[b].kind = "insert" => e.kind = "insert" /\ e.before = NoKey
      /\ entry[b].kind = "update" => e.kind = "update" /\ e.before = entry[b].before
  BY <1>3, <1>5, MovedEntry
<1>9. /\ entry2[k] = e /\ entry2[b] = NoEntry
      /\ \A j \in Keys \ {k, b} : entry2[j] = entry[j]
  <2> HIDE DEF e, entry2
  <2> QED BY <1>1, <1>8 DEF Windows
<1>10. /\ cur2[k] = op.val /\ cur2[b] = Absent
       /\ \A j \in Keys \ {k, b} : cur2[j] = cur[j]
  BY <1>1 DEF ApplyOp, Table
<1>11. freed \subseteq freed2 /\ moved \subseteq moved2 /\ b \in moved2 /\ b \in freed2
  OBVIOUS
<1>12. NoEntry.kind = "none" /\ NoEntry.before = NoKey /\ NoKey \notin Keys
  BY NoKeyAssumption DEF NoEntry
<1> HIDE DEF e, entry2, cur2, freed2, moved2
\* Who consumes what after the move: nobody the new key, the new key its own
\* before image, and the other entries what they did.
<1>13. \A j \in Keys : ~ Consumes(entry2, j, k)
  BY <1>1, <1>6, <1>9, <1>12 DEF Consumes
<1>14. \A i \in Keys \ {k, b} :
         (\E j \in Keys : Consumes(entry2, j, i)) <=> (\E j \in Keys : Consumes(entry, j, i))
  <2>1. TAKE i \in Keys \ {k, b}
  <2>2. \A j \in Keys \ {k, b} : Consumes(entry2, j, i) <=> Consumes(entry, j, i)
    BY <1>9 DEF Consumes
  <2>3. ~ Consumes(entry, k, i) /\ ~ Consumes(entry2, b, i)
    BY <1>5, <1>9, <1>12 DEF Consumes
  <2>4. Consumes(entry2, k, i) <=> Consumes(entry, b, i)
    <3>1. CASE entry[b].kind = "none"
      <4>1. entry[b].before = NoKey
        BY <1>2, <3>1, EntryFields
      <4> QED BY <1>8, <1>9, <1>12, <2>1, <3>1, <4>1 DEF Consumes
    <3>2. CASE entry[b].kind = "insert"
      <4>1. entry[b].before = NoKey
        BY <1>2, <3>2, EntryFields
      <4> QED BY <1>8, <1>9, <1>12, <2>1, <3>2, <4>1 DEF Consumes
    <3>3. CASE entry[b].kind = "update"
      BY <1>8, <1>9, <2>1, <3>3 DEF Consumes
    <3> QED BY <1>3, <3>1, <3>2, <3>3
  <2> QED BY <1>1, <2>2, <2>3, <2>4
\* The old key.
<1>15. ~ (\E j \in Keys : Consumes(entry2, j, b)) => base[b] = Absent
  <2>1. CASE entry[b].kind = "none"
    BY <1>1, <1>8, <1>9, <2>1 DEF Consumes
  <2>2. CASE entry[b].kind = "insert"
    BY <1>1, <2>2 DEF Represents
  <2>3. CASE entry[b].kind = "update" /\ entry[b].before = b
    BY <1>1, <1>8, <1>9, <2>3 DEF Consumes
  <2>4. CASE entry[b].kind = "update" /\ entry[b].before # b
    <3>1. entry[b].before \in Keys
      BY <1>2, <2>4, EntryFields
    <3> QED BY <1>1, <1>12, <2>4, <3>1 DEF Represents
  <2> QED BY <1>3, <2>1, <2>2, <2>3, <2>4
\* The new key.
<1>16. e.kind \in {"insert", "update"} /\ (e.before \notin {k, NoKey} => e.before \in moved2)
  <2>1. CASE entry[b].kind \in {"none", "insert"}
    BY <1>8, <1>11, <2>1
  <2>2. CASE entry[b].kind = "update" /\ entry[b].before = b
    BY <1>8, <1>11, <2>2
  <2>3. CASE entry[b].kind = "update" /\ entry[b].before # b
    <3>1. entry[b].before \in Keys
      BY <1>2, <2>3, EntryFields
    <3>2. entry[b].before \in moved
      BY <1>1, <1>12, <2>3, <3>1 DEF Represents
    <3> QED BY <1>8, <1>11, <2>3, <3>2
  <2> QED BY <1>3, <2>1, <2>2, <2>3
<1> DEFINE Holds(i) ==
      /\ entry2[i].kind \in {"insert", "update"} => cur2[i] = entry2[i].val
      /\ entry2[i].kind = "delete" => cur2[i] = Absent /\ i \in freed2
      /\ entry2[i].kind = "insert" => base[i] = Absent
      /\ entry2[i].before \notin {i, NoKey} => base[i] = Absent /\ entry2[i].before \in moved2
      /\ IF \E j \in Keys : Consumes(entry2, j, i)
         THEN entry2[i].kind = "none" /\ cur2[i] = Absent
         ELSE entry2[i].kind = "none" => cur2[i] = base[i]
<1>17. Holds(k)
  BY <1>7, <1>8, <1>9, <1>10, <1>13, <1>16
<1>18. Holds(b)
  BY <1>9, <1>10, <1>12, <1>15
<1>19. ASSUME NEW i \in Keys \ {k, b}
       PROVE  Holds(i)
  BY <1>9, <1>10, <1>11, <1>14 DEF Represents
<1>20. \A i \in Keys : Holds(i)
  BY <1>17, <1>18, <1>19
<1>21. Represents(entry2, base, cur2, freed2, moved2)
  BY <1>20 DEF Represents
<1> QED BY <1>21 DEF entry2, cur2, freed2, moved2

\* One push keeps the window faithful, as long as no vacated key is reused:
\* what the window stands for changes exactly as the source table does
\* (BatchCoalescer::push, coalescer.rs:165-399).
LEMMA PushRepresents ==
  ASSUME NEW base \in Table, NEW cur \in Table, NEW entry \in Windows,
         NEW freed, NEW moved, moved \subseteq freed,
         Represents(entry, base, cur, freed, moved),
         NEW op \in RowOps, Loggable(cur, op), NoReuse(op, freed, moved)
  PROVE  Represents(PushEntry(entry, op), base, ApplyOp(cur, op),
                    freed \cup Vacated(op), moved \cup MovedAway(op))
<1>1. CASE op.kind = "insert"
  <2>1. Vacated(op) = {} /\ MovedAway(op) = {}
    BY <1>1 DEF Vacated, MovedAway, MovesRow
  <2> QED BY <1>1, <2>1, PushInsert
<1>2. CASE op.kind = "update" /\ op.before = op.key
  <2>1. Vacated(op) = {} /\ MovedAway(op) = {}
    BY <1>2 DEF Vacated, MovedAway, MovesRow
  <2> QED BY <1>2, <2>1, PushUpdate
<1>3. CASE MovesRow(op)
  <2>1. Vacated(op) = {op.before} /\ MovedAway(op) = {op.before}
    BY <1>3 DEF Vacated, MovedAway
  <2> QED BY <1>3, <2>1, PushMove
<1>4. CASE op.kind = "delete"
  <2>1. Vacated(op) = {op.before} /\ MovedAway(op) = {}
    BY <1>4 DEF Vacated, MovedAway, MovesRow
  <2> QED BY <1>4, <2>1, PushDelete
<1> QED BY <1>1, <1>2, <1>3, <1>4, OpFields DEF MovesRow

-----------------------------------------------------------------------------
(* Windows of inserts and updates in place, over any stored table: what a  *)
(* replay flushes need not fit the table it is flushed over.               *)

Upserts(entry, order) ==
  /\ \A k \in Keys : entry[k].kind # "delete" /\ entry[k].before \in {k, NoKey}
  /\ order = << >> => entry = NoEntries

LEMMA EmptyUpserts == Upserts(NoEntries, << >>)
BY DEF Upserts, NoEntries, NoEntry

\* No row is stale and no key is vacated: every pending key gets its value.
LEMMA UpsertFlush ==
  ASSUME NEW t, NEW entry, NEW order, Upserts(entry, order)
  PROVE  FlushResult(t, entry, order) =
           [k \in Keys |-> IF entry[k].kind = "none" THEN t[k] ELSE entry[k].val]
<1>1. \A j, k \in Keys : ~ Consumes(entry, j, k)
  BY NoKeyAssumption DEF Upserts, Consumes
<1>2. StaleKeys(entry, order) = {}
  BY <1>1 DEF StaleKeys, Pending
<1>3. AppendedKeys(entry, order) = {k \in Keys : entry[k].kind # "none"}
  BY <1>2 DEF AppendedKeys, Pending, Upserts
<1>4. DeletedKeys(entry, order) = {k \in Keys : entry[k].kind # "none"}
  BY <1>1, <1>2 DEF DeletedKeys, Pending
<1> QED BY <1>3, <1>4 DEF FlushResult

LEMMA EmptyFlush ==
  ASSUME NEW t
  PROVE  \A k \in Keys : FlushResult(t, NoEntries, << >>)[k] = t[k]
<1>1. FlushResult(t, NoEntries, << >>) =
        [k \in Keys |-> IF NoEntries[k].kind = "none" THEN t[k] ELSE NoEntries[k].val]
  BY EmptyUpserts, UpsertFlush
<1>2. \A k \in Keys : NoEntries[k].kind = "none"
  BY DEF NoEntries, NoEntry
<1> QED BY <1>1, <1>2

\* One more insert or update in place, logged by whatever table: the window
\* executes it on top of what it held (T4-T8).
LEMMA UpsertPush ==
  ASSUME NEW t, NEW entry \in Windows, NEW order \in Seq(Keys), Upserts(entry, order),
         NEW op \in RowOps, Vacated(op) = {}
  PROVE  LET e == PushEntry(entry, op)
             o == PushOrder(entry, order, op)
         IN  /\ Upserts(e, o)
             /\ FlushResult(t, e, o) = ApplyOp(FlushResult(t, entry, order), op)
<1> DEFINE prev == entry[op.key]
           new == Merged(prev, op)
           e == PushEntry(entry, op)
           o == PushOrder(entry, order, op)
<1>1. /\ op.key \in Keys /\ op.kind \in {"insert", "update"} /\ op.before \in {op.key, NoKey}
      /\ ~ MovesRow(op)
  BY OpFields DEF Vacated, MovesRow
<1>2. prev \in Entries /\ prev.kind \in {"none", "insert", "update"} /\ prev.before \in {op.key, NoKey}
  BY <1>1, EntryFields DEF Windows, Upserts
<1>3. new.kind \in {"insert", "update"} /\ new.val = op.val /\ new.before \in {op.key, NoKey}
  <2>1. CASE prev.kind = "none"
    BY <1>1, <1>2, <2>1, MergedCases
  <2>2. CASE prev.kind = "insert"
    BY <1>1, <1>2, <2>2, MergedCases
  <2>3. CASE prev.kind = "update"
    BY <1>1, <1>2, <2>3, MergedCases
  <2> QED BY <1>2, <2>1, <2>2, <2>3
<1>4. e = [entry EXCEPT ![op.key] = new] /\ ~ Collapses(entry, op)
  BY <1>1, PushPlain DEF Collapses
<1> HIDE DEF new, e
<1>5. \A k \in Keys : e[k] = IF k = op.key THEN new ELSE entry[k]
  BY <1>4 DEF Windows
<1>6. o # << >>
  <2>1. o = IF prev.kind = "none" THEN Append(order, op.key)
            ELSE IF e[op.key].kind = "none" THEN SwapRemove(order, op.key) ELSE order
    BY <1>4 DEF PushOrder, CollapsedEntries, e
  <2>2. order = << >> => prev.kind = "none"
    BY <1>1 DEF Upserts, NoEntries, NoEntry
  <2>3. e[op.key].kind # "none" /\ Append(order, op.key) # << >>
    BY <1>1, <1>3, <1>5
  <2> QED BY <2>1, <2>2, <2>3
<1> HIDE DEF o, prev
<1>7. Upserts(e, o)
  BY <1>3, <1>5, <1>6 DEF Upserts
<1>8. ASSUME NEW k \in Keys
      PROVE  FlushResult(t, e, o)[k] = ApplyOp(FlushResult(t, entry, order), op)[k]
  <2>1. FlushResult(t, e, o)[k] = IF e[k].kind = "none" THEN t[k] ELSE e[k].val
    BY <1>7, UpsertFlush
  <2>2. FlushResult(t, entry, order)[k] = IF entry[k].kind = "none" THEN t[k] ELSE entry[k].val
    BY UpsertFlush
  <2>3. k # op.key => k # op.before
    BY <1>1, NoKeyAssumption
  <2> QED BY <1>3, <1>5, <2>1, <2>2, <2>3 DEF ApplyOp
<1> QED BY <1>7, <1>8 DEF FlushResult, ApplyOp, e, o

=============================================================================
