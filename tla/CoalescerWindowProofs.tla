------------------------ MODULE CoalescerWindowProofs ------------------------
(***************************************************************************)
(* What holds of the coalescing window for any keys and values: its type   *)
(* invariant for every workload, and the exactness of the flush for the    *)
(* workloads that reuse no vacated key (one inductive invariant,           *)
(* WindowFaithful, carries the proof).                                     *)
(***************************************************************************)
EXTENDS CoalescerWindow, CoalescerProofs

-----------------------------------------------------------------------------
(* The IndexMap's order.                                                   *)

\* s lists each member of S once.
Lists(s, S) ==
  /\ s \in Seq(Keys)
  /\ \A k \in Keys : k \in S <=> \E i \in 1..Len(s) : s[i] = k
  /\ \A i, j \in 1..Len(s) : s[i] = s[j] => i = j

LEMMA PositionOfListed ==
  ASSUME NEW s, NEW S, Lists(s, S), NEW k \in Keys, k \in S
  PROVE  PositionOf(s, k) \in 1..Len(s) /\ s[PositionOf(s, k)] = k
BY DEF Lists, PositionOf

\* shift_remove and swap_remove take exactly one key out of the list.
LEMMA ShiftRemoveLists ==
  ASSUME NEW s, NEW S \in SUBSET Keys, Lists(s, S), NEW k \in S
  PROVE  Lists(ShiftRemove(s, k), S \ {k})
<1> DEFINE p == PositionOf(s, k)
           n == Len(s)
           f == ShiftRemove(s, k)
<1>1. p \in 1..n /\ s[p] = k /\ n \in Nat /\ s \in [1..n -> Keys]
  BY PositionOfListed DEF Lists
<1>2. n - 1 \in Nat
  BY <1>1
<1>3. \A i \in 1..(n - 1) : f[i] = IF i < p THEN s[i] ELSE s[i + 1]
  BY <1>1 DEF ShiftRemove
<1>4. f \in [1..(n - 1) -> Keys]
  BY <1>1 DEF ShiftRemove
<1>5. f \in Seq(Keys) /\ Len(f) = n - 1
  BY <1>2, <1>4, FunctionIsSeq
<1>6. \A i, j \in 1..n : s[i] = s[j] => i = j
  BY DEF Lists
<1> HIDE DEF p, f
<1>7. \A i, j \in 1..(n - 1) : f[i] = f[j] => i = j
  BY <1>1, <1>3, <1>6
<1>8. ASSUME NEW i \in 1..(n - 1)
      PROVE  f[i] \in S \ {k}
  <2>1. CASE i < p
    BY <1>1, <1>3, <1>6, <2>1 DEF Lists
  <2>2. CASE ~ (i < p)
    BY <1>1, <1>3, <1>6, <2>2 DEF Lists
  <2> QED BY <2>1, <2>2
<1>9. ASSUME NEW m \in S \ {k}
      PROVE  \E i \in 1..(n - 1) : f[i] = m
  <2>1. PICK i \in 1..n : s[i] = m
    BY DEF Lists
  <2>2. i # p
    BY <1>1, <2>1
  <2>3. CASE i < p
    <3>1. i \in 1..(n - 1) /\ f[i] = m
      BY <1>1, <1>3, <2>1, <2>3
    <3> QED BY <3>1
  <2>4. CASE i > p
    <3>1. i - 1 \in 1..(n - 1) /\ f[i - 1] = m
      BY <1>1, <1>3, <2>1, <2>4
    <3> QED BY <3>1
  <2> QED BY <1>1, <2>2, <2>3, <2>4
<1>10. Lists(f, S \ {k})
  BY <1>5, <1>7, <1>8, <1>9 DEF Lists
<1> QED BY <1>10 DEF f

LEMMA SwapRemoveLists ==
  ASSUME NEW s, NEW S \in SUBSET Keys, Lists(s, S), NEW k \in S
  PROVE  Lists(SwapRemove(s, k), S \ {k})
<1> DEFINE p == PositionOf(s, k)
           n == Len(s)
           f == SwapRemove(s, k)
<1>1. p \in 1..n /\ s[p] = k /\ n \in Nat /\ s \in [1..n -> Keys]
  BY PositionOfListed DEF Lists
<1>2. n - 1 \in Nat
  BY <1>1
<1>3. \A i \in 1..(n - 1) : f[i] = IF i = p THEN s[n] ELSE s[i]
  BY <1>1 DEF SwapRemove
<1>4. f \in [1..(n - 1) -> Keys]
  BY <1>1 DEF SwapRemove
<1>5. f \in Seq(Keys) /\ Len(f) = n - 1
  BY <1>2, <1>4, FunctionIsSeq
<1>6. \A i, j \in 1..n : s[i] = s[j] => i = j
  BY DEF Lists
<1> HIDE DEF p, f
<1>7. \A i, j \in 1..(n - 1) : f[i] = f[j] => i = j
  BY <1>1, <1>3, <1>6
<1>8. ASSUME NEW i \in 1..(n - 1)
      PROVE  f[i] \in S \ {k}
  <2>1. CASE i = p
    BY <1>1, <1>3, <1>6, <2>1 DEF Lists
  <2>2. CASE i # p
    BY <1>1, <1>3, <1>6, <2>2 DEF Lists
  <2> QED BY <2>1, <2>2
<1>9. ASSUME NEW m \in S \ {k}
      PROVE  \E i \in 1..(n - 1) : f[i] = m
  <2>1. PICK i \in 1..n : s[i] = m
    BY DEF Lists
  <2>2. i # p
    BY <1>1, <2>1
  <2>3. CASE i = n
    <3>1. p \in 1..(n - 1) /\ f[p] = m
      BY <1>1, <1>3, <2>1, <2>2, <2>3
    <3> QED BY <3>1
  <2>4. CASE i # n
    <3>1. i \in 1..(n - 1) /\ f[i] = m
      BY <1>1, <1>3, <2>1, <2>2, <2>4
    <3> QED BY <3>1
  <2> QED BY <2>3, <2>4
<1>10. Lists(f, S \ {k})
  BY <1>5, <1>7, <1>8, <1>9 DEF Lists
<1> QED BY <1>10 DEF f

LEMMA AppendLists ==
  ASSUME NEW s, NEW S \in SUBSET Keys, Lists(s, S), NEW k \in Keys, k \notin S
  PROVE  Lists(Append(s, k), S \cup {k})
<1>1. /\ s \in Seq(Keys) /\ Append(s, k) \in Seq(Keys)
      /\ Len(Append(s, k)) = Len(s) + 1 /\ Append(s, k)[Len(s) + 1] = k
      /\ \A i \in 1..Len(s) : Append(s, k)[i] = s[i]
      /\ Len(s) \in Nat
  BY DEF Lists
<1>2. \A i \in 1..Len(s) : s[i] # k
  BY DEF Lists
<1>3. ASSUME NEW m \in Keys
      PROVE  m \in S \cup {k} <=> \E i \in 1..(Len(s) + 1) : Append(s, k)[i] = m
  BY <1>1 DEF Lists
<1>4. \A i, j \in 1..(Len(s) + 1) : Append(s, k)[i] = Append(s, k)[j] => i = j
  BY <1>1, <1>2 DEF Lists
<1> QED BY <1>1, <1>3, <1>4 DEF Lists

\* One push keeps the order a list of the keys that have an entry
\* (IndexMap::entry, shift_remove and swap_remove, coalescer.rs:184-395).
LEMMA PushLists ==
  ASSUME NEW w \in Windows, NEW op \in RowOps, NEW l,
         Lists(l, Pending(w))
  PROVE  Lists(PushOrder(w, l, op), Pending(PushEntry(w, op)))
<1> DEFINE k == op.key
           b == op.before
           new == CollapsedOp(w, op)
           rest == CollapsedEntries(w, op)
           kept == IF Collapses(w, op) THEN ShiftRemove(l, b) ELSE l
           push == PushEntry(w, op)
<1>1. /\ k \in Keys /\ new \in RowOps /\ rest \in Windows /\ push \in Windows
      /\ rest[k] \in Entries
  BY OpFields, CollapsedOpType, CollapsedEntriesType, PushType DEF Windows
<1>2. Lists(kept, Pending(rest))
  <2>1. CASE Collapses(w, op)
    <3>1. b \in Keys /\ w[b].kind \in {"insert", "update"}
      BY <2>1, OpFields DEF Collapses, MovesRow
    <3>2. rest = [w EXCEPT ![b] = NoEntry] /\ NoEntry.kind = "none"
      BY <2>1 DEF CollapsedEntries, NoEntry
    <3>3. Pending(rest) = Pending(w) \ {b} /\ b \in Pending(w)
      BY <3>1, <3>2 DEF Pending, Windows
    <3>4. Pending(w) \in SUBSET Keys
      BY DEF Pending
    <3> QED BY <2>1, <3>3, <3>4, ShiftRemoveLists
  <2>2. CASE ~ Collapses(w, op)
    BY <2>2 DEF CollapsedEntries
  <2> QED BY <2>1, <2>2
<1>3. push = [rest EXCEPT ![k] = Merged(rest[k], new)]
  BY DEF PushEntry
<1>4. push[k] = Merged(rest[k], new) /\ \A j \in Keys \ {k} : push[j] = rest[j]
  BY <1>1, <1>3 DEF Windows
<1>5. PushOrder(w, l, op) =
        IF rest[k].kind = "none" THEN Append(kept, k)
        ELSE IF push[k].kind = "none" THEN SwapRemove(kept, k) ELSE kept
  BY DEF PushOrder
<1>6. Pending(rest) \in SUBSET Keys
  BY DEF Pending
<1> HIDE DEF push, kept, rest
<1>7. CASE rest[k].kind = "none"
  <2>1. push[k].kind # "none"
    BY <1>1, <1>4, <1>7, MergedCases, OpFields
  <2>2. Pending(push) = Pending(rest) \cup {k} /\ k \notin Pending(rest)
    BY <1>1, <1>4, <1>7, <2>1 DEF Pending
  <2> QED BY <1>1, <1>2, <1>5, <1>6, <1>7, <2>2, AppendLists DEF push
<1>8. CASE rest[k].kind # "none" /\ push[k].kind = "none"
  <2>1. Pending(push) = Pending(rest) \ {k} /\ k \in Pending(rest)
    BY <1>1, <1>4, <1>8 DEF Pending
  <2> QED BY <1>1, <1>2, <1>5, <1>6, <1>8, <2>1, SwapRemoveLists DEF push
<1>9. CASE rest[k].kind # "none" /\ push[k].kind # "none"
  <2>1. Pending(push) = Pending(rest)
    BY <1>1, <1>4, <1>9 DEF Pending
  <2> QED BY <1>2, <1>5, <1>9, <2>1 DEF push
<1> QED BY <1>7, <1>8, <1>9

-----------------------------------------------------------------------------
(* Type correctness, for every workload.                                   *)

LEMMA TypeOKLists ==
  TypeOK <=> /\ source \in Table /\ stored \in Table
             /\ entry \in Windows
             /\ Lists(order, Pending(entry))
             /\ freed \subseteq Keys /\ moved \subseteq freed /\ arrived \subseteq Keys
<1>1. ASSUME order \in Seq(Keys)
      PROVE  Pending(entry) = {order[i] : i \in DOMAIN order} <=>
             \A k \in Keys : k \in Pending(entry) <=> \E i \in 1..Len(order) : order[i] = k
  <2>1. DOMAIN order = 1..Len(order) /\ \A i \in 1..Len(order) : order[i] \in Keys
    BY <1>1
  <2>2. Pending(entry) \subseteq Keys
    BY DEF Pending
  <2> QED BY <2>1, <2>2
<1>2. ASSUME order \in Seq(Keys)
      PROVE  DOMAIN order = 1..Len(order)
  BY <1>2
<1> QED BY <1>1, <1>2 DEF TypeOK, Windows, Lists

\* A push keeps the state well typed.
LEMMA PushTypeOK ==
  ASSUME TypeOK, NEW op \in RowOps, Push(op)
  PROVE  /\ source' \in Table /\ stored' \in Table /\ entry' \in Windows
         /\ Lists(order', Pending(entry'))
<1>1. source \in Table /\ stored \in Table /\ entry \in Windows /\ Lists(order, Pending(entry))
  BY TypeOKLists
<1> QED BY <1>1, ApplyOpType, PushType, PushLists DEF Push

\* The operation of each action.
LEMMA ActionOps ==
  ASSUME NEW k \in Keys, NEW to \in Keys, NEW v \in Vals
  PROVE  /\ [kind |-> "insert", key |-> k, val |-> v, before |-> NoKey] \in RowOps
         /\ [kind |-> "update", key |-> to, val |-> v, before |-> k] \in RowOps
         /\ [kind |-> "delete", key |-> k, val |-> Absent, before |-> k] \in RowOps
BY DEF RowOps

LEMMA InitTypeOK == Init => TypeOK
<1> SUFFICES ASSUME Init PROVE TypeOK
  OBVIOUS
<1>1. NoEntries \in Windows
  BY EmptyRepresents DEF Init
<1>2. Pending(NoEntries) = {}
  BY DEF Pending, NoEntries, NoEntry
<1>3. Lists(<< >>, {})
  BY DEF Lists
<1> QED BY <1>1, <1>2, <1>3, TypeOKLists DEF Init

LEMMA NextTypeOK == TypeOK /\ [Next]_vars => TypeOK'
<1> SUFFICES ASSUME TypeOK, [Next]_vars PROVE TypeOK'
  OBVIOUS
<1> DEFINE Goal == /\ source' \in Table /\ stored' \in Table
                   /\ entry' \in Windows
                   /\ Lists(order', Pending(entry'))
                   /\ freed' \subseteq Keys /\ moved' \subseteq freed' /\ arrived' \subseteq Keys
<1>1. Goal => TypeOK'
  <2> SUFFICES ASSUME Goal PROVE TypeOK'
    OBVIOUS
  <2>1. DOMAIN order' = 1..Len(order') /\ \A i \in 1..Len(order') : order'[i] \in Keys
    BY DEF Lists
  <2>2. Pending(entry') \subseteq Keys
    BY DEF Pending
  <2>3. Pending(entry)' = Pending(entry')
    BY DEF Pending
  <2>4. Pending(entry') = {order'[i] : i \in DOMAIN order'}
    BY <2>1, <2>2 DEF Lists
  <2> QED BY <2>1, <2>3, <2>4 DEF TypeOK, Windows, Lists
<1> HIDE DEF Goal
<1>2. freed \subseteq Keys /\ moved \subseteq freed /\ arrived \subseteq Keys
  BY DEF TypeOK
<1>3. CASE InsertRow
  <2>1. PICK k \in Keys, v \in Vals :
             Push([kind |-> "insert", key |-> k, val |-> v, before |-> NoKey])
    BY <1>3 DEF InsertRow
  <2>2. UNCHANGED <<freed, moved, arrived>>
    BY <1>3 DEF InsertRow
  <2> QED BY <1>1, <1>2, <2>1, <2>2, ActionOps, PushTypeOK DEF Goal
<1>4. CASE UpdateRow
  <2>1. PICK k \in Keys, v \in Vals :
             Push([kind |-> "update", key |-> k, val |-> v, before |-> k])
    BY <1>4 DEF UpdateRow
  <2>2. UNCHANGED <<freed, moved, arrived>>
    BY <1>4 DEF UpdateRow
  <2> QED BY <1>1, <1>2, <2>1, <2>2, ActionOps, PushTypeOK DEF Goal
<1>5. CASE MoveRow
  <2>1. PICK k \in Keys, to \in Keys, v \in Vals :
             /\ Push([kind |-> "update", key |-> to, val |-> v, before |-> k])
             /\ freed' = freed \cup {k} /\ moved' = moved \cup {k}
             /\ arrived' = arrived \cup {to}
    BY <1>5 DEF MoveRow
  <2>2. freed' \subseteq Keys /\ moved' \subseteq freed' /\ arrived' \subseteq Keys
    BY <1>2, <2>1
  <2> QED BY <1>1, <2>1, <2>2, ActionOps, PushTypeOK DEF Goal
<1>6. CASE DeleteRow
  <2>1. PICK k \in Keys :
             /\ Push([kind |-> "delete", key |-> k, val |-> Absent, before |-> k])
             /\ freed' = freed \cup {k} /\ UNCHANGED <<moved, arrived>>
    BY <1>6 DEF DeleteRow
  <2>2. freed' \subseteq Keys /\ moved' \subseteq freed' /\ arrived' \subseteq Keys
    BY <1>2, <2>1
  <2>3. [kind |-> "delete", key |-> k, val |-> Absent, before |-> k] \in RowOps
    BY DEF RowOps
  <2> QED BY <1>1, <2>1, <2>2, <2>3, PushTypeOK DEF Goal
<1>7. CASE Flush
  <2>1. stored' \in Table /\ source' \in Table
    <3>1. stored \in Table /\ entry \in Windows
      BY TypeOKLists
    <3> QED BY <1>7, <3>1, FlushType DEF Flush, TypeOK
  <2>2. entry' \in Windows /\ order' = << >>
    BY <1>7, <2>1, EmptyRepresents DEF Flush
  <2>3. Pending(entry') = {} /\ Lists(<< >>, {})
    BY <1>7 DEF Flush, Pending, NoEntries, NoEntry, Lists
  <2> QED BY <1>1, <1>7, <2>1, <2>2, <2>3 DEF Flush, Goal
<1>8. CASE UNCHANGED vars
  BY <1>8 DEF vars, TypeOK, Pending
<1> QED BY <1>3, <1>4, <1>5, <1>6, <1>7, <1>8 DEF Next

\* For every workload the window stays well formed: in particular the order
\* lists each pending key exactly once (coalescer.rs:165-399).
THEOREM TypeCorrect == Spec => []TypeOK
<1> QED BY InitTypeOK, NextTypeOK, PTL DEF Spec

-----------------------------------------------------------------------------
(* Exactness, for the workloads that reuse no vacated key.                 *)

NoReuseWorkload == Workload \cap {"takeover", "reinsert"} = {}

\* Inductive: well-typed, and every entry tells what MySQL holds.
IInv == TypeOK /\ WindowFaithful

LEMMA InitIInv == Init => IInv
<1> SUFFICES ASSUME Init PROVE WindowFaithful
  BY InitTypeOK DEF IInv
<1> QED BY EmptyRepresents DEF Init, WindowFaithful

\* A push that reuses no vacated key keeps the window faithful.
LEMMA PushFaithful ==
  ASSUME IInv, NEW op \in RowOps, Push(op), NoReuse(op, freed, moved),
         freed' = freed \cup Vacated(op), moved' = moved \cup MovedAway(op)
  PROVE  WindowFaithful'
<1>1. source \in Table /\ stored \in Table /\ entry \in Windows /\ moved \subseteq freed
  BY DEF IInv, TypeOK, Windows
<1>2. Represents(entry, stored, source, freed, moved)
  BY DEF IInv, WindowFaithful
<1>3. Represents(PushEntry(entry, op), stored, ApplyOp(source, op),
                 freed \cup Vacated(op), moved \cup MovedAway(op))
  BY <1>1, <1>2, PushRepresents DEF Push
<1> QED BY <1>3 DEF Push, WindowFaithful

LEMMA NextIInv ==
  ASSUME NoReuseWorkload
  PROVE  IInv /\ [Next]_vars => IInv'
<1> SUFFICES ASSUME IInv, [Next]_vars PROVE WindowFaithful'
  BY NextTypeOK DEF IInv
<1>1. "reinsert" \notin Workload /\ "takeover" \notin Workload
  BY DEF NoReuseWorkload
<1>2. CASE InsertRow
  <2>1. PICK k \in Keys, v \in Vals :
             /\ k \in moved => "reinsert" \in Workload
             /\ Push([kind |-> "insert", key |-> k, val |-> v, before |-> NoKey])
    BY <1>2 DEF InsertRow
  <2> DEFINE op == [kind |-> "insert", key |-> k, val |-> v, before |-> NoKey]
  <2>2. op \in RowOps /\ NoReuse(op, freed, moved)
    BY <1>1, <2>1, ActionOps DEF NoReuse, MovesRow
  <2>3. freed' = freed \cup Vacated(op) /\ moved' = moved \cup MovedAway(op)
    BY <1>2 DEF InsertRow, Vacated, MovedAway, MovesRow
  <2> QED BY <2>1, <2>2, <2>3, PushFaithful
<1>3. CASE UpdateRow
  <2>1. PICK k \in Keys, v \in Vals :
             Push([kind |-> "update", key |-> k, val |-> v, before |-> k])
    BY <1>3 DEF UpdateRow
  <2> DEFINE op == [kind |-> "update", key |-> k, val |-> v, before |-> k]
  <2>2. op \in RowOps /\ NoReuse(op, freed, moved)
    BY ActionOps DEF NoReuse, MovesRow
  <2>3. freed' = freed \cup Vacated(op) /\ moved' = moved \cup MovedAway(op)
    BY <1>3 DEF UpdateRow, Vacated, MovedAway, MovesRow
  <2> QED BY <2>1, <2>2, <2>3, PushFaithful
<1>4. CASE MoveRow
  <2>1. PICK k \in Keys, to \in Keys, v \in Vals :
             /\ to # k
             /\ to \in freed => "takeover" \in Workload
             /\ Push([kind |-> "update", key |-> to, val |-> v, before |-> k])
             /\ freed' = freed \cup {k} /\ moved' = moved \cup {k}
    BY <1>4 DEF MoveRow
  <2> DEFINE op == [kind |-> "update", key |-> to, val |-> v, before |-> k]
  <2>2. op \in RowOps /\ NoReuse(op, freed, moved)
    BY <1>1, <2>1, ActionOps DEF NoReuse
  <2>3. freed' = freed \cup Vacated(op) /\ moved' = moved \cup MovedAway(op)
    BY <2>1 DEF Vacated, MovedAway, MovesRow
  <2> QED BY <2>1, <2>2, <2>3, PushFaithful
<1>5. CASE DeleteRow
  <2>1. PICK k \in Keys :
             /\ Push([kind |-> "delete", key |-> k, val |-> Absent, before |-> k])
             /\ freed' = freed \cup {k} /\ UNCHANGED moved
    BY <1>5 DEF DeleteRow
  <2> DEFINE op == [kind |-> "delete", key |-> k, val |-> Absent, before |-> k]
  <2>2. op \in RowOps /\ NoReuse(op, freed, moved)
    BY DEF RowOps, NoReuse, MovesRow
  <2>3. freed' = freed \cup Vacated(op) /\ moved' = moved \cup MovedAway(op)
    BY <2>1 DEF Vacated, MovedAway, MovesRow
  <2> QED BY <2>1, <2>2, <2>3, PushFaithful
<1>6. CASE Flush
  <2>1. /\ source \in Table /\ stored \in Table /\ entry \in Windows
        /\ Represents(entry, stored, source, freed, moved)
    BY DEF IInv, TypeOK, Windows, WindowFaithful
  <2>2. stored' = source
    BY <1>6, <2>1, FlushExact DEF Flush
  <2> QED BY <1>6, <2>1, <2>2, EmptyRepresents DEF Flush, WindowFaithful
<1>7. CASE UNCHANGED vars
  BY <1>7 DEF vars, IInv, WindowFaithful
<1> QED BY <1>2, <1>3, <1>4, <1>5, <1>6, <1>7 DEF Next

\* Without reuse of a vacated key every entry is faithful at every moment.
THEOREM WindowAlwaysFaithful ==
  ASSUME NoReuseWorkload
  PROVE  Spec => []WindowFaithful
<1>1. IInv => WindowFaithful
  BY DEF IInv
<1> QED BY <1>1, InitIInv, NextIInv, PTL DEF Spec

\* Without reuse of a vacated key, coalescing is exact: whenever the window is
\* flushed, and whatever the IndexMap's order, DuckDB gets MySQL's table
\* (coalescer.rs:165-399, writer.rs:621-937).
THEOREM FlushAlwaysExact ==
  ASSUME NoReuseWorkload
  PROVE  Spec => []FlushMatchesSource
<1>1. IInv => FlushMatchesSource
  <2> SUFFICES ASSUME IInv PROVE FlushMatchesSource
    OBVIOUS
  <2>1. /\ source \in Table /\ stored \in Table /\ entry \in Windows
        /\ Represents(entry, stored, source, freed, moved)
    BY DEF IInv, TypeOK, Windows, WindowFaithful
  <2> QED BY <2>1, FlushExact DEF FlushMatchesSource
<1> QED BY <1>1, InitIInv, NextIInv, PTL DEF Spec

=============================================================================
