--------------------------- MODULE SchemaStreamProofs ---------------------------
(***************************************************************************)
(* Schema changes, for any tables, columns, filters and statements and any *)
(* number of events and faults.                                            *)
(*                                                                         *)
(* Names of excluded tables and columns are never stored, whatever         *)
(* happens.  Their values are not stored as long as the reader reads each  *)
(* statement before MySQL executes the next (ReadsInTime); that is needed: *)
(* a reader that is behind binds values to the columns of a later layout.  *)
(*                                                                         *)
(* Shape(V) is the shape of the state when the rows on their way from the  *)
(* reader to the store hold values of V.  Every step keeps it as long as   *)
(* the rows the reader makes hold such values: all of them do when V is    *)
(* Value.  That they are in CleanValue, the values written to columns the  *)
(* filter lets through, takes what the log did to the tables (LogInv) and  *)
(* that the reader's schemas are those the next row was written with       *)
(* (ReaderInv).                                                            *)
(*                                                                         *)
(* That the store is MySQL's tables (StoreAlwaysExact and the theorems at  *)
(* the end) is proved when MySQL is in order (InOrder).  The invariant,    *)
(* Correct, says that every table in the store is the image of one of the  *)
(* history at or behind the checkpoint (Covered), and that there is a run: *)
(* states of the writer, one for each event in the channel and one more,   *)
(* that lead from what the writer has (Like) to what it will have when it  *)
(* has written all that was sent.  The store takes every event on the way  *)
(* (Link), and from the state at the end the reader may go on (End): its   *)
(* schemas are that state's layouts, and what it has read is in there.     *)
(* All this is about the tables whose schemas were applied: a table that   *)
(* is damaged, because DuckDB refused its schema, differs from the run in  *)
(* any way, and the run goes on as if it were not there.                   *)
(* The reader makes the run longer (Extends), the writer takes its first   *)
(* step, and MySQL changes neither.                                        *)
(***************************************************************************)
EXTENDS SchemaStream, QueueLemmas, FiniteSetTheorems, WellFoundedInduction

-----------------------------------------------------------------------------
\* Selected.

Increasing(f) == \A i, j \in DOMAIN f : i < j => f[i] < f[j]

Enumerations(S) == {f \in [1 .. Cardinality(S) -> S] : Increasing(f)}

\* A set of positions can be enumerated in increasing order.
LEMMA EnumerationExists ==
  ASSUME NEW n \in Nat, NEW S \in SUBSET (1 .. n)
  PROVE  Enumerations(S) # {}
<1> DEFINE Bad == {m \in Nat : \E I \in SUBSET (1 .. m) : Enumerations(I) = {}}
           R == OpToRel(<, Nat)
<1> SUFFICES ASSUME Bad # {} PROVE FALSE
  OBVIOUS
<1>1. PICK m \in Bad : \A k \in Bad : ~ (<<k, m>> \in R)
  <2> HIDE DEF R
  <2>1. IsWellFoundedOn(R, Nat)
    BY NatLessThanWellFounded DEF R
  <2>2. Bad \subseteq Nat
    OBVIOUS
  <2> QED BY <2>1, <2>2, WFMin
<1>2. \A k \in Bad : ~ (k < m)
  BY <1>1, Zenon DEF OpToRel
<1>3. PICK I \in SUBSET (1 .. m) : Enumerations(I) = {}
  BY <1>1
<1>4. m \in Nat /\ IsFiniteSet(I) /\ Cardinality(I) \in Nat
  <2>1. m \in Nat /\ IsFiniteSet(1 .. m)
    BY FS_Interval
  <2> HIDE DEF Bad
  <2>2. IsFiniteSet(I)
    BY <2>1, FS_Subset
  <2> QED BY <2>1, <2>2, FS_CardinalityType
<1>5. CASE m = 0
  <2>1. I = {}
    BY <1>5
  <2> HIDE DEF Bad
  <2>2. Cardinality(I) = 0
    BY <2>1, FS_EmptySet
  <2> DEFINE e == [k \in 1 .. 0 |-> m]
  <2>3. e \in [1 .. 0 -> I]
    OBVIOUS
  <2>4. e \in Enumerations(I)
    BY <2>2, <2>3 DEF Enumerations, Increasing
  <2> QED BY <2>4, <1>3
<1>6. CASE m # 0
  <2> DEFINE J == I \ {m}
  <2>1. m - 1 \in Nat /\ J \in SUBSET (1 .. m - 1)
    BY <1>4, <1>6
  <2>2. Enumerations(J) # {}
    BY <2>1, <1>2, <1>4
  <2>3. PICK f \in [1 .. Cardinality(J) -> J] : Increasing(f)
    BY <2>2, Zenon DEF Enumerations
  <2>4. CASE m \notin I
    <3>1. J = I
      BY <2>4
    <3> QED BY <3>1, <2>2, <1>3
  <2>5. CASE m \in I
    <3> DEFINE c == Cardinality(I)
               g == [k \in 1 .. c |-> IF k = c THEN m ELSE f[k]]
    <3>1. Cardinality(J) = c - 1 /\ c \in Nat
      BY <1>4, <2>5, FS_RemoveElement
    <3> HIDE DEF c
    <3>2. \A k \in 1 .. c : k # c => k \in 1 .. c - 1
      BY <3>1
    <3>3. \A k \in 1 .. c - 1 : f[k] \in J
      BY <2>3, <3>1
    <3>4. \A k \in 1 .. c : g[k] \in I
      BY <3>2, <3>3, <2>5
    <3>5. g \in [1 .. c -> I]
      BY <3>4
    <3>6. ASSUME NEW i \in 1 .. c, NEW j \in 1 .. c, i < j
          PROVE  g[i] < g[j]
      <4>1. i # c /\ i \in 1 .. c - 1 /\ g[i] = f[i]
        BY <3>1, <3>6
      <4>2. CASE j = c
        <5>1. g[j] = m /\ f[i] \in 1 .. m - 1
          BY <4>2, <4>1, <3>3, <2>1
        <5>2. m \in Nat /\ f[i] \in 1 .. m - 1
          BY <5>1, <1>4
        <5>3. f[i] < m
          <6> HIDE DEF Bad, J, g
          <6> QED BY <5>2
        <5> QED BY <5>1, <5>3, <4>1
      <4>3. CASE j # c
        <5>1. j \in 1 .. c - 1 /\ g[j] = f[j] /\ DOMAIN f = 1 .. c - 1
          BY <4>3, <3>2, <2>3, <3>1
        <5> QED BY <5>1, <4>1, <2>3, <3>6 DEF Increasing
      <4> QED BY <4>2, <4>3
    <3>7. g \in Enumerations(I)
      <4>1. DOMAIN g = 1 .. c
        OBVIOUS
      <4> QED BY <3>5, <3>6, <4>1 DEF Enumerations, Increasing, c
    <3> QED BY <3>7, <1>3
  <2> QED BY <2>4, <2>5
<1> QED BY <1>5, <1>6

\* Selected returns elements from the selected positions.
LEMMA SelectedElements ==
  ASSUME NEW V, NEW n \in Nat, NEW seq, NEW S \in SUBSET (1 .. n), \A i \in S : seq[i] \in V
  PROVE  Selected(seq, S) \in Seq(V)
<1> DEFINE keep == CHOOSE f \in [1 .. Cardinality(S) -> S] :
                     \A i, j \in DOMAIN f : i < j => f[i] < f[j]
<1>1. \E f \in [1 .. Cardinality(S) -> S] : \A i, j \in DOMAIN f : i < j => f[i] < f[j]
  BY EnumerationExists DEF Enumerations, Increasing
<1>2. keep \in [1 .. Cardinality(S) -> S]
  BY <1>1
<1>3. Cardinality(S) \in Nat
  <2>1. IsFiniteSet(1 .. n)
    BY FS_Interval
  <2>2. IsFiniteSet(S)
    BY <2>1, FS_Subset
  <2> QED BY <2>2, FS_CardinalityType
<1>4. Selected(seq, S) = [k \in DOMAIN keep |-> seq[keep[k]]]
  BY DEF Selected
<1> HIDE DEF keep
<1>5. Selected(seq, S) \in [1 .. Cardinality(S) -> V]
  BY <1>2, <1>4
<1> QED BY <1>5, <1>3

\* SetToSeq of a finite set is a sequence of its elements.
LEMMA SetToSeqElements ==
  ASSUME NEW S, IsFiniteSet(S)
  PROVE  SetToSeq(S) \in Seq(S)
<1>1. Cardinality(S) \in Nat /\ ExistsBijection(1 .. Cardinality(S), S)
  BY FS_CardinalityType
<1>2. \E f \in [1 .. Cardinality(S) -> S] : IsInjective(f)
  BY <1>1 DEF ExistsBijection, Bijection, Injection, IsInjective
<1>3. SetToSeq(S) \in [1 .. Cardinality(S) -> S]
  BY <1>2, Zenon DEF SetToSeq
<1> QED BY <1>3, <1>1

LEMMA InsertAtElements ==
  ASSUME NEW V, NEW s \in Seq(V), NEW v \in V, NEW i \in 1 .. Len(s) + 1
  PROVE  InsertAt(s, i, v) \in Seq(V) /\ Len(InsertAt(s, i, v)) = Len(s) + 1
<1>1. Len(s) \in Nat /\ i \in Nat
  OBVIOUS
<1>2. SubSeq(s, 1, i - 1) \in Seq(V) /\ Len(SubSeq(s, 1, i - 1)) = i - 1
  BY <1>1, SubSeqProperties
<1>3. SubSeq(s, i, Len(s)) \in Seq(V) /\ Len(SubSeq(s, i, Len(s))) = Len(s) - i + 1
  BY <1>1, SubSeqProperties
<1>4. <<v>> \in Seq(V) /\ Len(<<v>>) = 1
  OBVIOUS
<1> DEFINE a == SubSeq(s, 1, i - 1)
           b == SubSeq(s, i, Len(s))
<1>5. InsertAt(s, i, v) = a \o <<v>> \o b
  BY DEF InsertAt
<1> HIDE DEF a, b
<1>6. a \in Seq(V) /\ b \in Seq(V) /\ Len(a) = i - 1 /\ Len(b) = Len(s) - i + 1
  BY <1>2, <1>3 DEF a, b
<1>7. a \o <<v>> \in Seq(V) /\ Len(a \o <<v>>) = i
  BY <1>1, <1>4, <1>6
<1>8. (a \o <<v>>) \o b \in Seq(V) /\ Len((a \o <<v>>) \o b) = i + Len(b)
  BY <1>1, <1>6, <1>7
<1> QED BY <1>1, <1>5, <1>6, <1>8

LEMMA RemoveAtElements ==
  ASSUME NEW V, NEW s \in Seq(V), NEW i \in 1 .. Len(s)
  PROVE  RemoveAt(s, i) \in Seq(V) /\ Len(RemoveAt(s, i)) = Len(s) - 1
<1>1. Len(s) \in Nat /\ i \in Nat
  OBVIOUS
<1>2. SubSeq(s, 1, i - 1) \in Seq(V) /\ Len(SubSeq(s, 1, i - 1)) = i - 1
  BY <1>1, SubSeqProperties
<1>3. SubSeq(s, i + 1, Len(s)) \in Seq(V) /\ Len(SubSeq(s, i + 1, Len(s))) = Len(s) - i
  BY <1>1, SubSeqProperties
<1> DEFINE a == SubSeq(s, 1, i - 1)
           b == SubSeq(s, i + 1, Len(s))
<1>4. RemoveAt(s, i) = a \o b
  BY DEF RemoveAt
<1> HIDE DEF a, b
<1>5. a \in Seq(V) /\ b \in Seq(V) /\ Len(a) = i - 1 /\ Len(b) = Len(s) - i
  BY <1>2, <1>3 DEF a, b
<1>6. a \o b \in Seq(V) /\ Len(a \o b) = Len(a) + Len(b)
  BY <1>5
<1> QED BY <1>1, <1>4, <1>5, <1>6

-----------------------------------------------------------------------------
\* What the filter lets through.

AllowedTables == {t \in Tables : TableAllowed(t)}

AllowedColumns == {c \in Columns : ColumnAllowed(c)}

Projected == Seq(AllowedColumns)

\* Values written to columns that the filter lets through.
CleanValue == (AllowedColumns \X (0 .. MaxEvents)) \cup {Null}

\* The sets of values the lemmas are about: Value and CleanValue.
ValueSet(V) == CleanValue \subseteq V /\ V \subseteq Value

LocalTables(V) ==
  {table \in LocalTable : /\ table.cols \subseteq AllowedColumns
                          /\ table.row = None \/ table.row \in [table.cols -> V]}

LEMMA ValueSets == ValueSet(Value) /\ ValueSet(CleanValue)
BY DEF ValueSet, CleanValue, Value, AllowedColumns

LEMMA NullIsValue ==
  ASSUME NEW V, ValueSet(V)
  PROVE  Null \in V
BY DEF ValueSet, CleanValue

LEMMA LocalFields ==
  ASSUME NEW V, NEW table \in LocalTables(V)
  PROVE  /\ table = [cols |-> table.cols, row |-> table.row]
         /\ table.cols \subseteq AllowedColumns
         /\ table.row = None \/ table.row \in [table.cols -> V]
         /\ table # None
<1>1. table \in LocalTable /\ table # None
  BY SchemaAssumption DEF LocalTables
<1>2. PICK cols \in SUBSET Columns : table \in [cols : {cols}, row : [cols -> Value] \cup {None}]
  BY <1>1 DEF LocalTable
<1> QED BY <1>1, <1>2 DEF LocalTables

LEMMA LocalBuilt ==
  ASSUME NEW V, ValueSet(V), NEW cols \in SUBSET AllowedColumns, NEW row,
         row = None \/ row \in [cols -> V]
  PROVE  [cols |-> cols, row |-> row] \in LocalTables(V)
<1> DEFINE table == [cols |-> cols, row |-> row]
<1>1. cols \in SUBSET Columns
  BY DEF AllowedColumns
<1>2. row \in [cols -> Value] \cup {None}
  <2>1. V \subseteq Value
    BY DEF ValueSet
  <2> QED BY <2>1
<1>3. table \in [cols : {cols}, row : [cols -> Value] \cup {None}]
  BY <1>2
<1>4. table \in LocalTable
  BY <1>1, <1>3 DEF LocalTable
<1> QED BY <1>4 DEF LocalTables

LEMMA ProjectSchemaType ==
  ASSUME NEW cols \in Seq(Columns)
  PROVE  ProjectSchema(cols) \in Projected
<1>1. Len(cols) \in Nat /\ Project(cols) \in SUBSET (1 .. Len(cols))
  BY DEF Project
<1>2. \A i \in Project(cols) : cols[i] \in AllowedColumns
  BY DEF Project, AllowedColumns
<1> QED BY <1>1, <1>2, SelectedElements DEF ProjectSchema, Projected

LEMMA ProjectRowType ==
  ASSUME NEW V, Null \in V, NEW cols \in Seq(Columns), NEW row,
         \A i \in Project(cols) : i \in DOMAIN row => row[i] \in V
  PROVE  ProjectRow(cols, row) \in Seq(V)
<1> DEFINE s == [i \in DOMAIN cols |-> IF i \in DOMAIN row THEN row[i] ELSE Null]
<1>1. Len(cols) \in Nat /\ Project(cols) \in SUBSET (1 .. Len(cols))
  BY DEF Project
<1>2. \A i \in Project(cols) : s[i] \in V
  BY DEF Project
<1> HIDE DEF s
<1>3. Selected(s, Project(cols)) \in Seq(V)
  BY <1>1, <1>2, SelectedElements
<1> QED BY <1>3 DEF ProjectRow, s

LEMMA ByNameType ==
  ASSUME NEW V, Null \in V, NEW C, NEW cols \in Seq(C), NEW row \in Seq(V)
  PROVE  ToSet(cols) \subseteq C /\ ByName(cols, row) \in [ToSet(cols) -> V]
<1>1. ToSet(cols) \subseteq C
  BY DEF ToSet
<1> DEFINE at(c) == CHOOSE i \in DOMAIN cols : cols[i] = c
<1>2. \A c \in ToSet(cols) : (IF at(c) \in DOMAIN row THEN row[at(c)] ELSE Null) \in V
  <2> HIDE DEF at
  <2> QED OBVIOUS
<1>3. ByName(cols, row) = [c \in ToSet(cols) |-> IF at(c) \in DOMAIN row THEN row[at(c)] ELSE Null]
  BY DEF ByName
<1> HIDE DEF at
<1> QED BY <1>1, <1>2, <1>3

LEMMA WrittenIsClean ==
  ASSUME NEW cols \in Seq(Columns), NEW n \in 0 .. MaxEvents
  PROVE  /\ Written(cols, n) \in Seq(Value) /\ Len(Written(cols, n)) = Len(cols)
         /\ \A i \in Project(cols) : Written(cols, n)[i] \in CleanValue
<1>1. Len(cols) \in Nat /\ DOMAIN cols = 1 .. Len(cols)
  OBVIOUS
<1>2. \A i \in DOMAIN cols : cols[i] \in Columns
  OBVIOUS
<1>3. \A i \in DOMAIN cols : <<cols[i], n>> \in Value
  BY <1>2 DEF Value
<1>4. Written(cols, n) \in [1 .. Len(cols) -> Value]
  BY <1>1, <1>3 DEF Written
<1>5. \A i \in Project(cols) : Written(cols, n)[i] \in CleanValue
  BY <1>2 DEF Project, Written, CleanValue, AllowedColumns
<1> QED BY <1>1, <1>4, <1>5

LEMMA LoadedType ==
  ASSUME NEW table \in Table, table.row \in {NoRow, Written(table.cols, 0)}
  PROVE  Loaded(table) \in LocalTables(CleanValue)
<1> DEFINE cols == ProjectSchema(table.cols)
           row == ProjectRow(table.cols, table.row)
<1>1. table # None /\ table.cols \in Seq(Columns) /\ 0 \in 0 .. MaxEvents
  BY SchemaAssumption DEF Table
<1>2. cols \in Projected
  BY <1>1, ProjectSchemaType
<1>3. Null \in CleanValue
  BY DEF CleanValue
<1>4. ASSUME table.row # NoRow PROVE row \in Seq(CleanValue)
  <2>1. \A i \in Project(table.cols) : table.row[i] \in CleanValue
    BY <1>1, <1>4, WrittenIsClean
  <2> QED BY <1>1, <1>3, <2>1, ProjectRowType
<1> HIDE DEF cols, row
<1>5. ToSet(cols) \in SUBSET AllowedColumns
  BY <1>2 DEF Projected, ToSet
<1>6. table.row # NoRow => ByName(cols, row) \in [ToSet(cols) -> CleanValue]
  BY <1>2, <1>3, <1>4, ByNameType DEF Projected
<1> DEFINE local == IF table.row = NoRow THEN None ELSE ByName(cols, row)
<1>7. local = None \/ local \in [ToSet(cols) -> CleanValue]
  BY <1>6
<1>8. Loaded(table) = [cols |-> ToSet(cols), row |-> local]
  BY <1>1 DEF Loaded, cols, row
<1> HIDE DEF local
<1> QED BY <1>5, <1>7, <1>8, LocalBuilt, ValueSets

-----------------------------------------------------------------------------
\* The operations on a local table.

LEMMA ResizedType ==
  ASSUME NEW V, ValueSet(V), NEW table \in LocalTables(V), NEW cols \in SUBSET AllowedColumns
  PROVE  Resized(table, cols) \in LocalTables(V)
<1> DEFINE row == IF table.row = None THEN None
                  ELSE [c \in cols |-> IF c \in table.cols THEN table.row[c] ELSE Null]
<1>1. table.row = None \/ table.row \in [table.cols -> V]
  BY LocalFields
<1>2. row = None \/ row \in [cols -> V]
  BY <1>1, NullIsValue
<1>3. Resized(table, cols) = [cols |-> cols, row |-> row]
  BY DEF Resized
<1> HIDE DEF row
<1> QED BY <1>2, <1>3, LocalBuilt

LEMMA RenamedType ==
  ASSUME NEW V, ValueSet(V), NEW table \in LocalTables(V), NEW c, NEW new \in AllowedColumns
  PROVE  Renamed(table, c, new) \in LocalTables(V) \cup {None}
<1>1. CASE c \notin table.cols \/ new \in table.cols
  BY <1>1 DEF Renamed
<1>2. CASE ~ (c \notin table.cols \/ new \in table.cols)
  <2> DEFINE cols == (table.cols \ {c}) \cup {new}
             row == IF table.row = None THEN None
                    ELSE [d \in cols |-> table.row[IF d = new THEN c ELSE d]]
  <2>1. table.cols \subseteq AllowedColumns /\ (table.row = None \/ table.row \in [table.cols -> V])
    BY LocalFields
  <2>2. cols \in SUBSET AllowedColumns
    BY <2>1
  <2>3. \A d \in cols : (IF d = new THEN c ELSE d) \in table.cols
    BY <1>2
  <2>4. row = None \/ row \in [cols -> V]
    BY <2>1, <2>3
  <2>5. Renamed(table, c, new) = [cols |-> cols, row |-> row]
    BY <1>2 DEF Renamed
  <2> HIDE DEF cols, row
  <2> QED BY <2>2, <2>4, <2>5, LocalBuilt
<1> QED BY <1>1, <1>2

LEMMA CompletedType ==
  ASSUME NEW V, ValueSet(V), NEW table \in LocalTables(V) \cup {None}, NEW cols \in Projected,
         NEW some \in Projected
  PROVE  Completed(Created(table, cols), some) \in LocalTables(V)
<1>1. ToSet(cols) \in SUBSET AllowedColumns /\ ToSet(some) \in SUBSET AllowedColumns
  BY DEF Projected, ToSet
<1> DEFINE empty == [cols |-> ToSet(cols), row |-> None]
<1>2. empty \in LocalTables(V)
  BY <1>1, LocalBuilt
<1> HIDE DEF empty
<1>3. Created(table, cols) \in LocalTables(V)
  BY <1>2 DEF Created, empty
<1>4. Created(table, cols).cols \cup ToSet(some) \in SUBSET AllowedColumns
  BY <1>1, <1>3, LocalFields
<1> QED BY <1>3, <1>4, ResizedType DEF Completed

LEMMA AlteredType ==
  ASSUME NEW V, ValueSet(V), NEW table \in LocalTables(V) \cup {None},
         NEW cur \in Projected \cup {None}, NEW e, e.kind \in Alters, e.new \in Projected
  PROVE  Altered(e, table, cur) \in LocalTables(V) \cup {None}
<1>1. CASE table = None
  BY <1>1 DEF Altered
<1>2. CASE table # None
  <2>1. table \in LocalTables(V) /\ table.cols \subseteq AllowedColumns
    BY <1>2, LocalFields
  <2>2. ToSet(e.new) \in SUBSET AllowedColumns
    BY DEF Projected, ToSet
  <2> DEFINE own == Translated(e, table, cur)
  <2>3. own \in LocalTables(V) \cup {None}
    <3>1. CASE ~ Direct(e, cur)
      <4> DEFINE cols == (table.cols \cup (ToSet(e.new) \ ToSet(cur))) \ (ToSet(cur) \ ToSet(e.new))
      <4>1. cols \in SUBSET AllowedColumns
        BY <2>1, <2>2
      <4>2. own = Resized(table, cols)
        BY <3>1 DEF Translated, DiffSchema
      <4> HIDE DEF cols, own
      <4> QED BY <2>1, <4>1, <4>2, ResizedType
    <3>2. CASE Direct(e, cur) /\ e.kind = "addColumn"
      <4>1. own = Added(table, e.arg) /\ e.arg \in AllowedColumns
        BY <3>2, <2>2 DEF Translated, Direct
      <4>2. table.cols \cup {e.arg} \in SUBSET AllowedColumns
        BY <2>1, <4>1
      <4> HIDE DEF own
      <4>3. Resized(table, table.cols \cup {e.arg}) \in LocalTables(V)
        BY <2>1, <4>2, ResizedType
      <4> QED BY <4>1, <4>3 DEF Added
    <3>3. CASE Direct(e, cur) /\ e.kind = "dropColumn"
      <4>1. own = Dropped(table, e.arg)
        BY <3>3 DEF Translated, Direct
      <4>2. table.cols \ {e.arg} \in SUBSET AllowedColumns
        BY <2>1
      <4> HIDE DEF own
      <4>3. Resized(table, table.cols \ {e.arg}) \in LocalTables(V)
        BY <2>1, <4>2, ResizedType
      <4> QED BY <4>1, <4>3 DEF Dropped
    <3>4. CASE Direct(e, cur) /\ e.kind = "renameColumn"
      <4>1. own = Renamed(table, e.arg[1], e.arg[2]) /\ e.arg[2] \in AllowedColumns
        BY <3>4, <2>2 DEF Translated, Direct
      <4> HIDE DEF own
      <4> QED BY <2>1, <4>1, RenamedType
    <3> QED BY <3>1, <3>2, <3>3, <3>4 DEF Direct
  <2> HIDE DEF own
  <2>4. own # None => own \in LocalTables(V) /\ own.cols \cup (ToSet(e.new) \ table.cols) \in SUBSET AllowedColumns
    BY <2>2, <2>3, LocalFields
  <2>5. own # None => Resized(own, own.cols \cup (ToSet(e.new) \ table.cols)) \in LocalTables(V)
    BY <2>4, ResizedType
  <2>6. Altered(e, table, cur) = IF own = None THEN None
                                 ELSE Resized(own, own.cols \cup (ToSet(e.new) \ table.cols))
    BY <1>2 DEF Altered, own
  <2> QED BY <2>5, <2>6
<1> QED BY <1>1, <1>2

-----------------------------------------------------------------------------
\* The shape of the state, for the values V the rows that are sent, pending and
\* stored may hold.

Arguments == Columns \cup (Columns \X Columns) \cup {None}

OneTable == {<<t>> : t \in Tables}

LogEntries ==
  [kind : {"row"}, tables : OneTable, arg : Seq(Value)]
    \cup [kind : Alters \cup {"create", "truncate"}, tables : OneTable, arg : Arguments]
    \cup [kind : {"drop"}, tables : Seq(Tables), arg : Arguments]
    \cup [kind : {"rename"}, tables : OneTable, arg : Tables]

RowEvents(V, n) == [op : {"row"}, table : AllowedTables, row : Seq(V), cp : 1 .. n]

SchemaEvents == [op : {"schema"}, table : AllowedTables, cols : Projected]

AlterEvents(n) ==
  [op : {"ddl"}, kind : Alters, table : AllowedTables, arg : Arguments, new : Projected, cp : 1 .. n]

DropEvents(n) ==
  [op : {"ddl"}, kind : {"drop", "truncate"}, table : AllowedTables, arg : Arguments, new : {None},
   cp : 1 .. n]

RenameEvents(n) ==
  [op : {"ddl"}, kind : {"rename"}, table : Tables, arg : AllowedTables, new : Projected, cp : 1 .. n]

Events(V, n) ==
  RowEvents(V, n) \cup SchemaEvents \cup AlterEvents(n) \cup DropEvents(n) \cup RenameEvents(n)

MySqlTyped ==
  /\ log \in Seq(LogEntries) /\ Len(log) <= MaxEvents
  /\ hist \in Seq([Tables -> Table \cup {None}]) /\ Len(hist) = Len(log) + 1
  /\ \A t \in Tables : MySql[t] # None => Len(MySql[t].row) \in {0, Len(MySql[t].cols)}

ReaderTyped ==
  /\ reader \in {"connecting", "streaming", "stopped"}
  /\ startCp \in 0 .. Len(log) /\ pos \in 0 .. Len(log)
  /\ schemas \in [Tables -> Seq(Columns) \cup {None}]

ChannelTyped(V) == chan \in Seq(Events(V, Len(log)))

StoreTyped(V) ==
  /\ store \in [Tables -> LocalTables(V) \cup {None}]
  /\ \A t \in Tables \ AllowedTables : store[t] = None
  /\ layouts \in [Tables -> Projected \cup {None}]
  /\ \A t \in Tables : layouts[t] # None => store[t] # None

WindowTyped(V) ==
  /\ window \in [Tables -> Seq(V) \cup {None}]
  /\ winCp = 0 <=> window = EmptyWindow

WriterTyped ==
  /\ writer \in {"running", "halted"}
  /\ ckpt \in 0 .. Len(log) /\ winCp \in 0 .. Len(log) /\ ddlCp \in 0 .. Len(log)
  /\ refused \in BOOLEAN /\ faults \in 0 .. MaxFaults

\* Tables a schema was not applied to; some have columns their layout does not know of.
DamageTyped ==
  damaged \subseteq Tables /\ stale \subseteq {t \in damaged : layouts[t] # None}

Shape(V) ==
  /\ MySqlTyped /\ ReaderTyped /\ ChannelTyped(V) /\ StoreTyped(V) /\ WindowTyped(V) /\ WriterTyped
  /\ DamageTyped

LEMMA EventsGrow ==
  ASSUME NEW V, NEW n \in Nat, NEW m \in Nat, n <= m
  PROVE  Events(V, n) \subseteq Events(V, m)
<1>1. 1 .. n \subseteq 1 .. m
  OBVIOUS
<1>2. RowEvents(V, n) \subseteq RowEvents(V, m)
  BY <1>1 DEF RowEvents
<1>3. AlterEvents(n) \subseteq AlterEvents(m)
  BY <1>1 DEF AlterEvents
<1>4. DropEvents(n) \subseteq DropEvents(m)
  BY <1>1 DEF DropEvents
<1>5. RenameEvents(n) \subseteq RenameEvents(m)
  BY <1>1 DEF RenameEvents
<1> QED BY <1>2, <1>3, <1>4, <1>5 DEF Events

LEMMA SmallNumbers == MaxEvents \in Nat /\ MaxFaults \in Nat
BY SchemaAssumption

\* What is known of the last state of MySQL's tables.
LEMMA MySqlTables ==
  ASSUME MySqlTyped
  PROVE  /\ Len(log) \in Nat /\ MySql \in [Tables -> Table \cup {None}]
         /\ \A t \in Tables : MySql[t] # None =>
              /\ MySql[t].cols \in Seq(Columns) /\ MySql[t].row \in Seq(Value)
              /\ MySql[t] = [cols |-> MySql[t].cols, row |-> MySql[t].row]
<1>1. Len(log) \in Nat /\ Len(hist) \in DOMAIN hist
  BY DEF MySqlTyped
<1>2. MySql \in [Tables -> Table \cup {None}]
  BY <1>1 DEF MySqlTyped, MySql
<1>3. ASSUME NEW t \in Tables, MySql[t] # None
      PROVE  MySql[t] \in Table
  BY <1>2, <1>3
<1> QED BY <1>1, <1>2, <1>3 DEF Table

\* A table of MySQL that fits the type.
LEMMA TableBuilt ==
  ASSUME NEW cols \in Seq(Columns), NEW row \in Seq(Value), Len(row) \in {0, Len(cols)}
  PROVE  LET table == [cols |-> cols, row |-> row]
         IN  /\ table \in Table /\ table # None
             /\ Len(table.row) \in {0, Len(table.cols)}
BY SchemaAssumption DEF Table

-----------------------------------------------------------------------------
\* MySQL's steps.

\* One more event, and the tables behind it.
LEMMA LoggedTyped ==
  ASSUME MySqlTyped, NEW event \in LogEntries, NEW db \in [Tables -> Table \cup {None}],
         \A t \in Tables : db[t] # None => Len(db[t].row) \in {0, Len(db[t].cols)},
         Logged(event, db)
  PROVE  MySqlTyped' /\ Len(log') = Len(log) + 1
<1>1. /\ log' = Append(log, event) /\ hist' = Append(hist, db) /\ Len(log) < MaxEvents
      /\ log \in Seq(LogEntries) /\ hist \in Seq([Tables -> Table \cup {None}])
      /\ Len(hist) = Len(log) + 1 /\ Len(log) \in Nat
  BY DEF Logged, MySqlTyped
<1>2. log' \in Seq(LogEntries) /\ Len(log') = Len(log) + 1
  BY <1>1
<1>3. hist' \in Seq([Tables -> Table \cup {None}]) /\ Len(hist') = Len(hist) + 1
  BY <1>1
<1>4. MySql' = db
  BY <1>1, <1>3 DEF MySql
<1>5. Len(log') <= MaxEvents
  BY <1>1, <1>2, SmallNumbers
<1> QED BY <1>1, <1>2, <1>3, <1>4, <1>5 DEF MySqlTyped

\* What event n of the log does to MySQL's tables.
Harmless == {"drop", "truncate", "other"}

Keeps(before, after, t) == after[t] = None \/ (before[t] # None /\ after[t].cols = before[t].cols)

Alike(before, after, S) == \A t \in Tables \ S : after[t] = before[t]

RowEffect(e, n, before, after) ==
  /\ before[e.tables[1]] # None
  /\ e.arg \in {NoRow, Written(before[e.tables[1]].cols, n)}
  /\ \A t \in Tables : Keeps(before, after, t) /\ (before[t] = None <=> after[t] = None)

Effect(e, n, before, after) ==
  /\ e.kind = "row" => RowEffect(e, n, before, after)
  /\ e.kind \in Harmless => \A t \in Tables : Keeps(before, after, t)
  /\ e.kind \in Alters \cup {"create"} =>
       after[e.tables[1]] # None /\ Alike(before, after, {e.tables[1]})
  /\ e.kind = "rename" => after[e.arg] # None /\ Alike(before, after, {e.tables[1], e.arg})

DdlTime(kind) ==
  Lag \/ (Pending(pos) = {} /\ (reader = "streaming" \/ Within({kind}, Replayable)))

Tabled(db) ==
  /\ db \in [Tables -> Table \cup {None}]
  /\ \A t \in Tables : db[t] # None => Len(db[t].row) \in {0, Len(db[t].cols)}

Executed(event, db) ==
  /\ event \in LogEntries /\ Tabled(db)
  /\ Logged(event, db)
  /\ Effect(event, Len(log) + 1, MySql, db)
  /\ event.kind = "row" \/ DdlTime(event.kind)

LEMMA MySqlTabled ==
  ASSUME MySqlTyped
  PROVE  Tabled(MySql)
BY MySqlTables DEF MySqlTyped, Tabled

\* One table is changed.
Changes(before, db, t, cols, row) == db = [before EXCEPT ![t] = [cols |-> cols, row |-> row]]

LEMMA TableChanged ==
  ASSUME NEW before, Tabled(before), NEW t \in Tables, NEW cols \in Seq(Columns),
         NEW row \in Seq(Value), Len(row) \in {0, Len(cols)},
         NEW db, Changes(before, db, t, cols, row)
  PROVE  /\ Tabled(db) /\ db[t] # None /\ db[t].cols = cols
         /\ Alike(before, db, {t})
<1> DEFINE table == [cols |-> cols, row |-> row]
<1>1. table \in Table /\ table # None /\ Len(table.row) \in {0, Len(table.cols)} /\ table.cols = cols
  BY TableBuilt
<1> HIDE DEF table
<1>2. db \in [Tables -> Table \cup {None}] /\ db[t] = table /\ \A u \in Tables \ {t} : db[u] = before[u]
  <2>1. db = [before EXCEPT ![t] = table]
    BY DEF table, Changes
  <2> QED BY <1>1, <2>1 DEF Tabled
<1>3. \A u \in Tables : db[u] # None => Len(db[u].row) \in {0, Len(db[u].cols)}
  BY <1>1, <1>2 DEF Tabled
<1> QED BY <1>1, <1>2, <1>3 DEF Tabled, Alike

LEMMA AlikeKeeps ==
  ASSUME NEW before, NEW after, NEW t \in Tables, Alike(before, after, {t}),
         before[t] # None, after[t] # None, after[t].cols = before[t].cols
  PROVE  \A u \in Tables : Keeps(before, after, u) /\ (before[u] = None <=> after[u] = None)
BY DEF Alike, Keeps

LEMMA OneTableEntry ==
  ASSUME NEW t \in Tables, NEW kind \in Kinds, NEW arg,
         \/ kind \in Kinds \ {"rename"} /\ arg \in Arguments
         \/ kind = "rename" /\ arg \in Tables
  PROVE  /\ [kind |-> kind, tables |-> <<t>>, arg |-> arg] \in LogEntries
         /\ <<t>>[1] = t
<1>1. <<t>> \in OneTable /\ <<t>>[1] = t /\ <<t>> \in Seq(Tables)
  BY DEF OneTable
<1>2. kind \in Alters \cup {"create", "truncate", "drop", "rename"}
  BY DEF Kinds
<1> QED BY <1>1, <1>2 DEF LogEntries

LEMMA WriteRowLogs ==
  ASSUME MySqlTyped, NEW t \in Tables, WriteRow(t)
  PROVE  \E event, db : Executed(event, db)
<1> DEFINE n == Len(log) + 1
<1>1. PICK row \in {NoRow, Written(MySql[t].cols, n)} :
        Logged([kind |-> "row", tables |-> <<t>>, arg |-> row], [MySql EXCEPT ![t].row = row])
  BY DEF WriteRow
<1>2. /\ MySql[t] # None /\ MySql[t].cols \in Seq(Columns) /\ Tabled(MySql)
      /\ MySql[t] = [cols |-> MySql[t].cols, row |-> MySql[t].row]
      /\ MySql \in [Tables -> Table \cup {None}]
  BY MySqlTables, MySqlTabled DEF WriteRow
<1>3. n \in 0 .. MaxEvents
  BY <1>1, MySqlTables, SmallNumbers DEF Logged
<1>4. row \in Seq(Value) /\ Len(row) \in {0, Len(MySql[t].cols)}
  <2>1. Written(MySql[t].cols, n) \in Seq(Value) /\ Len(Written(MySql[t].cols, n)) = Len(MySql[t].cols)
    BY <1>2, <1>3, WrittenIsClean
  <2>2. NoRow \in Seq(Value) /\ Len(NoRow) = 0
    BY DEF NoRow
  <2> QED BY <1>1, <2>1, <2>2
<1> DEFINE event == [kind |-> "row", tables |-> <<t>>, arg |-> row]
           db == [MySql EXCEPT ![t] = [cols |-> MySql[t].cols, row |-> row]]
<1>5. [MySql EXCEPT ![t].row = row] = db
  <2>1. [MySql[t] EXCEPT !.row = row] = [cols |-> MySql[t].cols, row |-> row]
    BY <1>2
  <2>2. [MySql EXCEPT ![t].row = row] = [MySql EXCEPT ![t] = [MySql[t] EXCEPT !.row = row]]
    OBVIOUS
  <2> HIDE DEF event
  <2> QED BY <2>1, <2>2, Zenon
<1>db. Changes(MySql, db, t, MySql[t].cols, row)
  BY DEF Changes
<1>my. Tabled(MySql)
  BY MySqlTabled
<1> HIDE DEF db
<1>6. Tabled(db) /\ db[t] # None /\ db[t].cols = MySql[t].cols /\ Alike(MySql, db, {t})
  BY <1>2, <1>4, <1>db, TableChanged
<1>7. event \in LogEntries /\ event.kind = "row" /\ event.tables[1] = t /\ event.arg = row
  BY <1>4 DEF LogEntries, OneTable
<1>8. Logged(event, db)
  BY <1>1, <1>5
<1> HIDE DEF event
<1>9. RowEffect(event, n, MySql, db)
  BY <1>1, <1>2, <1>6, <1>7, AlikeKeeps DEF RowEffect
<1>10. Effect(event, n, MySql, db)
  BY <1>7, <1>9 DEF Effect, Harmless, Alters
<1> QED BY <1>6, <1>7, <1>8, <1>10 DEF Executed

LEMMA CreateLogs ==
  ASSUME MySqlTyped, NEW t \in Tables, NEW cols \in Shapes, CreateTable(t, cols)
  PROVE  \E event, db : Executed(event, db)
<1> DEFINE event == [kind |-> "create", tables |-> <<t>>, arg |-> None]
           db == [MySql EXCEPT ![t] = [cols |-> cols, row |-> NoRow]]
<1>1. Logged(event, db) /\ DdlTime("create")
  BY DEF CreateTable, Ddl, DdlTime
<1>2. cols \in Seq(Columns) /\ NoRow \in Seq(Value) /\ Len(NoRow) = 0
  BY SchemaAssumption DEF NoRow, TableColumns
<1>3. event \in LogEntries /\ event.kind = "create" /\ event.tables[1] = t
  BY OneTableEntry DEF Kinds, Arguments
<1>db. Changes(MySql, db, t, cols, NoRow)
  BY DEF Changes
<1>my. Tabled(MySql)
  BY MySqlTabled
<1> HIDE DEF event, db
<1>4. Tabled(db) /\ db[t] # None /\ db[t].cols = cols /\ Alike(MySql, db, {t})
  BY <1>2, <1>db, <1>my, TableChanged
<1>5. Effect(event, Len(log) + 1, MySql, db)
  BY <1>3, <1>4 DEF Effect, Harmless
<1> QED BY <1>1, <1>3, <1>4, <1>5 DEF Executed

LEMMA DropLogs ==
  ASSUME MySqlTyped, NEW tables \in Drops, DropTables(tables)
  PROVE  \E event, db : Executed(event, db)
<1> DEFINE event == [kind |-> "drop", tables |-> tables, arg |-> None]
           db == [t \in Tables |-> IF t \in ToSet(tables) THEN None ELSE MySql[t]]
<1>1. Logged(event, db) /\ DdlTime("drop")
  BY DEF DropTables, Ddl, DdlTime
<1>2. Tabled(db) /\ \A t \in Tables : Keeps(MySql, db, t)
  BY MySqlTabled DEF Tabled, Keeps
<1>3. event \in LogEntries /\ event.kind = "drop"
  BY SchemaAssumption DEF LogEntries, Arguments
<1> HIDE DEF event, db
<1>4. Effect(event, Len(log) + 1, MySql, db)
  BY <1>2, <1>3 DEF Effect, Alters
<1> QED BY <1>1, <1>2, <1>3, <1>4 DEF Executed

LEMMA TruncateLogs ==
  ASSUME MySqlTyped, NEW t \in Tables, TruncateTable(t)
  PROVE  \E event, db : Executed(event, db)
<1> DEFINE event == [kind |-> "truncate", tables |-> <<t>>, arg |-> None]
           db == [MySql EXCEPT ![t] = [cols |-> MySql[t].cols, row |-> NoRow]]
<1>1. /\ MySql[t] # None /\ MySql[t].cols \in Seq(Columns) /\ Tabled(MySql)
      /\ MySql[t] = [cols |-> MySql[t].cols, row |-> MySql[t].row]
      /\ MySql \in [Tables -> Table \cup {None}]
  BY MySqlTables, MySqlTabled DEF TruncateTable
<1>2. [MySql EXCEPT ![t].row = NoRow] = db
  <2>1. [MySql[t] EXCEPT !.row = NoRow] = [cols |-> MySql[t].cols, row |-> NoRow]
    BY <1>1
  <2>2. [MySql EXCEPT ![t].row = NoRow] = [MySql EXCEPT ![t] = [MySql[t] EXCEPT !.row = NoRow]]
    OBVIOUS
  <2> HIDE DEF event
  <2> QED BY <2>1, <2>2, Zenon
<1>3. Logged(event, db) /\ DdlTime("truncate")
  BY <1>2 DEF TruncateTable, Ddl, DdlTime
<1>4. NoRow \in Seq(Value) /\ Len(NoRow) = 0
  BY DEF NoRow
<1>db. Changes(MySql, db, t, MySql[t].cols, NoRow)
  BY DEF Changes
<1>my. Tabled(MySql)
  BY MySqlTabled
<1>6. event \in LogEntries /\ event.kind = "truncate"
  BY OneTableEntry DEF Kinds, Arguments
<1> HIDE DEF event, db
<1>5. Tabled(db) /\ db[t] # None /\ db[t].cols = MySql[t].cols /\ Alike(MySql, db, {t})
  BY <1>1, <1>4, <1>db, TableChanged
<1>7. Effect(event, Len(log) + 1, MySql, db)
  BY <1>1, <1>5, <1>6, AlikeKeeps DEF Effect, Alters
<1> QED BY <1>3, <1>5, <1>6, <1>7 DEF Executed

LEMMA RenameLogs ==
  ASSUME MySqlTyped, NEW from \in Tables, NEW to \in Tables, RenameTable(from, to)
  PROVE  \E event, db : Executed(event, db)
<1> DEFINE event == [kind |-> "rename", tables |-> <<from>>, arg |-> to]
           db == [MySql EXCEPT ![from] = None, ![to] = MySql[from]]
<1>1. Logged(event, db) /\ DdlTime("rename") /\ MySql[from] # None
  BY DEF RenameTable, Ddl, DdlTime
<1>2. Tabled(db) /\ db[to] # None /\ Alike(MySql, db, {from, to})
  BY <1>1, MySqlTabled DEF Tabled, Alike
<1>3. event \in LogEntries /\ event.kind = "rename" /\ event.tables[1] = from /\ event.arg = to
  BY OneTableEntry DEF Kinds
<1> HIDE DEF event, db
<1>4. Effect(event, Len(log) + 1, MySql, db)
  BY <1>2, <1>3 DEF Effect, Alters, Harmless
<1> QED BY <1>1, <1>2, <1>3, <1>4 DEF Executed

\* An ALTER changes one table.
LEMMA AlterLogs ==
  ASSUME MySqlTyped, NEW t \in Tables, NEW kind \in Alters, NEW arg \in Arguments, NEW db,
         Tabled(db), db[t] # None, Alike(MySql, db, {t}),
         kind = "other" => MySql[t] # None /\ db[t].cols = MySql[t].cols,
         Ddl(kind, <<t>>, arg, db)
  PROVE  \E event, d : Executed(event, d)
<1> DEFINE event == [kind |-> kind, tables |-> <<t>>, arg |-> arg]
<1>1. Logged(event, db) /\ DdlTime(kind)
  BY DEF Ddl, DdlTime
<1>2. event \in LogEntries /\ event.kind = kind /\ event.tables[1] = t
  BY OneTableEntry DEF Kinds, Alters
<1> HIDE DEF event
<1>3. kind = "other" => \A u \in Tables : Keeps(MySql, db, u)
  BY AlikeKeeps
<1>4. Effect(event, Len(log) + 1, MySql, db)
  BY <1>2, <1>3 DEF Effect, Alters, Harmless
<1> QED BY <1>1, <1>2, <1>4 DEF Executed

LEMMA AddColumnLogs ==
  ASSUME MySqlTyped, NEW t \in Tables, NEW c \in Columns, NEW i, AddColumn(t, c, i)
  PROVE  \E event, db : Executed(event, db)
<1>1. PICK value \in {Null} \cup (IF Backfills THEN {<<c, Len(log) + 1>>} ELSE {}) :
        Ddl("addColumn", <<t>>, c,
            [MySql EXCEPT ![t] = [cols |-> InsertAt(@.cols, i, c),
                                  row |-> IF @.row = NoRow THEN NoRow ELSE InsertAt(@.row, i, value)]])
  BY DEF AddColumn
<1>2. Len(log) < MaxEvents /\ Len(log) \in Nat
  BY <1>1, MySqlTables DEF Ddl, Logged
<1>3. value \in Value
  BY <1>2, SmallNumbers DEF Value
<1> DEFINE m == MySql[t]
           cols == InsertAt(m.cols, i, c)
           row == IF m.row = NoRow THEN NoRow ELSE InsertAt(m.row, i, value)
           db == [MySql EXCEPT ![t] = [cols |-> cols, row |-> row]]
<1>4. m.cols \in Seq(Columns) /\ m.row \in Seq(Value) /\ Len(m.row) \in {0, Len(m.cols)}
      /\ i \in 1 .. Len(m.cols) + 1
  BY MySqlTables DEF AddColumn, MySqlTyped
<1>5. Ddl("addColumn", <<t>>, c, db)
  BY <1>1
<1> HIDE DEF m
<1>6. cols \in Seq(Columns) /\ Len(cols) = Len(m.cols) + 1
  BY <1>4, InsertAtElements
<1>7. row \in Seq(Value) /\ Len(row) \in {0, Len(cols)}
  <2>1. CASE m.row = NoRow
    BY <2>1 DEF NoRow
  <2>2. CASE m.row # NoRow
    <3>1. Len(m.row) = Len(m.cols)
      BY <2>2, <1>4 DEF NoRow
    <3>2. InsertAt(m.row, i, value) \in Seq(Value) /\ Len(InsertAt(m.row, i, value)) = Len(m.row) + 1
      BY <1>3, <1>4, <3>1, InsertAtElements
    <3> QED BY <3>1, <3>2, <2>2, <1>6
  <2> QED BY <2>1, <2>2
<1> HIDE DEF cols, row
<1>db. Changes(MySql, db, t, cols, row)
  BY DEF Changes
<1>my. Tabled(MySql)
  BY MySqlTabled
<1> HIDE DEF db
<1>8. Tabled(db) /\ db[t] # None /\ db[t].cols = cols /\ Alike(MySql, db, {t})
  BY <1>6, <1>7, <1>db, <1>my, TableChanged
<1> QED BY <1>5, <1>8, AlterLogs DEF Alters, Arguments

LEMMA DropColumnLogs ==
  ASSUME MySqlTyped, NEW t \in Tables, NEW i, DropColumn(t, i)
  PROVE  \E event, db : Executed(event, db)
<1> DEFINE m == MySql[t]
           cols == RemoveAt(m.cols, i)
           row == IF m.row = NoRow THEN NoRow ELSE RemoveAt(m.row, i)
           db == [MySql EXCEPT ![t] = [cols |-> cols, row |-> row]]
<1>1. m.cols \in Seq(Columns) /\ m.row \in Seq(Value) /\ Len(m.row) \in {0, Len(m.cols)}
      /\ i \in 1 .. Len(m.cols)
  <2>1. MySql[t] # None /\ i \in DOMAIN MySql[t].cols
    BY DEF DropColumn
  <2>2. /\ MySql[t].cols \in Seq(Columns) /\ MySql[t].row \in Seq(Value)
        /\ Len(MySql[t].row) \in {0, Len(MySql[t].cols)}
    BY <2>1, MySqlTables DEF MySqlTyped
  <2> HIDE DEF m
  <2>3. m = MySql[t]
    BY DEF m
  <2> QED BY <2>1, <2>2, <2>3
<1>2. Ddl("dropColumn", <<t>>, m.cols[i], db) /\ m.cols[i] \in Columns
  <2>1. db = [MySql EXCEPT ![t] = [cols |-> RemoveAt(@.cols, i),
                                   row |-> IF @.row = NoRow THEN NoRow ELSE RemoveAt(@.row, i)]]
    OBVIOUS
  <2>2. Ddl("dropColumn", <<t>>, MySql[t].cols[i],
            [MySql EXCEPT ![t] = [cols |-> RemoveAt(@.cols, i),
                                  row |-> IF @.row = NoRow THEN NoRow ELSE RemoveAt(@.row, i)]])
    BY Zenon DEF DropColumn
  <2>3. m.cols[i] \in Columns
    BY <1>1
  <2>4. m.cols = MySql[t].cols
    OBVIOUS
  <2> HIDE DEF db, m
  <2> QED BY <2>1, <2>2, <2>3, <2>4
<1> HIDE DEF m
<1>3. cols \in Seq(Columns) /\ Len(cols) = Len(m.cols) - 1
  BY <1>1, RemoveAtElements
<1>4. row \in Seq(Value) /\ Len(row) \in {0, Len(cols)}
  <2>1. CASE m.row = NoRow
    BY <2>1 DEF NoRow
  <2>2. CASE m.row # NoRow
    <3>1. Len(m.row) = Len(m.cols)
      BY <2>2, <1>1 DEF NoRow
    <3>2. RemoveAt(m.row, i) \in Seq(Value) /\ Len(RemoveAt(m.row, i)) = Len(m.row) - 1
      BY <1>1, <3>1, RemoveAtElements
    <3> QED BY <3>1, <3>2, <2>2, <1>3
  <2> QED BY <2>1, <2>2
<1> HIDE DEF cols, row
<1>db. Changes(MySql, db, t, cols, row)
  BY DEF Changes
<1>my. Tabled(MySql)
  BY MySqlTabled
<1> HIDE DEF db
<1>5. Tabled(db) /\ db[t] # None /\ db[t].cols = cols /\ Alike(MySql, db, {t})
  BY <1>3, <1>4, <1>db, <1>my, TableChanged
<1> QED BY <1>2, <1>5, AlterLogs DEF Alters, Arguments

LEMMA RenameColumnLogs ==
  ASSUME MySqlTyped, NEW t \in Tables, NEW i, NEW new \in Columns, RenameColumn(t, i, new)
  PROVE  \E event, db : Executed(event, db)
<1> DEFINE m == MySql[t]
           cols == [m.cols EXCEPT ![i] = new]
           db == [MySql EXCEPT ![t] = [cols |-> cols, row |-> m.row]]
<1>1. m.cols \in Seq(Columns) /\ m.row \in Seq(Value) /\ Len(m.row) \in {0, Len(m.cols)}
      /\ i \in 1 .. Len(m.cols) /\ m = [cols |-> m.cols, row |-> m.row]
      /\ MySql \in [Tables -> Table \cup {None}]
  BY MySqlTables DEF RenameColumn, MySqlTyped
<1>2. [MySql EXCEPT ![t].cols[i] = new] = db
  <2>1. [MySql EXCEPT ![t].cols[i] = new] = [MySql EXCEPT ![t].cols = cols]
    BY <1>1
  <2> HIDE DEF cols
  <2>2. [MySql[t] EXCEPT !.cols = cols] = [cols |-> cols, row |-> m.row]
    BY <1>1
  <2>3. [MySql EXCEPT ![t].cols = cols] = [MySql EXCEPT ![t] = [MySql[t] EXCEPT !.cols = cols]]
    OBVIOUS
  <2> QED BY <2>1, <2>2, <2>3, Zenon
<1>3. Ddl("renameColumn", <<t>>, <<m.cols[i], new>>, db) /\ <<m.cols[i], new>> \in Arguments
  BY <1>1, <1>2 DEF RenameColumn, Arguments
<1> HIDE DEF m
<1>4. cols \in Seq(Columns) /\ Len(cols) = Len(m.cols)
  BY <1>1
<1> HIDE DEF cols
<1>db. Changes(MySql, db, t, cols, m.row)
  BY DEF Changes
<1>my. Tabled(MySql)
  BY MySqlTabled
<1> HIDE DEF db
<1>5. Tabled(db) /\ db[t] # None /\ db[t].cols = cols /\ Alike(MySql, db, {t})
  BY <1>1, <1>4, <1>db, <1>my, TableChanged
<1> QED BY <1>3, <1>5, AlterLogs DEF Alters

LEMMA OtherLogs ==
  ASSUME MySqlTyped, NEW t \in Tables, AlterOther(t)
  PROVE  \E event, db : Executed(event, db)
<1>1. Ddl("other", <<t>>, None, MySql) /\ MySql[t] # None
  BY DEF AlterOther
<1>2. Tabled(MySql) /\ Alike(MySql, MySql, {t})
  BY MySqlTabled DEF Alike
<1> QED BY <1>1, <1>2, AlterLogs DEF Alters, Arguments

LEMMA ExecuteLogs ==
  ASSUME MySqlTyped, Execute
  PROVE  \E event, db : Executed(event, db)
<1>1. CASE \E t \in Tables : WriteRow(t) \/ TruncateTable(t) \/ AlterOther(t)
  BY <1>1, WriteRowLogs, TruncateLogs, OtherLogs
<1>2. CASE \E t \in Tables, cols \in Shapes : CreateTable(t, cols)
  BY <1>2, CreateLogs
<1>3. CASE \E t \in Tables, c \in Columns, i \in 1 .. Cardinality(Columns) :
             AddColumn(t, c, i) \/ DropColumn(t, i) \/ RenameColumn(t, i, c)
  BY <1>3, AddColumnLogs, DropColumnLogs, RenameColumnLogs
<1>4. CASE \E tables \in Drops : DropTables(tables)
  BY <1>4, DropLogs
<1>5. CASE \E names \in TableRenames : RenameTable(names[1], names[2])
  <2>1. PICK names \in TableRenames : RenameTable(names[1], names[2])
    BY <1>5
  <2>2. names[1] \in Tables /\ names[2] \in Tables
    BY SchemaAssumption
  <2> QED BY <2>1, <2>2, RenameLogs
<1> QED BY <1>1, <1>2, <1>3, <1>4, <1>5 DEF Execute

LEMMA ExecuteShape ==
  ASSUME NEW V, Shape(V), Execute
  PROVE  Shape(V)'
<1>1. PICK event, db : Executed(event, db)
  BY ExecuteLogs DEF Shape
<1>2. MySqlTyped' /\ Len(log') = Len(log) + 1
  BY <1>1, LoggedTyped DEF Shape, Executed, Tabled
<1>3. UNCHANGED <<storeVars, readerVars, chan, writerVars, refused, damaged, faults>>
  BY <1>1 DEF Executed, Logged
<1>4. Len(log) \in Nat /\ 0 .. Len(log) \subseteq 0 .. Len(log')
  BY <1>2 DEF Shape, MySqlTyped
<1>5. ReaderTyped'
  BY <1>3, <1>4 DEF Shape, ReaderTyped, readerVars
<1>6. ChannelTyped(V)'
  <2>1. Events(V, Len(log)) \subseteq Events(V, Len(log'))
    BY <1>2, <1>4, EventsGrow
  <2>2. chan \in Seq(Events(V, Len(log'))) /\ chan' = chan
    BY <1>3, <2>1, SeqWiden DEF Shape, ChannelTyped
  <2> QED BY <2>2 DEF ChannelTyped
<1>7. StoreTyped(V)'
  BY <1>3 DEF Shape, StoreTyped, storeVars, writerVars
<1>8. WindowTyped(V)'
  BY <1>3 DEF Shape, WindowTyped, writerVars, EmptyWindow
<1>9. WriterTyped'
  BY <1>3, <1>4 DEF Shape, WriterTyped, storeVars, writerVars
<1>10. DamageTyped'
  BY <1>3 DEF Shape, DamageTyped, writerVars
<1> QED BY <1>2, <1>5, <1>6, <1>7, <1>8, <1>9, <1>10 DEF Shape

-----------------------------------------------------------------------------
\* The reader's steps.

LEMMA EventFields ==
  ASSUME NEW e \in LogEntries
  PROVE  /\ e.kind \in Kinds \cup {"row"} /\ e.tables \in Seq(Tables)
         /\ e.kind # "drop" => e.tables[1] \in Tables
         /\ e.kind = "row" => e.arg \in Seq(Value)
         /\ e.kind = "rename" => e.arg \in Tables
         /\ e.kind \notin {"row", "rename"} => e.arg \in Arguments
<1>1. \A s \in OneTable : s \in Seq(Tables) /\ s[1] \in Tables
  <2>1. \A t \in Tables : <<t>> \in Seq(Tables) /\ <<t>>[1] = t
    OBVIOUS
  <2> QED BY <2>1 DEF OneTable
<1>2. CASE e \in [kind : {"row"}, tables : OneTable, arg : Seq(Value)]
  BY <1>1, <1>2
<1>3. CASE e \in [kind : Alters \cup {"create", "truncate"}, tables : OneTable, arg : Arguments]
  BY <1>1, <1>3 DEF Alters, Kinds
<1>4. CASE e \in [kind : {"drop"}, tables : Seq(Tables), arg : Arguments]
  BY <1>4 DEF Kinds
<1>5. CASE e \in [kind : {"rename"}, tables : OneTable, arg : Tables]
  BY <1>1, <1>5 DEF Kinds
<1> QED BY <1>2, <1>3, <1>4, <1>5 DEF LogEntries

\* The event a step reads.
LEMMA ReadingTyped ==
  ASSUME NEW V, Shape(V), NEW kinds, Reading(kinds)
  PROVE  /\ Event \in LogEntries /\ Event.kind \in kinds
         /\ Len(log) \in Nat /\ pos \in Nat /\ pos + 1 \in 1 .. Len(log)
<1>1. Len(log) \in Nat /\ pos \in Nat /\ pos + 1 \in 1 .. Len(log)
  BY DEF Shape, MySqlTyped, ReaderTyped, Reading
<1>2. log[pos + 1] \in LogEntries
  BY <1>1 DEF Shape, MySqlTyped
<1> QED BY <1>1, <1>2 DEF Event, Reading

LEMMA ReaderFrame ==
  ASSUME NEW V, Shape(V),
         UNCHANGED <<mysqlVars, storeVars, startCp, writerVars, refused, damaged>>,
         ReaderTyped', chan' \in Seq(Events(V, Len(log))), faults' \in 0 .. MaxFaults
  PROVE  Shape(V)'
<1>1. MySqlTyped'
  BY DEF Shape, MySqlTyped, MySql, mysqlVars
<1>2. ChannelTyped(V)'
  BY DEF ChannelTyped, mysqlVars
<1>3. StoreTyped(V)'
  BY DEF Shape, StoreTyped, storeVars, writerVars
<1>4. WindowTyped(V)'
  BY DEF Shape, WindowTyped, writerVars, EmptyWindow
<1>5. WriterTyped'
  BY DEF Shape, WriterTyped, mysqlVars, storeVars, writerVars
<1>6. DamageTyped'
  BY DEF Shape, DamageTyped, writerVars
<1> QED BY <1>1, <1>2, <1>3, <1>4, <1>5, <1>6 DEF Shape

LEMMA SendShape ==
  ASSUME NEW V, Shape(V), NEW kinds, Reading(kinds),
         NEW events \in Seq(Events(V, Len(log))), Send(events),
         schemas' \in [Tables -> Seq(Columns) \cup {None}]
  PROVE  Shape(V)'
<1>1. /\ UNCHANGED <<mysqlVars, storeVars, startCp, writerVars, refused, damaged, faults>>
      /\ pos' \in {pos, pos + 1} /\ reader' \in {reader, "stopped"}
      /\ chan' \in {chan, chan \o events}
  BY DEF Send
<1>2. pos' \in 0 .. Len(log)
  BY <1>1, ReadingTyped DEF Shape, ReaderTyped
<1>3. ReaderTyped'
  BY <1>1, <1>2 DEF Shape, ReaderTyped, mysqlVars
<1>4. chan' \in Seq(Events(V, Len(log)))
  <2>1. chan \in Seq(Events(V, Len(log)))
    BY DEF Shape, ChannelTyped
  <2>2. chan \o events \in Seq(Events(V, Len(log)))
    BY <2>1
  <2> QED BY <1>1, <2>1, <2>2
<1>5. faults' \in 0 .. MaxFaults /\ UNCHANGED <<mysqlVars, storeVars, startCp, writerVars, refused, damaged>>
  BY <1>1 DEF Shape, WriterTyped
<1> QED BY <1>3, <1>4, <1>5, ReaderFrame

LEMMA SilentShape ==
  ASSUME NEW V, Shape(V), NEW kinds, Reading(kinds), Send(<<>>),
         schemas' \in [Tables -> Seq(Columns) \cup {None}]
  PROVE  Shape(V)'
<1>1. <<>> \in Seq(Events(V, Len(log)))
  OBVIOUS
<1> QED BY <1>1, SendShape

LEMMA SchemaOfType ==
  ASSUME MySqlTyped, NEW t \in Tables
  PROVE  /\ SchemaOf(t) \in Seq(Columns) \cup {None}
         /\ SchemaOf(t) # None => ProjectSchema(SchemaOf(t)) \in Projected
BY MySqlTables, ProjectSchemaType DEF SchemaOf

\* The row that the reader makes of an event, when it sends it.
RowRead ==
  ProjectRow(schemas[Event.tables[1]], ParseRow(schemas[Event.tables[1]], Event.arg))

ReadsRow ==
  /\ Reading({"row"}) /\ TableAllowed(Event.tables[1]) /\ schemas[Event.tables[1]] # None
  /\ Event.arg # NoRow

LEMMA ReadRowShape ==
  ASSUME NEW V, ValueSet(V), Shape(V), ReadRow, ReadsRow => RowRead \in Seq(V)
  PROVE  Shape(V)'
<1> DEFINE t == Event.tables[1]
           row == IF Event.arg = NoRow THEN NoRow ELSE RowRead
           events == IF TableAllowed(t) /\ schemas[t] # None
                     THEN <<[op |-> "row", table |-> t, row |-> row, cp |-> pos + 1]>> ELSE <<>>
<1>1. Reading({"row"}) /\ Send(events) /\ UNCHANGED schemas
  BY DEF ReadRow, RowRead
<1>2. t \in Tables /\ pos + 1 \in 1 .. Len(log)
  BY <1>1, ReadingTyped, EventFields
<1>3. ASSUME TableAllowed(t), schemas[t] # None
      PROVE  [op |-> "row", table |-> t, row |-> row, cp |-> pos + 1] \in Events(V, Len(log))
  <2>1. row \in Seq(V)
    BY <1>1, <1>3 DEF ReadsRow, NoRow
  <2> HIDE DEF row, t
  <2> QED BY <1>2, <1>3, <2>1 DEF Events, RowEvents, AllowedTables
<1> HIDE DEF row, t
<1>4. events \in Seq(Events(V, Len(log)))
  BY <1>3
<1> HIDE DEF events
<1>5. schemas' \in [Tables -> Seq(Columns) \cup {None}]
  BY <1>1 DEF Shape, ReaderTyped
<1> QED BY <1>1, <1>4, <1>5, SendShape

LEMMA ReadAlterShape ==
  ASSUME NEW V, ValueSet(V), Shape(V), ReadAlter
  PROVE  Shape(V)'
<1> DEFINE t == Event.tables[1]
           event == DdlEvent(t, ProjectSchema(SchemaOf(t)))
<1>1. Reading(Alters)
  BY DEF ReadAlter
<1>2. t \in Tables /\ Event.kind \in Alters /\ Event.arg \in Arguments
  BY <1>1, ReadingTyped, EventFields DEF Alters
<1>3. CASE ~ TableAllowed(t)
  <2>1. Send(<<>>) /\ UNCHANGED schemas
    BY <1>3 DEF ReadAlter
  <2>2. schemas' \in [Tables -> Seq(Columns) \cup {None}]
    BY <2>1 DEF Shape, ReaderTyped
  <2> QED BY <1>1, <2>1, <2>2, SilentShape
<1>4. CASE TableAllowed(t) /\ SchemaOf(t) = None
  <2>1. /\ reader' = "connecting" /\ pos' = startCp
        /\ UNCHANGED <<mysqlVars, storeVars, startCp, schemas, chan, writerVars, refused, damaged, faults>>
    BY <1>4 DEF ReadAlter
  <2>2. ReaderTyped'
    BY <2>1 DEF Shape, ReaderTyped, mysqlVars
  <2> QED BY <2>1, <2>2, ReaderFrame DEF Shape, ChannelTyped, WriterTyped
<1>5. CASE TableAllowed(t) /\ SchemaOf(t) # None
  <2>1. schemas' = [schemas EXCEPT ![t] = SchemaOf(t)] /\ Send(<<event>>)
    BY <1>5 DEF ReadAlter
  <2>2. SchemaOf(t) \in Seq(Columns) /\ ProjectSchema(SchemaOf(t)) \in Projected
    BY <1>2, <1>5, SchemaOfType DEF Shape
  <2>3. schemas' \in [Tables -> Seq(Columns) \cup {None}]
    BY <2>1, <2>2 DEF Shape, ReaderTyped
  <2>4. event \in Events(V, Len(log))
    BY <1>1, <1>2, <1>5, <2>2, ReadingTyped DEF DdlEvent, Events, AlterEvents, AllowedTables
  <2> HIDE DEF event
  <2>5. <<event>> \in Seq(Events(V, Len(log)))
    BY <2>4
  <2> QED BY <1>1, <2>1, <2>3, <2>5, SendShape
<1> QED BY <1>3, <1>4, <1>5

LEMMA ReadCreateShape ==
  ASSUME NEW V, ValueSet(V), Shape(V), ReadCreate
  PROVE  Shape(V)'
<1> DEFINE t == Event.tables[1]
           event == [op |-> "schema", table |-> t, cols |-> ProjectSchema(SchemaOf(t))]
<1>1. Reading({"create"})
  BY DEF ReadCreate
<1>2. t \in Tables
  BY <1>1, ReadingTyped, EventFields
<1>3. CASE ~ (TableAllowed(t) /\ SchemaOf(t) # None)
  <2>1. Send(<<>>) /\ UNCHANGED schemas
    BY <1>3 DEF ReadCreate
  <2>2. schemas' \in [Tables -> Seq(Columns) \cup {None}]
    BY <2>1 DEF Shape, ReaderTyped
  <2> QED BY <1>1, <2>1, <2>2, SilentShape
<1>4. CASE TableAllowed(t) /\ SchemaOf(t) # None
  <2>1. schemas' = [schemas EXCEPT ![t] = SchemaOf(t)] /\ Send(<<event>>)
    BY <1>4 DEF ReadCreate
  <2>2. SchemaOf(t) \in Seq(Columns) /\ ProjectSchema(SchemaOf(t)) \in Projected
    BY <1>2, <1>4, SchemaOfType DEF Shape
  <2>3. schemas' \in [Tables -> Seq(Columns) \cup {None}]
    BY <2>1, <2>2 DEF Shape, ReaderTyped
  <2>4. event \in Events(V, Len(log))
    BY <1>2, <1>4, <2>2 DEF Events, SchemaEvents, AllowedTables
  <2> HIDE DEF event
  <2>5. <<event>> \in Seq(Events(V, Len(log)))
    BY <2>4
  <2> QED BY <1>1, <2>1, <2>3, <2>5, SendShape
<1> QED BY <1>3, <1>4

LEMMA ReadDropShape ==
  ASSUME NEW V, ValueSet(V), Shape(V), ReadDrop
  PROVE  Shape(V)'
<1> DEFINE kept == {i \in DOMAIN Event.tables : TableAllowed(Event.tables[i])}
           tables == Selected(Event.tables, kept)
           events == [i \in DOMAIN tables |-> DdlEvent(tables[i], None)]
<1>1. Reading({"drop", "truncate"}) /\ Send(events)
      /\ schemas' = [t \in Tables |->
           IF Event.kind = "drop" /\ t \in ToSet(tables) THEN None ELSE schemas[t]]
  BY DEF ReadDrop
<1>2. /\ Event.kind \in {"drop", "truncate"} /\ Event.arg \in Arguments
      /\ Event.tables \in Seq(Tables)
      /\ Len(log) \in Nat /\ pos + 1 \in 1 .. Len(log)
  BY <1>1, ReadingTyped, EventFields
<1>3. Len(Event.tables) \in Nat /\ kept \in SUBSET (1 .. Len(Event.tables))
      /\ \A i \in kept : Event.tables[i] \in AllowedTables
  BY <1>2 DEF AllowedTables
<1> HIDE DEF kept
<1>4. tables \in Seq(AllowedTables)
  BY <1>3, SelectedElements
<1> HIDE DEF tables
<1>5. \A t \in AllowedTables : DdlEvent(t, None) \in Events(V, Len(log))
  BY <1>2 DEF DdlEvent, Events, DropEvents
<1>6. events \in Seq(Events(V, Len(log)))
  <2>1. Len(tables) \in Nat /\ DOMAIN tables = 1 .. Len(tables)
        /\ \A i \in DOMAIN tables : tables[i] \in AllowedTables
    BY <1>4
  <2>2. events \in [1 .. Len(tables) -> Events(V, Len(log))]
    BY <2>1, <1>5
  <2> HIDE DEF events
  <2> QED BY <2>1, <2>2
<1>7. schemas' \in [Tables -> Seq(Columns) \cup {None}]
  BY <1>1 DEF Shape, ReaderTyped
<1> HIDE DEF events
<1> QED BY <1>1, <1>6, <1>7, SendShape

LEMMA ReadRenameShape ==
  ASSUME NEW V, ValueSet(V), Shape(V), ReadRename
  PROVE  Shape(V)'
<1> DEFINE from == Event.tables[1]
           to == Event.arg
           forgotten == [schemas EXCEPT ![from] = None]
           event == DdlEvent(from, ProjectSchema(SchemaOf(to)))
<1>1. Reading({"rename"})
  BY DEF ReadRename
<1>2. from \in Tables /\ to \in Tables /\ Event.kind = "rename" /\ pos + 1 \in 1 .. Len(log)
  BY <1>1, ReadingTyped, EventFields
<1>3. forgotten \in [Tables -> Seq(Columns) \cup {None}]
  BY DEF Shape, ReaderTyped
<1>4. CASE ~ (TableAllowed(to) /\ SchemaOf(to) # None)
  <2>1. Send(<<>>) /\ schemas' = forgotten
    BY <1>4 DEF ReadRename
  <2> QED BY <1>1, <1>3, <2>1, SilentShape
<1>5. CASE TableAllowed(to) /\ SchemaOf(to) # None
  <2>1. schemas' = [forgotten EXCEPT ![to] = SchemaOf(to)] /\ Send(<<event>>)
    BY <1>5 DEF ReadRename
  <2>2. SchemaOf(to) \in Seq(Columns) /\ ProjectSchema(SchemaOf(to)) \in Projected
    BY <1>2, <1>5, SchemaOfType DEF Shape
  <2> HIDE DEF forgotten
  <2>3. schemas' \in [Tables -> Seq(Columns) \cup {None}]
    BY <1>3, <2>1, <2>2
  <2>4. event \in Events(V, Len(log))
    BY <1>2, <1>5, <2>2 DEF DdlEvent, Events, RenameEvents, AllowedTables
  <2> HIDE DEF event
  <2>5. <<event>> \in Seq(Events(V, Len(log)))
    BY <2>4
  <2> QED BY <1>1, <2>1, <2>3, <2>5, SendShape
<1> QED BY <1>4, <1>5

LEMMA SyncShape ==
  ASSUME NEW V, Shape(V), Sync
  PROVE  Shape(V)'
<1> DEFINE now == [t \in Tables |-> IF TableAllowed(t) THEN SchemaOf(t) ELSE None]
           known == {t \in Tables : now[t] # None}
           event == [t \in known |-> [op |-> "schema", table |-> t, cols |-> ProjectSchema(now[t])]]
           events == {[op |-> "schema", table |-> t, cols |-> ProjectSchema(now[t])] : t \in known}
<1>1. /\ UNCHANGED <<mysqlVars, storeVars, startCp, pos, writerVars, refused, damaged, faults>>
      /\ \/ schemas' = now /\ chan' = chan \o SetToSeq(events) /\ reader' = "streaming"
         \/ reader' = "stopped" /\ UNCHANGED <<schemas, chan>>
  BY DEF Sync
<1>2. \A t \in Tables : now[t] \in Seq(Columns) \cup {None}
  BY SchemaOfType DEF Shape
<1>3. \A t \in known : t \in AllowedTables /\ ProjectSchema(now[t]) \in Projected
  BY SchemaOfType DEF Shape, AllowedTables
<1>4. now \in [Tables -> Seq(Columns) \cup {None}]
  BY <1>2
<1> HIDE DEF now
<1>5. IsFiniteSet(known)
  BY SchemaAssumption, FS_Subset
<1>6. event \in Surjection(known, events)
  BY DEF Surjection
<1>7. IsFiniteSet(events)
  BY <1>5, <1>6, FS_Surjection
<1>8. events \subseteq Events(V, Len(log))
  <2>1. events \subseteq SchemaEvents
    BY <1>3 DEF SchemaEvents
  <2> QED BY <2>1 DEF Events
<1> HIDE DEF known, event, events
<1>9. SetToSeq(events) \in Seq(Events(V, Len(log)))
  BY <1>7, <1>8, SetToSeqElements, SeqWiden
<1>10. chan' \in Seq(Events(V, Len(log)))
  <2>1. chan \in Seq(Events(V, Len(log)))
    BY DEF Shape, ChannelTyped
  <2>2. chan \o SetToSeq(events) \in Seq(Events(V, Len(log)))
    BY <1>9, <2>1
  <2> QED BY <1>1, <2>1, <2>2
<1>11. ReaderTyped'
  BY <1>1, <1>4 DEF Shape, ReaderTyped, mysqlVars
<1>12. faults' \in 0 .. MaxFaults /\ UNCHANGED <<mysqlVars, storeVars, startCp, writerVars, refused, damaged>>
  BY <1>1 DEF Shape, WriterTyped
<1> QED BY <1>10, <1>11, <1>12, ReaderFrame

LEMMA StreamErrorShape ==
  ASSUME NEW V, Shape(V), StreamError
  PROVE  Shape(V)'
<1>1. /\ UNCHANGED <<mysqlVars, storeVars, startCp, schemas, chan, writerVars, refused, damaged>>
      /\ faults < MaxFaults /\ faults' = faults + 1 /\ reader' = "connecting" /\ pos' = startCp
  BY DEF StreamError
<1>2. ReaderTyped'
  BY <1>1 DEF Shape, ReaderTyped, mysqlVars
<1>3. faults' \in 0 .. MaxFaults
  BY <1>1, SmallNumbers DEF Shape, WriterTyped
<1>4. chan' \in Seq(Events(V, Len(log)))
  BY <1>1 DEF Shape, ChannelTyped
<1> QED BY <1>1, <1>2, <1>3, <1>4, ReaderFrame

LEMMA RestartShape ==
  ASSUME NEW V, Shape(V), Restart
  PROVE  Shape(V)'
<1>1. /\ UNCHANGED <<mysqlVars, storeVars, refused, damaged>>
      /\ faults < MaxFaults /\ faults' = faults + 1
      /\ startCp' = ckpt /\ reader' = "connecting" /\ pos' = ckpt
      /\ schemas' = [t \in Tables |-> None] /\ chan' = <<>>
      /\ writer' = "running" /\ layouts' = [t \in Tables |-> None] /\ stale' = {}
      /\ window' = EmptyWindow /\ winCp' = 0 /\ ddlCp' = 0
  BY DEF Restart
<1>2. MySqlTyped'
  BY <1>1 DEF Shape, MySqlTyped, MySql, mysqlVars
<1>3. ReaderTyped'
  BY <1>1 DEF Shape, ReaderTyped, WriterTyped, mysqlVars
<1>4. ChannelTyped(V)'
  BY <1>1 DEF ChannelTyped
<1>5. StoreTyped(V)'
  BY <1>1 DEF Shape, StoreTyped, storeVars
<1>6. WindowTyped(V)'
  BY <1>1 DEF WindowTyped, EmptyWindow
<1>7. WriterTyped'
  <2>1. 0 \in 0 .. Len(log) /\ faults' \in 0 .. MaxFaults
    BY <1>1, SmallNumbers DEF Shape, WriterTyped, MySqlTyped
  <2> QED BY <1>1, <2>1 DEF Shape, WriterTyped, mysqlVars, storeVars
<1>8. DamageTyped'
  BY <1>1 DEF Shape, DamageTyped
<1> QED BY <1>2, <1>3, <1>4, <1>5, <1>6, <1>7, <1>8 DEF Shape

-----------------------------------------------------------------------------
\* The writer's steps.

LEMMA FlushedType ==
  ASSUME NEW V, ValueSet(V), Shape(V)
  PROVE  /\ Flushed \in [Tables -> LocalTables(V) \cup {None}]
         /\ \A t \in Tables : Flushed[t] = None <=> store[t] = None
         /\ FlushedCp \in 0 .. Len(log)
<1>1. ASSUME NEW t \in Tables, window[t] # None, layouts[t] # None
      PROVE  Flushed[t] \in LocalTables(V)
  <2>1. /\ store[t] \in LocalTables(V) /\ layouts[t] \in Projected
        /\ window[t] \in Seq(V)
    BY <1>1 DEF Shape, StoreTyped, WindowTyped
  <2>2. /\ store[t] = [cols |-> store[t].cols, row |-> store[t].row]
        /\ store[t].cols \in SUBSET AllowedColumns
    BY <2>1, LocalFields
  <2> DEFINE bound == Bound(store[t].cols, layouts[t], window[t])
             row == IF window[t] = NoRow THEN None ELSE bound
  <2>3. ByName(layouts[t], window[t]) \in [ToSet(layouts[t]) -> V]
    BY <2>1, NullIsValue, ByNameType DEF Projected
  <2>4. bound \in [store[t].cols -> V]
    BY <2>3, NullIsValue DEF Bound
  <2> HIDE DEF bound
  <2>5. row = None \/ row \in [store[t].cols -> V]
    BY <2>4
  <2>6. Flushed[t] = [store[t] EXCEPT !.row = row]
    BY <1>1 DEF Flushed, bound
  <2> HIDE DEF row
  <2>7. Flushed[t] = [cols |-> store[t].cols, row |-> row]
    BY <2>2, <2>6
  <2> QED BY <2>2, <2>5, <2>7, LocalBuilt
<1>2. ASSUME NEW t \in Tables, ~ (window[t] # None /\ layouts[t] # None)
      PROVE  Flushed[t] = store[t]
  BY <1>2 DEF Flushed
<1>3. \A t \in Tables : Flushed[t] \in LocalTables(V) \cup {None}
  BY <1>1, <1>2 DEF Shape, StoreTyped
<1>4. \A t \in Tables : Flushed[t] = None <=> store[t] = None
  BY <1>1, <1>2, LocalFields DEF Shape, StoreTyped
<1>5. FlushedCp \in 0 .. Len(log)
  BY DEF FlushedCp, Shape, WriterTyped
<1>6. Flushed \in [Tables -> LocalTables(V) \cup {None}]
  <2>1. Flushed = [t \in Tables |-> Flushed[t]]
    BY DEF Flushed
  <2> QED BY <1>3, <2>1
<1> QED BY <1>4, <1>5, <1>6

\* The event the writer takes.
LEMMA ReceivingTyped ==
  ASSUME NEW V, Shape(V), NEW op, Receiving(op)
  PROVE  /\ Head(chan) \in Events(V, Len(log)) /\ Head(chan).op = op
         /\ Tail(chan) \in Seq(Events(V, Len(log)))
<1>1. chan \in Seq(Events(V, Len(log))) /\ chan # <<>>
  BY DEF Shape, ChannelTyped, Receiving
<1> QED BY <1>1, TailElements DEF Receiving

LEMMA WriterFrame ==
  ASSUME NEW V, Shape(V), UNCHANGED <<mysqlVars, readerVars>>,
         chan' \in Seq(Events(V, Len(log))), StoreTyped(V)', WindowTyped(V)', WriterTyped',
         DamageTyped'
  PROVE  Shape(V)'
<1>1. MySqlTyped'
  BY DEF Shape, MySqlTyped, MySql, mysqlVars
<1>2. ReaderTyped'
  BY DEF Shape, ReaderTyped, mysqlVars, readerVars
<1>3. ChannelTyped(V)'
  BY DEF ChannelTyped, mysqlVars
<1> QED BY <1>1, <1>2, <1>3 DEF Shape

LEMMA EmptyWindowTyped ==
  ASSUME NEW V, window' = EmptyWindow, winCp' = 0
  PROVE  WindowTyped(V)'
BY DEF WindowTyped, EmptyWindow

LEMMA FlushBatchShape ==
  ASSUME NEW V, ValueSet(V), Shape(V), FlushBatch
  PROVE  Shape(V)'
<1>1. /\ store' = Flushed /\ ckpt' = FlushedCp /\ window' = EmptyWindow /\ winCp' = 0
      /\ UNCHANGED <<mysqlVars, readerVars, chan, writer, layouts, stale, ddlCp, refused, damaged,
                     faults>>
  BY DEF FlushBatch
<1>2. StoreTyped(V)'
  BY <1>1, FlushedType DEF Shape, StoreTyped
<1>3. WriterTyped'
  BY <1>1, FlushedType DEF Shape, WriterTyped, mysqlVars
<1>4. chan' \in Seq(Events(V, Len(log)))
  BY <1>1 DEF Shape, ChannelTyped
<1>5. DamageTyped'
  BY <1>1 DEF Shape, DamageTyped
<1> QED BY <1>1, <1>2, <1>3, <1>4, <1>5, EmptyWindowTyped, WriterFrame

LEMMA FlushFailsShape ==
  ASSUME NEW V, Shape(V), FlushFails
  PROVE  Shape(V)'
<1>1. /\ UNCHANGED <<mysqlVars, storeVars, readerVars, chan, layouts, stale, window, winCp, ddlCp,
                     refused, damaged>>
      /\ faults' = faults \/ (faults < MaxFaults /\ faults' = faults + 1)
      /\ writer' = "halted"
  BY DEF FlushFails
<1>2. StoreTyped(V)' /\ WindowTyped(V)'
  BY <1>1 DEF Shape, StoreTyped, WindowTyped, EmptyWindow, storeVars
<1>3. WriterTyped'
  BY <1>1, SmallNumbers DEF Shape, WriterTyped, mysqlVars, storeVars
<1>4. chan' \in Seq(Events(V, Len(log)))
  BY <1>1 DEF Shape, ChannelTyped
<1>5. DamageTyped'
  BY <1>1 DEF Shape, DamageTyped
<1> QED BY <1>1, <1>2, <1>3, <1>4, <1>5, WriterFrame

LEMMA ReceiveRowShape ==
  ASSUME NEW V, ValueSet(V), Shape(V), ReceiveRow
  PROVE  Shape(V)'
<1> DEFINE e == Head(chan)
<1>1. /\ Receiving("row")
      /\ window' = [window EXCEPT ![e.table] = e.row] /\ winCp' = e.cp /\ chan' = Tail(chan)
      /\ UNCHANGED <<mysqlVars, storeVars, readerVars, writer, layouts, stale, ddlCp, refused,
                     damaged, faults>>
  BY DEF ReceiveRow
<1>2. e \in RowEvents(V, Len(log)) /\ Tail(chan) \in Seq(Events(V, Len(log)))
  BY <1>1, ReceivingTyped
     DEF Events, RowEvents, SchemaEvents, AlterEvents, DropEvents, RenameEvents
<1> HIDE DEF e
<1>3. e.table \in Tables /\ e.row \in Seq(V) /\ e.cp \in 1 .. Len(log)
  BY <1>2 DEF RowEvents, AllowedTables
<1>4. e.row # None
  <2>1. e.row \in Seq(Value)
    BY <1>3, SeqWiden DEF ValueSet
  <2> QED BY <2>1, SchemaAssumption
<1>5. WindowTyped(V)'
  <2>1. window' \in [Tables -> Seq(V) \cup {None}]
    BY <1>1, <1>3 DEF Shape, WindowTyped
  <2>2. window'[e.table] # None
    BY <1>1, <1>3, <1>4 DEF Shape, WindowTyped
  <2>3. winCp' # 0
    BY <1>1, <1>3
  <2> QED BY <1>3, <2>1, <2>2, <2>3 DEF WindowTyped, EmptyWindow
<1>6. WriterTyped'
  BY <1>1, <1>3 DEF Shape, WriterTyped, mysqlVars, storeVars
<1>7. StoreTyped(V)'
  BY <1>1 DEF Shape, StoreTyped, storeVars
<1>8. DamageTyped'
  BY <1>1 DEF Shape, DamageTyped
<1> QED BY <1>1, <1>2, <1>5, <1>6, <1>7, <1>8, WriterFrame

\* A schema that is applied, or not or only partly.
SchemaEnds(t, cols) ==
  \/ SchemaApplied(t, cols) /\ UNCHANGED damaged
  \/ SchemaBroken(t, cols) /\ ~ SchemaApplied(t, cols) /\ damaged' = damaged \cup {t}

LEMMA ReceiveSchemaEnds ==
  ASSUME ReceiveSchema
  PROVE  /\ Receiving("schema")
         /\ SchemaEnds(Head(chan).table, Head(chan).cols)
         /\ faults' = faults \/ (faults < MaxFaults /\ faults' = faults + 1)
         /\ ckpt' = FlushedCp /\ window' = EmptyWindow /\ winCp' = 0 /\ chan' = Tail(chan)
         /\ UNCHANGED <<mysqlVars, readerVars, writer, ddlCp, refused>>
BY DEF ReceiveSchema, SchemaEnds

\* Whatever becomes of a schema, only its table and its layout change, and a table with a
\* layout is there.
LEMMA SchemaEffect ==
  ASSUME NEW V, ValueSet(V), Shape(V), NEW t \in AllowedTables, NEW cols \in Projected,
         SchemaEnds(t, cols)
  PROVE  /\ store' \in [Tables -> LocalTables(V) \cup {None}]
         /\ layouts' \in [Tables -> Projected \cup {None}]
         /\ \A u \in Tables \ {t} : store'[u] = Flushed[u] /\ layouts'[u] = layouts[u]
         /\ layouts'[t] # None => store'[t] # None
         /\ \/ stale' = stale \ {t}
            \/ stale' = stale /\ layouts' = layouts
            \/ stale' = stale \cup {t} /\ layouts' = layouts /\ layouts[t] # None /\ t \in damaged'
<1>1. /\ Flushed \in [Tables -> LocalTables(V) \cup {None}] /\ t \in Tables
      /\ \A u \in Tables : Flushed[u] = None <=> store[u] = None
      /\ layouts \in [Tables -> Projected \cup {None}]
      /\ \A u \in Tables : layouts[u] # None => store[u] # None
  BY FlushedType DEF Shape, StoreTyped, AllowedTables
<1>2. Flushed[t] \in LocalTables(V) \cup {None}
  BY <1>1
<1>3. ASSUME NEW some \in Projected, store' = [Flushed EXCEPT ![t] = Completed(Created(@, cols), some)]
      PROVE  /\ store' \in [Tables -> LocalTables(V) \cup {None}] /\ store'[t] # None
             /\ \A u \in Tables \ {t} : store'[u] = Flushed[u]
  <2> DEFINE table == Completed(Created(Flushed[t], cols), some)
  <2>1. store' = [Flushed EXCEPT ![t] = table]
    BY <1>3
  <2>2. table \in LocalTables(V) /\ table # None
    BY <1>2, CompletedType, LocalFields
  <2> HIDE DEF table
  <2> QED BY <1>1, <2>1, <2>2
<1>4. ASSUME layouts' = InstallLayout(layouts, t, cols)
      PROVE  /\ layouts' \in [Tables -> Projected \cup {None}]
             /\ \A u \in Tables \ {t} : layouts'[u] = layouts[u]
  BY <1>1, <1>4 DEF InstallLayout
<1>5. CASE SchemaApplied(t, cols)
  BY <1>3, <1>4, <1>5 DEF SchemaApplied
<1>6. CASE SchemaBroken(t, cols) /\ damaged' = damaged \cup {t}
  <2>1. CASE Flushed[t] = None /\ store' = Flushed /\ UNCHANGED <<layouts, stale>>
    BY <1>1, <2>1
  <2>2. CASE \E n \in 0 .. Len(cols) :
               /\ store' = [Flushed EXCEPT ![t] = Completed(Created(@, cols), SubSeq(cols, 1, n))]
               /\ \/ layouts' = InstallLayout(layouts, t, cols) /\ stale' = stale \ {t}
                  \/ /\ UNCHANGED layouts
                     /\ stale' = IF layouts[t] # None /\ store'[t].cols # store[t].cols
                                 THEN stale \cup {t} ELSE stale
    <3>1. PICK n \in 0 .. Len(cols) :
               /\ store' = [Flushed EXCEPT ![t] = Completed(Created(@, cols), SubSeq(cols, 1, n))]
               /\ \/ layouts' = InstallLayout(layouts, t, cols) /\ stale' = stale \ {t}
                  \/ /\ UNCHANGED layouts
                     /\ stale' = IF layouts[t] # None /\ store'[t].cols # store[t].cols
                                 THEN stale \cup {t} ELSE stale
      BY <2>2
    <3>2. SubSeq(cols, 1, n) \in Projected
      BY DEF Projected
    <3>p. PICK some \in Projected : some = SubSeq(cols, 1, n)
      BY <3>2
    <3>3. /\ store' \in [Tables -> LocalTables(V) \cup {None}] /\ store'[t] # None
          /\ \A u \in Tables \ {t} : store'[u] = Flushed[u]
      BY <1>3, <3>1, <3>p
    <3>4. t \in damaged'
      BY <1>6
    <3>5. CASE layouts' = InstallLayout(layouts, t, cols) /\ stale' = stale \ {t}
      BY <1>4, <3>3, <3>5
    <3>6. CASE /\ UNCHANGED layouts
               /\ stale' = IF layouts[t] # None /\ store'[t].cols # store[t].cols
                           THEN stale \cup {t} ELSE stale
      BY <1>1, <3>3, <3>4, <3>6
    <3> QED BY <3>1, <3>5, <3>6
  <2> QED BY <1>6, <2>1, <2>2 DEF SchemaBroken
<1> QED BY <1>5, <1>6 DEF SchemaEnds

LEMMA ReceiveSchemaShape ==
  ASSUME NEW V, ValueSet(V), Shape(V), ReceiveSchema
  PROVE  Shape(V)'
<1> DEFINE t == Head(chan).table
           cols == Head(chan).cols
<1>1. /\ Receiving("schema") /\ SchemaEnds(t, cols)
      /\ faults' = faults \/ (faults < MaxFaults /\ faults' = faults + 1)
      /\ ckpt' = FlushedCp /\ window' = EmptyWindow /\ winCp' = 0 /\ chan' = Tail(chan)
      /\ UNCHANGED <<mysqlVars, readerVars, writer, ddlCp, refused>>
  BY ReceiveSchemaEnds
<1>2. Head(chan) \in SchemaEvents /\ Tail(chan) \in Seq(Events(V, Len(log)))
  <2>1. /\ Head(chan) \in Events(V, Len(log)) /\ Head(chan).op = "schema"
        /\ Tail(chan) \in Seq(Events(V, Len(log)))
    BY <1>1, ReceivingTyped
  <2> HIDE DEF t, cols
  <2> QED BY <2>1 DEF Events, RowEvents, AlterEvents, DropEvents, RenameEvents
<1>3. t \in AllowedTables /\ t \in Tables /\ cols \in Projected
  BY <1>2 DEF SchemaEvents, AllowedTables
<1> HIDE DEF t, cols
<1>4. /\ store' \in [Tables -> LocalTables(V) \cup {None}]
      /\ layouts' \in [Tables -> Projected \cup {None}]
      /\ \A u \in Tables \ {t} : store'[u] = Flushed[u] /\ layouts'[u] = layouts[u]
      /\ layouts'[t] # None => store'[t] # None
      /\ \/ stale' = stale \ {t}
         \/ stale' = stale /\ layouts' = layouts
         \/ stale' = stale \cup {t} /\ layouts' = layouts /\ layouts[t] # None /\ t \in damaged'
  BY <1>1, <1>3, SchemaEffect
<1>5. damaged' \in {damaged, damaged \cup {t}}
  BY <1>1 DEF SchemaEnds
<1>6. StoreTyped(V)'
  <2>1. \A u \in Tables : Flushed[u] = None <=> store[u] = None
    BY FlushedType
  <2> QED BY <1>3, <1>4, <2>1 DEF Shape, StoreTyped
<1>7. WriterTyped'
  BY <1>1, FlushedType, SmallNumbers DEF Shape, WriterTyped, mysqlVars
<1>8. DamageTyped'
  BY <1>3, <1>4, <1>5 DEF Shape, DamageTyped
<1> QED BY <1>1, <1>2, <1>6, <1>7, <1>8, EmptyWindowTyped, WriterFrame

\* The tables and layouts behind a DDL that the store takes.
LEMMA TakenType ==
  ASSUME NEW V, ValueSet(V), Shape(V), NEW e \in Events(V, Len(log)), e.op = "ddl",
         Taken(e, Flushed, layouts) # None, store' = Taken(e, Flushed, layouts), layouts' = Refreshed(e, layouts)
  PROVE  StoreTyped(V)'
<1> DEFINE t == e.table
           table == Flushed[t]
<1>1. /\ Flushed \in [Tables -> LocalTables(V) \cup {None}]
      /\ \A u \in Tables : Flushed[u] = None <=> store[u] = None
      /\ \A u \in Tables \ AllowedTables : store[u] = None
      /\ layouts \in [Tables -> Projected \cup {None}]
      /\ \A u \in Tables : layouts[u] # None => store[u] # None
  BY FlushedType DEF Shape, StoreTyped
<1>2. e \in AlterEvents(Len(log)) \cup DropEvents(Len(log)) \cup RenameEvents(Len(log))
  BY DEF Events, RowEvents, SchemaEvents
<1>3. \A u \in LocalTables(V) : u # None
  BY LocalFields
<1>4. CASE e \in DropEvents(Len(log))
  <2>1. e.kind \in {"drop", "truncate"} /\ t \in AllowedTables /\ t \in Tables
    BY <1>4 DEF DropEvents, AllowedTables
  <2>2. CASE e.kind = "drop"
    <3>1. store' = [Flushed EXCEPT ![t] = None] /\ layouts' = [layouts EXCEPT ![t] = None]
      BY <2>2 DEF Taken, Refreshed
    <3> QED BY <1>1, <2>1, <3>1 DEF StoreTyped
  <2>3. CASE e.kind = "truncate"
    <3>1. table # None /\ store' = [Flushed EXCEPT ![t].row = None] /\ layouts' = layouts
      BY <2>3 DEF Taken, Refreshed
    <3>2. table \in LocalTables(V) /\ table = [cols |-> table.cols, row |-> table.row]
          /\ table.cols \in SUBSET AllowedColumns
      BY <1>1, <2>1, <3>1, LocalFields
    <3> DEFINE cut == [cols |-> table.cols, row |-> None]
    <3>3. [table EXCEPT !.row = None] = cut
      BY <3>2
    <3>4. cut \in LocalTables(V)
      BY <3>2, LocalBuilt
    <3> HIDE DEF cut
    <3>5. store' = [Flushed EXCEPT ![t] = cut]
      <4>1. [Flushed EXCEPT ![t].row = None] = [Flushed EXCEPT ![t] = [table EXCEPT !.row = None]]
        OBVIOUS
      <4> QED BY <3>1, <3>3, <4>1, Zenon
    <3> QED BY <1>1, <1>3, <2>1, <3>1, <3>4, <3>5 DEF StoreTyped
  <2> QED BY <2>1, <2>2, <2>3
<1>5. CASE e \in RenameEvents(Len(log))
  <2>1. e.kind = "rename" /\ t \in Tables /\ e.arg \in AllowedTables /\ e.arg \in Tables
    BY <1>5 DEF RenameEvents, AllowedTables
  <2>2. /\ table # None /\ Flushed[e.arg] = None
        /\ store' = [Flushed EXCEPT ![t] = None, ![e.arg] = table]
    BY <2>1 DEF Taken
  <2>3. layouts' = IF layouts[t] = None THEN layouts
                   ELSE [layouts EXCEPT ![t] = None, ![e.arg] = layouts[t]]
    BY <2>1 DEF Refreshed
  <2>4. table \in LocalTables(V) \cup {None} /\ layouts[t] \in Projected \cup {None}
    BY <1>1, <2>1
  <2> HIDE DEF table
  <2>5. /\ store' \in [Tables -> LocalTables(V) \cup {None}]
        /\ store'[e.arg] # None /\ \A u \in Tables \ {t, e.arg} : store'[u] = Flushed[u]
        /\ t # e.arg => store'[t] = None
    BY <1>1, <2>1, <2>2, <2>4
  <2>6. /\ layouts' \in [Tables -> Projected \cup {None}]
        /\ \A u \in Tables \ {t, e.arg} : layouts'[u] = layouts[u]
        /\ t # e.arg => layouts'[t] = None
    BY <1>1, <2>1, <2>3, <2>4
  <2>7. \A u \in Tables \ AllowedTables : store'[u] = None
    BY <1>1, <2>1, <2>5
  <2>8. \A u \in Tables : layouts'[u] # None => store'[u] # None
    BY <1>1, <2>5, <2>6
  <2> QED BY <2>5, <2>6, <2>7, <2>8 DEF StoreTyped
<1>6. CASE e \in AlterEvents(Len(log))
  <2>1. e.kind \in Alters /\ t \in AllowedTables /\ t \in Tables /\ e.new \in Projected
    BY <1>6 DEF AlterEvents, AllowedTables
  <2> DEFINE altered == Altered(e, table, layouts[t])
  <2>2. layouts' = [layouts EXCEPT ![t] = e.new]
    BY <2>1 DEF Refreshed, InstallLayout, Alters
  <2>3. \/ store' = Flushed /\ layouts[t] # None
        \/ altered # None /\ store' = [Flushed EXCEPT ![t] = altered]
    <3>1. Taken(e, Flushed, layouts) =
            IF NoOperation(e, layouts[t]) THEN IF layouts[t] = None THEN None ELSE Flushed
            ELSE IF altered = None THEN None ELSE [Flushed EXCEPT ![t] = altered]
      BY <2>1 DEF Taken, Alters
    <3> HIDE DEF altered
    <3> QED BY <3>1
  <2>4. altered \in LocalTables(V) \cup {None}
    BY <1>1, <2>1, AlteredType
  <2> HIDE DEF altered
  <2>5. /\ store' \in [Tables -> LocalTables(V) \cup {None}] /\ store'[t] # None
        /\ \A u \in Tables \ {t} : store'[u] = Flushed[u]
    BY <1>1, <2>1, <2>3, <2>4
  <2>6. /\ layouts' \in [Tables -> Projected \cup {None}]
        /\ \A u \in Tables \ {t} : layouts'[u] = layouts[u]
    BY <1>1, <2>1, <2>2
  <2> QED BY <1>1, <2>1, <2>5, <2>6 DEF StoreTyped
<1> QED BY <1>2, <1>4, <1>5, <1>6

\* The damage goes with a table that is renamed.
LEMMA DamageFollows ==
  ASSUME NEW V, Shape(V), NEW e \in Events(V, Len(log)), e.op = "ddl",
         layouts' = Refreshed(e, layouts),
         stale' = IF e.kind = "truncate" THEN stale ELSE Followed(stale, e) \ {e.table},
         damaged' = Followed(damaged, e)
  PROVE  DamageTyped'
<1>1. /\ damaged \subseteq Tables /\ stale \subseteq damaged /\ \A t \in stale : layouts[t] # None
      /\ layouts \in [Tables -> Projected \cup {None}]
  BY DEF Shape, StoreTyped, DamageTyped
<1>2. e \in AlterEvents(Len(log)) \cup DropEvents(Len(log)) \cup RenameEvents(Len(log))
  BY DEF Events, RowEvents, SchemaEvents
<1>3. e.kind \in Kinds /\ e.table \in Tables
  BY <1>2 DEF AlterEvents, DropEvents, RenameEvents, AllowedTables, Kinds
<1>4. CASE e.kind = "rename"
  <2>1. e.arg \in Tables
    BY <1>2, <1>4 DEF AlterEvents, DropEvents, RenameEvents, AllowedTables, Alters
  <2>2. layouts' = IF layouts[e.table] = None THEN layouts
                   ELSE [layouts EXCEPT ![e.table] = None, ![e.arg] = layouts[e.table]]
    BY <1>4 DEF Refreshed
  <2>3. \A t \in Tables \ {e.table, e.arg} : layouts'[t] = layouts[t]
    BY <1>1, <1>3, <2>1, <2>2
  <2>4. layouts[e.table] # None => layouts'[e.arg] # None
    BY <1>1, <1>3, <2>1, <2>2
  <2>5. layouts[e.arg] # None => layouts'[e.arg] # None
    BY <1>1, <1>3, <2>1, <2>2, <2>4
  <2>6. stale' = (IF e.table \in stale THEN stale \cup {e.arg} ELSE stale) \ {e.table}
        /\ damaged' = IF e.table \in damaged THEN damaged \cup {e.arg} ELSE damaged
    BY <1>4 DEF Followed
  <2> QED BY <1>1, <1>3, <2>1, <2>3, <2>4, <2>5, <2>6 DEF DamageTyped
<1>5. CASE e.kind = "truncate"
  BY <1>1, <1>5 DEF Refreshed, Followed, DamageTyped
<1>6. CASE e.kind \notin {"rename", "truncate"}
  <2>1. stale' = stale \ {e.table} /\ damaged' = damaged
    BY <1>6 DEF Followed
  <2>2. \A t \in Tables \ {e.table} : layouts'[t] = layouts[t]
    BY <1>1, <1>3, <1>6 DEF Refreshed, InstallLayout
  <2> QED BY <1>1, <2>1, <2>2 DEF DamageTyped
<1> QED BY <1>4, <1>5, <1>6

LEMMA ReceiveDdlShape ==
  ASSUME NEW V, ValueSet(V), Shape(V), ReceiveDdl
  PROVE  Shape(V)'
<1> DEFINE e == Head(chan)
           taken == Taken(e, Flushed, layouts)
<1>1. /\ Receiving("ddl")
      /\ \/ /\ taken # None /\ store' = taken /\ layouts' = Refreshed(e, layouts) /\ ddlCp' = e.cp
            /\ stale' = IF e.kind = "truncate" THEN stale ELSE Followed(stale, e) \ {e.table}
            /\ damaged' = Followed(damaged, e)
            /\ UNCHANGED <<writer, refused, faults>>
         \/ /\ taken = None \/ faults < MaxFaults
            /\ writer' = "halted" /\ refused' = (taken = None)
            /\ faults' = IF taken = None THEN faults ELSE faults + 1
            /\ store' = Flushed /\ UNCHANGED <<layouts, stale, ddlCp, damaged>>
      /\ ckpt' = FlushedCp /\ window' = EmptyWindow /\ winCp' = 0 /\ chan' = Tail(chan)
      /\ UNCHANGED <<mysqlVars, readerVars>>
  BY DEF ReceiveDdl
<1>2. e \in Events(V, Len(log)) /\ e.op = "ddl" /\ Tail(chan) \in Seq(Events(V, Len(log)))
  BY <1>1, ReceivingTyped
<1>3. e.cp \in 1 .. Len(log)
  BY <1>2 DEF Events, RowEvents, SchemaEvents, AlterEvents, DropEvents, RenameEvents
<1> HIDE DEF e
<1>4. StoreTyped(V)'
  <2>1. CASE store' = Flushed /\ UNCHANGED layouts
    BY <2>1, FlushedType DEF Shape, StoreTyped
  <2>2. CASE taken # None /\ store' = taken /\ layouts' = Refreshed(e, layouts)
    BY <1>2, <2>2, TakenType
  <2> QED BY <1>1, <2>1, <2>2
<1>9. DamageTyped'
  <2>1. CASE UNCHANGED <<layouts, stale, damaged>>
    BY <2>1 DEF Shape, DamageTyped
  <2>2. CASE /\ taken # None /\ layouts' = Refreshed(e, layouts)
             /\ stale' = IF e.kind = "truncate" THEN stale ELSE Followed(stale, e) \ {e.table}
             /\ damaged' = Followed(damaged, e)
    BY <1>2, <2>2, DamageFollows
  <2> QED BY <1>1, <2>1, <2>2
<1> HIDE DEF taken
<1>5. faults' \in 0 .. MaxFaults
  BY <1>1, SmallNumbers DEF Shape, WriterTyped
<1>6. refused' \in BOOLEAN /\ writer' \in {"running", "halted"}
  BY <1>1 DEF Shape, WriterTyped
<1>7. ddlCp' \in 0 .. Len(log) /\ winCp' \in 0 .. Len(log)
  BY <1>1, <1>3 DEF Shape, WriterTyped, MySqlTyped
<1>8. WriterTyped'
  BY <1>1, <1>5, <1>6, <1>7, FlushedType DEF WriterTyped, mysqlVars
<1> QED BY <1>1, <1>2, <1>4, <1>8, <1>9, EmptyWindowTyped, WriterFrame

LEMMA PersistCheckpointShape ==
  ASSUME NEW V, Shape(V), PersistCheckpoint
  PROVE  Shape(V)'
<1>1. /\ \/ ckpt' = ddlCp /\ UNCHANGED <<writer, faults>>
         \/ faults < MaxFaults /\ faults' = faults + 1 /\ writer' = "halted" /\ UNCHANGED ckpt
      /\ ddlCp' = 0
      /\ UNCHANGED <<mysqlVars, store, readerVars, chan, layouts, stale, window, winCp, refused,
                     damaged>>
  BY DEF PersistCheckpoint
<1>2. WriterTyped'
  BY <1>1, SmallNumbers DEF Shape, WriterTyped, MySqlTyped, mysqlVars
<1>3. StoreTyped(V)' /\ WindowTyped(V)'
  BY <1>1 DEF Shape, StoreTyped, WindowTyped, EmptyWindow
<1>4. chan' \in Seq(Events(V, Len(log)))
  BY <1>1 DEF Shape, ChannelTyped
<1>5. DamageTyped'
  BY <1>1 DEF Shape, DamageTyped
<1> QED BY <1>1, <1>2, <1>3, <1>4, <1>5, WriterFrame

-----------------------------------------------------------------------------
\* The shape holds in every state.

LEMMA InitShape ==
  ASSUME NEW V, ValueSet(V), Init
  PROVE  Shape(V)
<1>1. /\ log = <<>> /\ hist = <<Initial>> /\ reader = "connecting" /\ pos = 0 /\ ckpt = 0
      /\ startCp = 0 /\ winCp = 0 /\ ddlCp = 0 /\ refused = FALSE /\ faults = 0
      /\ schemas = [t \in Tables |-> None] /\ layouts = [t \in Tables |-> None]
      /\ window = [t \in Tables |-> None] /\ chan = <<>> /\ writer = "running"
      /\ store = [t \in Tables |-> IF TableAllowed(t) THEN Loaded(Initial[t]) ELSE None]
      /\ stale = {} /\ damaged = {}
  BY DEF Init
<1>2. /\ log \in Seq(LogEntries) /\ Len(log) = 0 /\ chan \in Seq(Events(V, Len(log)))
  BY <1>1
<1>3. Initial \in [Tables -> Table \cup {None}]
  BY SchemaAssumption
<1>4. ASSUME NEW t \in Tables, Initial[t] # None
      PROVE  /\ Initial[t] \in Table /\ Initial[t].row \in {NoRow, Written(Initial[t].cols, 0)}
             /\ Len(Initial[t].row) \in {0, Len(Initial[t].cols)}
  <2>1. Initial[t] \in Table /\ Initial[t].row \in {NoRow, Written(Initial[t].cols, 0)}
    BY <1>3, <1>4, SchemaAssumption
  <2>2. Initial[t].cols \in Seq(Columns) /\ 0 \in 0 .. MaxEvents
    BY <2>1, SmallNumbers DEF Table
  <2>3. Len(Written(Initial[t].cols, 0)) = Len(Initial[t].cols) /\ Len(NoRow) = 0
    BY <2>2, WrittenIsClean DEF NoRow
  <2> QED BY <2>1, <2>3
<1>5. MySqlTyped
  <2>1. hist \in Seq([Tables -> Table \cup {None}]) /\ Len(hist) = 1 /\ MySql = Initial
    BY <1>1, <1>3 DEF MySql
  <2> QED BY <1>2, <1>4, <2>1, SmallNumbers DEF MySqlTyped
<1>6. ReaderTyped
  BY <1>1, <1>2 DEF ReaderTyped
<1>7. StoreTyped(V)
  <2>1. \A t \in Tables : Initial[t] # None => Loaded(Initial[t]) \in LocalTables(CleanValue)
    BY <1>4, LoadedType
  <2>2. Loaded(None) = None
    BY DEF Loaded
  <2>3. \A table \in LocalTables(CleanValue) : table \in LocalTables(V)
    <3>1. CleanValue \subseteq V
      BY DEF ValueSet
    <3> QED BY <3>1 DEF LocalTables
  <2>4. \A t \in Tables : Loaded(Initial[t]) \in LocalTables(V) \cup {None}
    BY <2>1, <2>2, <2>3
  <2>5. \A t \in Tables \ AllowedTables : store[t] = None
    BY <1>1 DEF AllowedTables
  <2> QED BY <1>1, <2>4, <2>5 DEF StoreTyped
<1>8. WindowTyped(V)
  BY <1>1 DEF WindowTyped, EmptyWindow
<1>9. WriterTyped
  <2>1. 0 \in 0 .. Len(log) /\ 0 \in 0 .. MaxFaults
    BY <1>2, SmallNumbers
  <2> QED BY <1>1, <2>1 DEF WriterTyped
<1>10. DamageTyped
  BY <1>1 DEF DamageTyped
<1> QED BY <1>2, <1>5, <1>6, <1>7, <1>8, <1>9, <1>10 DEF Shape, ChannelTyped

LEMMA ShapeStep ==
  ASSUME NEW V, ValueSet(V), Shape(V), [Next]_vars, ReadsRow => RowRead \in Seq(V)
  PROVE  Shape(V)'
<1>1. CASE Execute
  BY <1>1, ExecuteShape
<1>2. CASE Reader
  <2>1. CASE Sync
    BY <2>1, SyncShape
  <2>2. CASE ReadRow
    BY <2>2, ReadRowShape
  <2>3. CASE ReadAlter
    BY <2>3, ReadAlterShape
  <2>4. CASE ReadCreate
    BY <2>4, ReadCreateShape
  <2>5. CASE ReadDrop
    BY <2>5, ReadDropShape
  <2>6. CASE ReadRename
    BY <2>6, ReadRenameShape
  <2> QED BY <1>2, <2>1, <2>2, <2>3, <2>4, <2>5, <2>6 DEF Reader
<1>3. CASE Writer
  <2>1. CASE FlushBatch
    BY <2>1, FlushBatchShape
  <2>2. CASE ReceiveRow
    BY <2>2, ReceiveRowShape
  <2>3. CASE ReceiveSchema
    BY <2>3, ReceiveSchemaShape
  <2>4. CASE ReceiveDdl
    BY <2>4, ReceiveDdlShape
  <2>5. CASE PersistCheckpoint
    BY <2>5, PersistCheckpointShape
  <2>6. CASE FlushFails
    BY <2>6, FlushFailsShape
  <2> QED BY <1>3, <2>1, <2>2, <2>3, <2>4, <2>5, <2>6 DEF Writer
<1>4. CASE StreamError
  BY <1>4, StreamErrorShape
<1>5. CASE Restart
  BY <1>5, RestartShape
<1>6. CASE UNCHANGED vars
  <2>1. UNCHANGED <<mysqlVars, storeVars, startCp, writerVars, refused, damaged>> /\ chan' = chan
        /\ UNCHANGED <<readerVars, faults>>
    BY <1>6 DEF vars, readerVars
  <2>2. ReaderTyped'
    BY <2>1 DEF Shape, ReaderTyped, mysqlVars, readerVars
  <2> QED BY <2>1, <2>2, ReaderFrame DEF Shape, ChannelTyped, WriterTyped
<1> QED BY <1>1, <1>2, <1>3, <1>4, <1>5, <1>6 DEF Next

\* A row has values of MySQL, or NULL.
LEMMA RowReadTyped ==
  ASSUME Shape(Value), ReadsRow
  PROVE  RowRead \in Seq(Value)
<1> DEFINE t == Event.tables[1]
           cols == schemas[t]
           row == Event.arg
<1>1. t \in Tables /\ row \in Seq(Value) /\ cols \in Seq(Columns)
  BY ReadingTyped, EventFields DEF ReadsRow, Shape, ReaderTyped
<1> HIDE DEF t, cols, row
<1>2. Null \in Value
  BY DEF Value
<1>3. \A i \in DOMAIN ParseRow(cols, row) : ParseRow(cols, row)[i] \in Value
  BY <1>1, <1>2 DEF ParseRow
<1>4. ProjectRow(cols, ParseRow(cols, row)) \in Seq(Value)
  BY <1>1, <1>2, <1>3, ProjectRowType
<1> QED BY <1>4 DEF RowRead, t, cols, row

LEMMA ShapeHolds == Spec => []Shape(Value)
<1>1. Init => Shape(Value)
  BY InitShape, ValueSets
<1>2. Shape(Value) /\ [Next]_vars => Shape(Value)'
  BY ShapeStep, RowReadTyped, ValueSets
<1> QED BY <1>1, <1>2, PTL DEF Spec

LEMMA ShapeGivesTypes ==
  ASSUME Shape(Value)
  PROVE  TypeOK
<1>1. /\ {ckpt, startCp, pos, winCp, ddlCp} \subseteq 0 .. Len(log)
      /\ writer \in {"running", "halted"} /\ reader \in {"connecting", "streaming", "stopped"}
      /\ refused \in BOOLEAN /\ faults \in 0 .. MaxFaults
  BY DEF Shape, ReaderTyped, WriterTyped
<1>2. hist \in Seq([Tables -> Table \cup {None}]) /\ Len(hist) = Len(log) + 1
  BY DEF Shape, MySqlTyped
<1>3. {schemas, layouts} \subseteq [Tables -> Seq(Columns) \cup {None}]
  <2>1. Projected \subseteq Seq(Columns)
    BY SeqWiden DEF Projected, AllowedColumns
  <2> QED BY <2>1 DEF Shape, ReaderTyped, StoreTyped
<1>4. /\ store \in [Tables -> LocalTable \cup {None}]
      /\ \A t \in Tables : layouts[t] # None => store[t] # None
  BY DEF Shape, StoreTyped, LocalTables
<1>5. window \in [Tables -> Seq(Value) \cup {None}] /\ (winCp = 0) = (window = EmptyWindow)
  BY DEF Shape, WindowTyped
<1>6. stale \subseteq {t \in damaged : layouts[t] # None} /\ damaged \subseteq Tables
  BY DEF Shape, DamageTyped
<1> QED BY <1>1, <1>2, <1>3, <1>4, <1>5, <1>6 DEF TypeOK

\* Every variable keeps its type; in particular the writer knows the layout of
\* stored tables only, and pending rows have a checkpoint.
THEOREM TypeCorrect == Spec => []TypeOK
BY ShapeHolds, ShapeGivesTypes, PTL

\* The names of excluded tables and columns are never in the store.
NamesFiltered ==
  \A t \in Tables : store[t] # None => TableAllowed(t) /\ store[t].cols \cap ExcludedColumns = {}

LEMMA ShapeFiltersNames ==
  ASSUME NEW V, Shape(V)
  PROVE  NamesFiltered
<1> SUFFICES ASSUME NEW t \in Tables, store[t] # None
             PROVE  TableAllowed(t) /\ store[t].cols \cap ExcludedColumns = {}
  BY DEF NamesFiltered
<1>1. t \in AllowedTables /\ store[t] \in LocalTables(V)
  BY DEF Shape, StoreTyped
<1>2. store[t].cols \subseteq AllowedColumns
  BY <1>1, LocalFields
<1> QED BY <1>1, <1>2 DEF AllowedTables, AllowedColumns, ColumnAllowed

\* The store never has a table or a column that the filter excludes, also when the
\* reader is behind, reads statements twice or begins again.
THEOREM NamesAlwaysFiltered == Spec => []NamesFiltered
<1>1. Shape(Value) => NamesFiltered
  BY ShapeFiltersNames
<1> QED BY <1>1, ShapeHolds, PTL

-----------------------------------------------------------------------------
\* When the reader reads every statement before the next is executed, it parses each
\* row with the columns it was written with.

\* The reader is never behind by a statement, and those that a session or a restart
\* reads again change no columns.
ReadsInTime == ~ Lag /\ \A kinds \in Replayable \cup Rewindable : kinds \subseteq Harmless

\* Every event of the log did what its kind says.
LogInv == \A n \in 1 .. Len(log) : Effect(log[n], n, hist[n], hist[n + 1])

RowsOnly(p) == \A i \in p + 1 .. Len(log) : log[i].kind = "row"

Calm(p) == \A i \in p + 1 .. Len(log) : log[i].kind \in Harmless \cup {"row"}

\* The reader's schemas are the columns of the tables before event n.
Fits(n) ==
  \A t \in AllowedTables : schemas[t] # None /\ hist[n][t] # None => hist[n][t].cols = schemas[t]

\* The next statement, if there is one, is event d.
Awaited(d) ==
  /\ d <= Len(log) => log[d].kind # "row"
  /\ \A i \in (pos + 1 .. Len(log)) \ {d} : log[i].kind = "row"
  /\ \A n \in pos + 1 .. d : Fits(n)

Undisturbed == Calm(startCp) /\ \A n \in pos + 1 .. Len(log) + 1 : Fits(n)

ReaderInv ==
  /\ reader = "connecting" => pos = startCp /\ Calm(startCp)
  /\ reader = "streaming" =>
       startCp <= pos /\ (Undisturbed \/ \E d \in pos + 1 .. Len(log) + 1 : Awaited(d))

LEMMA LeastOf ==
  ASSUME NEW S \in SUBSET Nat, S # {}
  PROVE  \E m \in S : \A k \in S : m <= k
<1> DEFINE R == OpToRel(<, Nat)
<1>1. PICK m \in S : \A k \in S : ~ (<<k, m>> \in R)
  <2> HIDE DEF R
  <2>1. IsWellFoundedOn(R, Nat)
    BY NatLessThanWellFounded DEF R
  <2> QED BY <2>1, WFMin
<1>2. \A k \in S : ~ (k < m)
  BY <1>1, Zenon DEF OpToRel
<1>3. \A k \in S : m <= k
  BY <1>2
<1> QED BY <1>3

\* The last state of the tables is that behind the last event.
LEMMA HistoryEnds ==
  ASSUME MySqlTyped
  PROVE  /\ Len(log) \in Nat /\ MySql = hist[Len(log) + 1]
         /\ DOMAIN hist = 1 .. Len(log) + 1 /\ DOMAIN log = 1 .. Len(log)
BY DEF MySqlTyped, MySql

\* Without a statement that changes columns a table keeps its columns.
LEMMA ColumnsKept ==
  ASSUME MySqlTyped, LogInv, NEW p \in Nat, Calm(p), NEW t \in Tables,
         NEW n \in p + 1 .. Len(log) + 1, NEW m \in n .. Len(log) + 1, hist[m][t] # None
  PROVE  hist[n][t] # None /\ hist[m][t].cols = hist[n][t].cols
<1> DEFINE Same(k) == hist[n][t] # None /\ hist[k][t].cols = hist[n][t].cols
           Bad == {k \in n .. Len(log) + 1 : hist[k][t] # None /\ ~ Same(k)}
<1>1. Len(log) \in Nat /\ n \in Nat
  BY HistoryEnds
<1> SUFFICES ASSUME Bad # {} PROVE FALSE
  OBVIOUS
<1>2. PICK k \in Bad : \A j \in Bad : k <= j
  <2>1. Bad \in SUBSET Nat
    BY <1>1
  <2> HIDE DEF Bad
  <2> QED BY <2>1, LeastOf
<1>3. k \in n .. Len(log) + 1 /\ hist[k][t] # None /\ ~ Same(k)
  BY <1>2
<1>4. k # n
  BY <1>3
<1>5. k - 1 \in n .. Len(log) + 1 /\ k - 1 \in 1 .. Len(log) /\ k - 1 \in p + 1 .. Len(log)
      /\ (k - 1) + 1 = k /\ ~ (k <= k - 1)
  BY <1>1, <1>3, <1>4
<1> DEFINE j == k - 1
<1> HIDE DEF j
<1>6. Effect(log[j], j, hist[j], hist[k]) /\ log[j].kind \in Harmless \cup {"row"}
  BY <1>5 DEF LogInv, Calm, j
<1>7. Keeps(hist[j], hist[k], t)
  BY <1>6 DEF Effect, RowEffect
<1>8. hist[j][t] # None /\ hist[k][t].cols = hist[j][t].cols
  BY <1>3, <1>7 DEF Keeps
<1>9. j \notin Bad /\ j \in n .. Len(log) + 1
  BY <1>2, <1>5 DEF j
<1>10. Same(j)
  BY <1>8, <1>9
<1> QED BY <1>3, <1>8, <1>10

\* Rows alone leave a table there.
LEMMA TablesKept ==
  ASSUME MySqlTyped, LogInv, NEW p \in Nat, RowsOnly(p), NEW t \in Tables, p <= Len(log),
         hist[p + 1][t] # None
  PROVE  MySql[t] # None
<1> DEFINE Bad == {k \in p + 1 .. Len(log) + 1 : hist[k][t] = None}
<1>1. Len(log) \in Nat /\ MySql = hist[Len(log) + 1]
  BY HistoryEnds
<1> SUFFICES ASSUME Bad # {} PROVE FALSE
  BY <1>1
<1>2. PICK k \in Bad : \A j \in Bad : k <= j
  <2>1. Bad \in SUBSET Nat
    BY <1>1
  <2> HIDE DEF Bad
  <2> QED BY <2>1, LeastOf
<1>3. k \in p + 1 .. Len(log) + 1 /\ hist[k][t] = None
  BY <1>2
<1>4. k # p + 1
  BY <1>3
<1>5. k - 1 \in p + 1 .. Len(log) + 1 /\ k - 1 \in 1 .. Len(log) /\ k - 1 \in p + 1 .. Len(log)
      /\ (k - 1) + 1 = k /\ ~ (k <= k - 1)
  BY <1>1, <1>3, <1>4
<1> DEFINE j == k - 1
<1> HIDE DEF j
<1>6. Effect(log[j], j, hist[j], hist[k]) /\ log[j].kind = "row"
  BY <1>5 DEF LogInv, RowsOnly, j
<1>7. hist[j][t] = None
  BY <1>3, <1>6 DEF Effect, RowEffect
<1>8. j \in Bad /\ ~ (k <= j)
  BY <1>5, <1>7 DEF j
<1> QED BY <1>2, <1>8

\* The state behind an event that MySQL logs.
LEMMA LoggedHistory ==
  ASSUME MySqlTyped, NEW event, NEW db, Executed(event, db)
  PROVE  /\ Len(log') = Len(log) + 1 /\ log'[Len(log) + 1] = event
         /\ \A i \in 1 .. Len(log) : log'[i] = log[i]
         /\ hist'[Len(log) + 2] = db /\ \A n \in 1 .. Len(log) + 1 : hist'[n] = hist[n]
<1>1. /\ log' = Append(log, event) /\ hist' = Append(hist, db)
      /\ log \in Seq(LogEntries) /\ hist \in Seq([Tables -> Table \cup {None}])
      /\ Len(hist) = Len(log) + 1 /\ Len(log) \in Nat
  BY DEF Executed, Logged, MySqlTyped
<1>2. /\ Len(log') = Len(log) + 1 /\ log'[Len(log) + 1] = event
      /\ \A i \in 1 .. Len(log) : log'[i] = log[i]
  BY <1>1
<1>3. hist'[Len(log) + 2] = db /\ \A n \in 1 .. Len(log) + 1 : hist'[n] = hist[n]
  <2>1. hist'[Len(hist) + 1] = db /\ \A n \in 1 .. Len(hist) : hist'[n] = hist[n]
    BY <1>1
  <2> QED BY <1>1, <2>1
<1> QED BY <1>2, <1>3

LEMMA ExecuteLogInv ==
  ASSUME MySqlTyped, LogInv, NEW event, NEW db, Executed(event, db)
  PROVE  LogInv'
<1>1. /\ Len(log) \in Nat /\ MySql = hist[Len(log) + 1]
      /\ Len(log') = Len(log) + 1 /\ log'[Len(log) + 1] = event
      /\ \A i \in 1 .. Len(log) : log'[i] = log[i]
      /\ hist'[Len(log) + 2] = db /\ \A n \in 1 .. Len(log) + 1 : hist'[n] = hist[n]
  BY HistoryEnds, LoggedHistory
<1>2. ASSUME NEW n \in 1 .. Len(log) + 1
      PROVE  Effect(log'[n], n, hist'[n], hist'[n + 1])
  <2>1. CASE n = Len(log) + 1
    <3>1. hist'[n] = MySql /\ hist'[n + 1] = db /\ log'[n] = event
      BY <1>1, <2>1
    <3> QED BY <2>1, <3>1 DEF Executed
  <2>2. CASE n # Len(log) + 1
    <3>1. n \in 1 .. Len(log) /\ hist'[n] = hist[n] /\ hist'[n + 1] = hist[n + 1] /\ log'[n] = log[n]
      BY <1>1, <2>2
    <3> QED BY <3>1 DEF LogInv
  <2> QED BY <2>1, <2>2
<1> QED BY <1>1, <1>2 DEF LogInv

\* What an event that MySQL logs makes of the reader's prospects.
LEMMA ExecuteModes ==
  ASSUME ReadsInTime, MySqlTyped, ReaderTyped, NEW event, NEW db, Executed(event, db),
         NEW n, n = Len(log) + 1
  PROVE  /\ event.kind \in Harmless \cup {"row"} \/ reader = "streaming"
         /\ event.kind = "row" \/ RowsOnly(pos)
         /\ event.kind \in Harmless \cup {"row"} => (Calm(startCp) => Calm(startCp)')
         /\ event.kind = "row" =>
              /\ Undisturbed => Undisturbed'
              /\ n \in pos + 1 .. n /\ Awaited(n) => Awaited(n + 1)'
              /\ \A d \in pos + 1 .. Len(log) : Awaited(d) => Awaited(d)'
         /\ event.kind # "row" =>
              (Undisturbed \/ (\E d \in pos + 1 .. n : Awaited(d)) => Awaited(n)')
<1>1. /\ Len(log) \in Nat /\ n \in Nat /\ MySql = hist[n] /\ Len(log') = n /\ log'[n] = event
      /\ \A i \in 1 .. Len(log) : log'[i] = log[i]
      /\ hist'[n + 1] = db /\ \A i \in 1 .. n : hist'[i] = hist[i]
  BY HistoryEnds, LoggedHistory
<1>2. /\ reader' = reader /\ pos' = pos /\ startCp' = startCp /\ schemas' = schemas
      /\ pos \in 0 .. Len(log) /\ startCp \in 0 .. Len(log)
  BY DEF Executed, Logged, readerVars, ReaderTyped
<1>3. /\ event.kind \in Harmless \cup {"row"} \/ reader = "streaming"
      /\ event.kind = "row" \/ RowsOnly(pos)
  <2>1. CASE event.kind = "row"
    BY <2>1
  <2>2. CASE DdlTime(event.kind)
    <3>1. Pending(pos) = {} => RowsOnly(pos)
      BY DEF Pending, RowsOnly
    <3>2. Within({event.kind}, Replayable) => event.kind \in Harmless
      BY DEF Within, ReadsInTime
    <3> QED BY <2>2, <3>1, <3>2 DEF DdlTime, ReadsInTime
  <2> QED BY <2>1, <2>2 DEF Executed
<1>4. ASSUME Calm(startCp), event.kind \in Harmless \cup {"row"}
      PROVE  Calm(startCp)'
  <2>1. \A i \in startCp + 1 .. n : log'[i].kind \in Harmless \cup {"row"}
    BY <1>1, <1>2, <1>4 DEF Calm
  <2> QED BY <1>1, <1>2, <2>1 DEF Calm
<1>5. ASSUME NEW i \in 1 .. n, Fits(i)
      PROVE  Fits(i)'
  BY <1>1, <1>2, <1>5 DEF Fits
<1>6. ASSUME event.kind = "row", Fits(n)
      PROVE  Fits(n + 1)'
  <2>1. \A t \in Tables : Keeps(hist[n], db, t)
    BY <1>1, <1>6 DEF Executed, Effect, RowEffect
  <2> QED BY <1>1, <1>2, <1>6, <2>1 DEF Fits, Keeps, AllowedTables
<1>7. ASSUME event.kind = "row", Undisturbed
      PROVE  Undisturbed'
  <2>1. \A i \in pos + 1 .. n : Fits(i)
    BY <1>7 DEF Undisturbed
  <2>2. \A i \in pos + 1 .. n : Fits(i)'
    BY <1>1, <1>2, <1>5, <2>1
  <2>3. Fits(n + 1)'
    BY <1>1, <1>2, <1>6, <1>7, <2>1
  <2>4. \A i \in pos + 1 .. n + 1 : Fits(i)'
    BY <1>1, <1>2, <2>2, <2>3
  <2>5. Calm(startCp)'
    BY <1>4, <1>7 DEF Undisturbed
  <2> QED BY <1>1, <1>2, <2>4, <2>5 DEF Undisturbed
<1>8. ASSUME event.kind = "row", n \in pos + 1 .. n, Awaited(n)
      PROVE  Awaited(n + 1)'
  <2>1. \A i \in pos + 1 .. n : Fits(i)'
    BY <1>1, <1>2, <1>5, <1>8 DEF Awaited
  <2>2. Fits(n + 1)'
    BY <1>1, <1>2, <1>6, <1>8 DEF Awaited
  <2>3. \A i \in pos + 1 .. n + 1 : Fits(i)'
    BY <1>1, <1>2, <2>1, <2>2
  <2>4. \A i \in pos + 1 .. n : log'[i].kind = "row"
    BY <1>1, <1>2, <1>8 DEF Awaited
  <2> QED BY <1>1, <1>2, <2>3, <2>4 DEF Awaited
<1>9. ASSUME event.kind = "row", NEW d \in pos + 1 .. Len(log), Awaited(d)
      PROVE  Awaited(d)'
  <2>1. \A i \in pos + 1 .. d : Fits(i)'
    BY <1>1, <1>2, <1>5, <1>9 DEF Awaited
  <2>2. log'[d].kind # "row"
    BY <1>1, <1>2, <1>9 DEF Awaited
  <2>3. \A i \in (pos + 1 .. n) \ {d} : log'[i].kind = "row"
    BY <1>1, <1>2, <1>9 DEF Awaited
  <2> QED BY <1>1, <1>2, <2>1, <2>2, <2>3 DEF Awaited
<1>10. ASSUME event.kind # "row", Undisturbed \/ \E d \in pos + 1 .. n : Awaited(d)
       PROVE  Awaited(n)'
  <2>1. \A i \in pos + 1 .. n : Fits(i)
    <3>1. CASE Undisturbed
      BY <3>1 DEF Undisturbed
    <3>2. CASE \E d \in pos + 1 .. n : Awaited(d)
      <4>1. PICK d \in pos + 1 .. n : Awaited(d)
        BY <3>2
      <4>2. d = n
        BY <1>1, <1>2, <1>3, <1>10, <4>1 DEF Awaited, RowsOnly
      <4> QED BY <4>1, <4>2 DEF Awaited
    <3> QED BY <1>10, <3>1, <3>2
  <2>2. \A i \in pos + 1 .. n : Fits(i)'
    BY <1>1, <1>2, <1>5, <2>1
  <2>3. \A i \in (pos + 1 .. n) \ {n} : log'[i].kind = "row"
    BY <1>1, <1>2, <1>3, <1>10 DEF RowsOnly
  <2> QED BY <1>1, <1>2, <1>10, <2>2, <2>3 DEF Awaited
<1> QED BY <1>3, <1>4, <1>7, <1>8, <1>9, <1>10

LEMMA ExecuteReaderInv ==
  ASSUME ReadsInTime, MySqlTyped, ReaderTyped, ReaderInv, NEW event, NEW db,
         Executed(event, db), NEW n, n = Len(log) + 1
  PROVE  ReaderInv'
<1>1. /\ Len(log) \in Nat /\ n \in Nat /\ Len(log') = n
      /\ reader' = reader /\ pos' = pos /\ startCp' = startCp
      /\ pos \in 0 .. Len(log) /\ startCp \in 0 .. Len(log)
  BY HistoryEnds, LoggedHistory DEF Executed, Logged, readerVars, ReaderTyped
<1>2. reader = "connecting" => pos = startCp /\ Calm(startCp)'
  BY <1>1, ExecuteModes DEF ReaderInv
<1>3. ASSUME reader = "streaming"
      PROVE  startCp <= pos /\ (Undisturbed' \/ \E d \in pos + 1 .. n + 1 : Awaited(d)')
  <2>1. startCp <= pos /\ (Undisturbed \/ \E d \in pos + 1 .. n : Awaited(d))
    BY <1>3 DEF ReaderInv
  <2>2. CASE event.kind # "row"
    <3>1. Awaited(n)' /\ n \in pos + 1 .. n + 1
      BY <1>1, <2>1, <2>2, ExecuteModes
    <3> QED BY <2>1, <3>1
  <2>3. CASE event.kind = "row" /\ Undisturbed
    BY <2>1, <2>3, ExecuteModes
  <2>4. CASE event.kind = "row" /\ \E d \in pos + 1 .. n : Awaited(d)
    <3>1. PICK d \in pos + 1 .. n : Awaited(d)
      BY <2>4
    <3>2. CASE d = n
      <4>1. Awaited(n + 1)' /\ n + 1 \in pos + 1 .. n + 1
        BY <1>1, <2>4, <3>1, <3>2, ExecuteModes
      <4> QED BY <2>1, <4>1
    <3>3. CASE d # n
      <4>1. d \in pos + 1 .. Len(log) /\ d \in pos + 1 .. n + 1
        BY <1>1, <3>1, <3>3
      <4>2. Awaited(d)'
        BY <2>4, <3>1, <4>1, ExecuteModes
      <4> QED BY <2>1, <4>1, <4>2
    <3> QED BY <3>2, <3>3
  <2> QED BY <2>1, <2>2, <2>3, <2>4
<1> QED BY <1>1, <1>2, <1>3 DEF ReaderInv

\* What a step does not change.
LEMMA QuietReaderInv ==
  ASSUME ReaderInv, UNCHANGED <<mysqlVars, readerVars>>
  PROVE  ReaderInv'
BY DEF ReaderInv, Undisturbed, Calm, Awaited, Fits, mysqlVars, readerVars

LEMMA QuietLogInv ==
  ASSUME LogInv, UNCHANGED mysqlVars
  PROVE  LogInv'
BY DEF LogInv, mysqlVars

\* The next session begins at the start position, with no schema changes behind it.
LEMMA SyncReaderInv ==
  ASSUME MySqlTyped, ReaderTyped, LogInv, ReaderInv, Sync
  PROVE  ReaderInv' /\ (reader' = "streaming" => Undisturbed')
<1>1. /\ reader = "connecting" /\ UNCHANGED <<mysqlVars, startCp, pos>>
      /\ \/ /\ reader' = "streaming"
            /\ schemas' = [t \in Tables |-> IF TableAllowed(t) THEN SchemaOf(t) ELSE None]
         \/ reader' = "stopped"
  BY DEF Sync
<1>2. CASE reader' = "stopped"
  BY <1>2 DEF ReaderInv
<1>3. CASE reader' = "streaming"
  <2>1. pos = startCp /\ Calm(startCp) /\ startCp \in Nat
    BY <1>1 DEF ReaderInv, ReaderTyped
  <2>2. schemas' = [t \in Tables |-> IF TableAllowed(t) THEN SchemaOf(t) ELSE None]
    BY <1>1, <1>3
  <2>3. ASSUME NEW n \in pos + 1 .. Len(log) + 1
        PROVE  Fits(n)'
    <3>1. ASSUME NEW t \in AllowedTables, schemas'[t] # None, hist[n][t] # None
          PROVE  hist[n][t].cols = schemas'[t]
      <4>1. t \in Tables /\ schemas'[t] = MySql[t].cols /\ MySql[t] # None
        BY <2>2, <3>1 DEF SchemaOf, AllowedTables
      <4>2. MySql = hist[Len(log) + 1] /\ Len(log) + 1 \in n .. Len(log) + 1
        BY <2>1, HistoryEnds
      <4>3. MySql[t].cols = hist[n][t].cols
        BY <2>1, <4>1, <4>2, ColumnsKept
      <4> QED BY <4>1, <4>3
    <3> QED BY <1>1, <3>1 DEF Fits, mysqlVars
  <2>4. Undisturbed'
    BY <1>1, <2>1, <2>3 DEF Undisturbed, Calm, mysqlVars
  <2> QED BY <1>1, <1>3, <2>1, <2>4 DEF ReaderInv, ReaderTyped
<1> QED BY <1>1, <1>2, <1>3

\* The event a step reads, and what it did.
LEMMA ReadEffect ==
  ASSUME MySqlTyped, ReaderTyped, LogInv, ReaderInv, NEW kinds, Reading(kinds)
  PROVE  /\ Len(log) \in Nat /\ pos \in Nat /\ startCp \in Nat /\ startCp <= pos
         /\ pos + 1 \in 1 .. Len(log) /\ Event = log[pos + 1] /\ Event.kind \in kinds
         /\ Effect(Event, pos + 1, hist[pos + 1], hist[pos + 2])
         /\ Fits(pos + 1)
         /\ reader = "streaming"
<1>1. /\ Len(log) \in Nat /\ pos \in Nat /\ startCp \in Nat
      /\ pos + 1 \in 1 .. Len(log) /\ Event = log[pos + 1] /\ Event.kind \in kinds
      /\ reader = "streaming"
  BY HistoryEnds DEF ReaderTyped, Reading, Event
<1>2. Effect(Event, pos + 1, hist[pos + 1], hist[pos + 2])
  <2>1. Effect(log[pos + 1], pos + 1, hist[pos + 1], hist[(pos + 1) + 1])
    BY <1>1 DEF LogInv
  <2>2. (pos + 1) + 1 = pos + 2
    BY <1>1
  <2> QED BY <1>1, <2>1, <2>2
<1>3. startCp <= pos /\ (Undisturbed \/ \E d \in pos + 1 .. Len(log) + 1 : Awaited(d))
  BY <1>1 DEF ReaderInv
<1>4. Fits(pos + 1)
  <2>1. CASE Undisturbed
    BY <1>1, <2>1 DEF Undisturbed
  <2>2. CASE \E d \in pos + 1 .. Len(log) + 1 : Awaited(d)
    <3>1. PICK d \in pos + 1 .. Len(log) + 1 : Awaited(d)
      BY <2>2
    <3> QED BY <1>1, <3>1 DEF Awaited
  <2> QED BY <1>3, <2>1, <2>2
<1> QED BY <1>1, <1>2, <1>3, <1>4

\* Behind a statement that is read there are no more, or only harmless ones.
LEMMA StatementRead ==
  ASSUME MySqlTyped, ReaderTyped, LogInv, ReaderInv, NEW kinds, Reading(kinds), "row" \notin kinds
  PROVE  Calm(startCp) \/ RowsOnly(pos + 1)
<1>1. /\ Len(log) \in Nat /\ pos \in Nat /\ pos + 1 \in 1 .. Len(log)
      /\ Event = log[pos + 1] /\ Event.kind # "row"
      /\ Undisturbed \/ \E d \in pos + 1 .. Len(log) + 1 : Awaited(d)
  BY ReadEffect DEF ReaderInv
<1>2. ASSUME NEW d \in pos + 1 .. Len(log) + 1, Awaited(d)
      PROVE  RowsOnly(pos + 1)
  <2>1. d = pos + 1
    BY <1>1, <1>2 DEF Awaited
  <2>2. \A i \in (pos + 1) + 1 .. Len(log) : i \in (pos + 1 .. Len(log)) \ {d}
    BY <1>1, <2>1
  <2> QED BY <1>2, <2>2 DEF Awaited, RowsOnly
<1> QED BY <1>1, <1>2 DEF Undisturbed

\* The schemas behind a statement that is read: those of the tables behind it, or fetched.
Refits ==
  \A t \in AllowedTables :
    \/ schemas'[t] = None
    \/ MySql[t] # None /\ schemas'[t] = MySql[t].cols
    \/ hist[pos + 2][t] # None => hist[pos + 2][t].cols = schemas'[t]

Moves(kinds) ==
  Reading(kinds) /\ UNCHANGED <<mysqlVars, startCp>> /\ reader' = "streaming" /\ pos' = pos + 1

\* What a statement that is read makes of the reader's prospects.
LEMMA StatementModes ==
  ASSUME MySqlTyped, ReaderTyped, LogInv, ReaderInv, NEW kinds, Moves(kinds), "row" \notin kinds,
         Refits, NEW e, e = Len(log) + 1
  PROVE  /\ Undisturbed => Undisturbed'
         /\ \A d \in pos + 1 .. Len(log) + 1 : Awaited(d) =>
              d = pos + 1 /\ RowsOnly(d) /\ Awaited(e)'
<1>1. /\ Len(log) \in Nat /\ pos \in Nat /\ startCp \in Nat /\ startCp <= pos
      /\ pos + 1 \in 1 .. Len(log) /\ MySql = hist[Len(log) + 1]
      /\ log[pos + 1].kind # "row"
  BY ReadEffect, HistoryEnds DEF Moves
<1>2. UNCHANGED <<mysqlVars, startCp>> /\ reader' = "streaming" /\ pos' = pos + 1
  BY DEF Moves
<1>3. Calm(pos + 1)
  <2>1. Calm(startCp) \/ RowsOnly(pos + 1)
    BY StatementRead DEF Moves
  <2>2. CASE Calm(startCp)
    BY <1>1, <2>2 DEF Calm
  <2>3. CASE RowsOnly(pos + 1)
    BY <2>3 DEF Calm, RowsOnly
  <2> QED BY <2>1, <2>2, <2>3
<1>4. ASSUME NEW n \in pos + 2 .. Len(log) + 1
      PROVE  Fits(n)'
  <2>1. ASSUME NEW t \in AllowedTables, schemas'[t] # None, hist[n][t] # None
        PROVE  hist[n][t].cols = schemas'[t]
    <3>1. t \in Tables /\ pos + 1 \in Nat /\ n \in (pos + 1) + 1 .. Len(log) + 1
          /\ pos + 2 \in (pos + 1) + 1 .. Len(log) + 1 /\ n \in pos + 2 .. Len(log) + 1
          /\ Len(log) + 1 \in n .. Len(log) + 1
      BY <1>1 DEF AllowedTables
    <3>2. CASE MySql[t] # None /\ schemas'[t] = MySql[t].cols
      <4>1. MySql[t].cols = hist[n][t].cols
        BY <1>1, <1>3, <3>1, <3>2, ColumnsKept
      <4> QED BY <3>2, <4>1
    <3>3. CASE hist[pos + 2][t] # None => hist[pos + 2][t].cols = schemas'[t]
      <4>1. hist[pos + 2][t] # None /\ hist[n][t].cols = hist[pos + 2][t].cols
        BY <1>3, <2>1, <3>1, ColumnsKept
      <4> QED BY <3>3, <4>1
    <3> QED BY <2>1, <3>2, <3>3 DEF Refits
  <2> QED BY <1>2, <2>1 DEF Fits, mysqlVars
<1>5. \A n \in pos' + 1 .. Len(log) + 1 : Fits(n)'
  BY <1>1, <1>2, <1>4
<1>6. ASSUME Undisturbed
      PROVE  Undisturbed'
  BY <1>2, <1>5, <1>6 DEF Undisturbed, Calm, mysqlVars
<1>7. ASSUME NEW d \in pos + 1 .. Len(log) + 1, Awaited(d)
      PROVE  d = pos + 1 /\ RowsOnly(d) /\ Awaited(e)'
  <2>1. d = pos + 1
    BY <1>1, <1>7 DEF Awaited
  <2>2. \A i \in (pos + 1) + 1 .. Len(log) : i \in (pos + 1 .. Len(log)) \ {d}
    BY <1>1, <2>1
  <2>3. RowsOnly(d)
    BY <1>7, <2>1, <2>2 DEF Awaited, RowsOnly
  <2>4. ~ (e <= Len(log))
    BY <1>1
  <2>5. \A i \in (pos' + 1 .. Len(log)) \ {e} : log[i].kind = "row"
    BY <1>2, <2>1, <2>3 DEF RowsOnly
  <2>6. Awaited(e)'
    BY <1>2, <1>5, <2>4, <2>5 DEF Awaited, mysqlVars
  <2> QED BY <2>1, <2>3, <2>6
<1> QED BY <1>6, <1>7

LEMMA StatementReadInv ==
  ASSUME MySqlTyped, ReaderTyped, LogInv, ReaderInv, NEW kinds, Reading(kinds), "row" \notin kinds,
         UNCHANGED <<mysqlVars, startCp>>,
         reader' = "stopped" \/ (reader' = "streaming" /\ pos' = pos + 1), Refits
  PROVE  ReaderInv'
<1>1. /\ Len(log) \in Nat /\ pos \in Nat /\ startCp \in Nat /\ startCp <= pos
      /\ pos + 1 \in 1 .. Len(log)
      /\ Undisturbed \/ \E d \in pos + 1 .. Len(log) + 1 : Awaited(d)
  BY ReadEffect DEF ReaderInv
<1>2. CASE reader' = "stopped"
  BY <1>2 DEF ReaderInv
<1>3. CASE reader' = "streaming" /\ pos' = pos + 1
  <2>1. Moves(kinds)
    BY <1>3 DEF Moves
  <2>2. CASE Undisturbed
    BY <1>1, <1>3, <2>1, <2>2, StatementModes DEF ReaderInv
  <2>3. CASE \E d \in pos + 1 .. Len(log) + 1 : Awaited(d)
    <3>1. PICK n \in pos' + 1 .. Len(log) + 1 : n = Len(log) + 1
      BY <1>1, <1>3
    <3>2. Awaited(n)'
      BY <2>1, <2>3, <3>1, StatementModes
    <3>3. \E e \in pos' + 1 .. Len(log') + 1 : Awaited(e)'
      BY <3>1, <3>2 DEF mysqlVars
    <3> QED BY <1>1, <1>3, <3>3 DEF ReaderInv
  <2> QED BY <1>1, <2>2, <2>3
<1> QED BY <1>2, <1>3

LEMMA SendMoves ==
  ASSUME NEW events, Send(events), reader = "streaming"
  PROVE  /\ UNCHANGED <<mysqlVars, startCp>>
         /\ reader' = "stopped" \/ (reader' = "streaming" /\ pos' = pos + 1)
BY DEF Send

\* An altered or created table is there until it is dropped or renamed.
LEMMA FetchedSchema ==
  ASSUME MySqlTyped, ReaderTyped, LogInv, ReaderInv, NEW kinds, Reading(kinds), "row" \notin kinds,
         NEW t \in Tables, hist[pos + 2][t] # None, RowsOnly(pos + 1)
  PROVE  MySql[t] # None /\ SchemaOf(t) # None
<1>1. pos + 1 \in Nat /\ (pos + 1) + 1 = pos + 2 /\ pos + 1 <= Len(log)
  BY ReadEffect
<1>2. MySql[t] # None
  BY <1>1, TablesKept
<1>3. SchemaOf(t) \in Seq(Columns)
  BY <1>2, MySqlTables DEF SchemaOf
<1> QED BY <1>2, <1>3, SchemaAssumption

\* What a row that is read makes of the reader's prospects.
LEMMA RowModes ==
  ASSUME MySqlTyped, ReaderTyped, LogInv, ReaderInv, Moves({"row"}), UNCHANGED schemas
  PROVE  /\ Undisturbed => Undisturbed'
         /\ \A d \in pos + 1 .. Len(log) + 1 : Awaited(d) =>
              d \in pos + 2 .. Len(log) + 1 /\ Awaited(d)'
<1>1. /\ UNCHANGED <<mysqlVars, startCp, schemas>> /\ reader' = "streaming" /\ pos' = pos + 1
      /\ Reading({"row"})
  BY DEF Moves
<1>2. /\ Len(log) \in Nat /\ pos \in Nat /\ startCp \in Nat /\ startCp <= pos
      /\ pos + 1 \in 1 .. Len(log) /\ log[pos + 1].kind = "row"
  BY <1>1, ReadEffect
<1>3. \A n : Fits(n) => Fits(n)'
  BY <1>1 DEF Fits, mysqlVars
<1>4. ASSUME Undisturbed
      PROVE  Undisturbed'
  <2>1. \A n \in pos' + 1 .. Len(log) + 1 : Fits(n)'
    BY <1>1, <1>2, <1>3, <1>4 DEF Undisturbed
  <2> QED BY <1>1, <1>4, <2>1 DEF Undisturbed, Calm, mysqlVars
<1>5. ASSUME NEW d \in pos + 1 .. Len(log) + 1, Awaited(d)
      PROVE  d \in pos + 2 .. Len(log) + 1 /\ Awaited(d)'
  <2>1. d # pos + 1
    BY <1>2, <1>5 DEF Awaited
  <2>2. \A n \in pos' + 1 .. d : Fits(n)'
    BY <1>1, <1>2, <1>3, <1>5 DEF Awaited
  <2>3. \A i \in (pos' + 1 .. Len(log)) \ {d} : log[i].kind = "row"
    BY <1>1, <1>2, <1>5 DEF Awaited
  <2>4. Awaited(d)'
    BY <1>1, <1>5, <2>2, <2>3 DEF Awaited, mysqlVars
  <2> QED BY <1>2, <2>1, <2>4
<1> QED BY <1>4, <1>5

LEMMA ReadRowReaderInv ==
  ASSUME MySqlTyped, ReaderTyped, LogInv, ReaderInv, ReadRow
  PROVE  ReaderInv'
<1>1. Reading({"row"}) /\ UNCHANGED schemas /\ \E events : Send(events)
  BY DEF ReadRow
<1>2. /\ Len(log) \in Nat /\ pos \in Nat /\ startCp \in Nat /\ startCp <= pos
      /\ pos + 1 \in 1 .. Len(log) /\ reader = "streaming"
      /\ Undisturbed \/ \E d \in pos + 1 .. Len(log) + 1 : Awaited(d)
  BY <1>1, ReadEffect DEF ReaderInv
<1>3. /\ UNCHANGED <<mysqlVars, startCp>>
      /\ reader' = "stopped" \/ (reader' = "streaming" /\ pos' = pos + 1)
  BY <1>1, <1>2, SendMoves
<1>4. CASE reader' = "stopped"
  BY <1>4 DEF ReaderInv
<1>5. CASE reader' = "streaming" /\ pos' = pos + 1
  <2>1. Moves({"row"})
    BY <1>1, <1>3, <1>5 DEF Moves
  <2>2. CASE Undisturbed
    BY <1>1, <1>2, <1>3, <1>5, <2>1, <2>2, RowModes DEF ReaderInv
  <2>3. CASE \E d \in pos + 1 .. Len(log) + 1 : Awaited(d)
    <3>1. PICK d \in pos + 1 .. Len(log) + 1 : Awaited(d)
      BY <2>3
    <3>2. d \in pos + 2 .. Len(log) + 1 /\ Awaited(d)'
      BY <1>1, <2>1, <3>1, RowModes
    <3>3. d \in pos' + 1 .. Len(log') + 1
      BY <1>2, <1>3, <1>5, <3>2 DEF mysqlVars
    <3> QED BY <1>2, <1>3, <1>5, <3>2, <3>3 DEF ReaderInv
  <2> QED BY <1>2, <2>2, <2>3
<1> QED BY <1>3, <1>4, <1>5

LEMMA ReadAlterReaderInv ==
  ASSUME NEW V, Shape(V), LogInv, ReaderInv, ReadAlter
  PROVE  ReaderInv' /\ (reader' = "connecting" \/ Refits)
<1> DEFINE t == Event.tables[1]
<1>1. Reading(Alters) /\ "row" \notin Alters /\ MySqlTyped /\ ReaderTyped
  BY DEF ReadAlter, Alters, Shape
<1>2. t \in Tables /\ Event.kind \in Alters
  BY <1>1, ReadingTyped, EventFields DEF Alters
<1>3. /\ Effect(Event, pos + 1, hist[pos + 1], hist[pos + 2]) /\ Fits(pos + 1)
      /\ reader = "streaming" /\ startCp \in Nat
  BY <1>1, ReadEffect
<1>4. hist[pos + 2][t] # None /\ Alike(hist[pos + 1], hist[pos + 2], {t})
  BY <1>2, <1>3 DEF Effect
<1>5. \A u \in AllowedTables \ {t} :
        schemas[u] = None \/ (hist[pos + 2][u] # None => hist[pos + 2][u].cols = schemas[u])
  BY <1>3, <1>4 DEF Alike, Fits, AllowedTables
<1>6. CASE ~ TableAllowed(t)
  <2>1. Send(<<>>) /\ UNCHANGED schemas
    BY <1>6 DEF ReadAlter
  <2>2. t \notin AllowedTables
    BY <1>6 DEF AllowedTables
  <2>3. /\ UNCHANGED <<mysqlVars, startCp>>
        /\ reader' = "stopped" \/ (reader' = "streaming" /\ pos' = pos + 1)
    BY <1>3, <2>1, SendMoves
  <2> HIDE DEF t
  <2>4. Refits
    BY <1>5, <2>1, <2>2 DEF Refits
  <2> QED BY <1>1, <2>3, <2>4, StatementReadInv
<1>7. CASE TableAllowed(t) /\ SchemaOf(t) = None
  <2>1. reader' = "connecting" /\ pos' = startCp /\ UNCHANGED <<mysqlVars, startCp>>
    BY <1>7 DEF ReadAlter
  <2>2. Calm(startCp)
    BY <1>1, <1>2, <1>4, <1>7, StatementRead, FetchedSchema
  <2> QED BY <2>1, <2>2 DEF ReaderInv, Calm, mysqlVars
<1>8. CASE TableAllowed(t) /\ SchemaOf(t) # None
  <2>1. schemas' = [schemas EXCEPT ![t] = SchemaOf(t)] /\ \E events : Send(events)
    BY <1>8 DEF ReadAlter
  <2>2. /\ UNCHANGED <<mysqlVars, startCp>>
        /\ reader' = "stopped" \/ (reader' = "streaming" /\ pos' = pos + 1)
    BY <1>3, <2>1, SendMoves
  <2>3. MySql[t] # None /\ SchemaOf(t) = MySql[t].cols
    BY <1>8 DEF SchemaOf
  <2> HIDE DEF t
  <2>4. schemas'[t] = MySql[t].cols /\ \A u \in Tables \ {t} : schemas'[u] = schemas[u]
    BY <1>1, <1>2, <2>1, <2>3 DEF ReaderTyped
  <2>5. Refits
    BY <1>5, <2>3, <2>4 DEF AllowedTables, Refits
  <2> QED BY <1>1, <2>2, <2>5, StatementReadInv
<1> QED BY <1>6, <1>7, <1>8

LEMMA ReadCreateReaderInv ==
  ASSUME NEW V, Shape(V), LogInv, ReaderInv, ReadCreate
  PROVE  ReaderInv' /\ Refits
<1> DEFINE t == Event.tables[1]
<1>1. Reading({"create"}) /\ "row" \notin {"create"} /\ MySqlTyped /\ ReaderTyped
  BY DEF ReadCreate, Shape
<1>2. t \in Tables /\ Event.kind = "create"
  BY <1>1, ReadingTyped, EventFields
<1>3. /\ Effect(Event, pos + 1, hist[pos + 1], hist[pos + 2]) /\ Fits(pos + 1)
      /\ reader = "streaming" /\ startCp \in Nat /\ pos \in Nat /\ startCp <= pos
      /\ pos + 1 \in 1 .. Len(log) /\ Event = log[pos + 1] /\ Len(log) \in Nat
  BY <1>1, ReadEffect
<1>4. hist[pos + 2][t] # None /\ Alike(hist[pos + 1], hist[pos + 2], {t})
  BY <1>2, <1>3 DEF Effect
<1>5. \A u \in AllowedTables \ {t} :
        schemas[u] = None \/ (hist[pos + 2][u] # None => hist[pos + 2][u].cols = schemas[u])
  BY <1>3, <1>4 DEF Alike, Fits, AllowedTables
<1>6. MySql[t] # None /\ SchemaOf(t) # None /\ SchemaOf(t) = MySql[t].cols
  <2>1. ~ Calm(startCp)
    BY <1>2, <1>3 DEF Calm, Harmless
  <2>2. RowsOnly(pos + 1)
    BY <1>1, <2>1, StatementRead
  <2> QED BY <1>1, <1>2, <1>4, <2>2, FetchedSchema DEF SchemaOf
<1>7. \/ TableAllowed(t) /\ schemas' = [schemas EXCEPT ![t] = SchemaOf(t)]
      \/ ~ TableAllowed(t) /\ UNCHANGED schemas
  BY <1>6 DEF ReadCreate
<1>8. /\ UNCHANGED <<mysqlVars, startCp>>
      /\ reader' = "stopped" \/ (reader' = "streaming" /\ pos' = pos + 1)
  <2>1. \E events : Send(events)
    BY DEF ReadCreate
  <2> QED BY <1>3, <2>1, SendMoves
<1> HIDE DEF t
<1>9. /\ t \in AllowedTables => schemas'[t] = MySql[t].cols
      /\ \A u \in Tables \ {t} : schemas'[u] = schemas[u]
  BY <1>1, <1>2, <1>6, <1>7 DEF ReaderTyped, AllowedTables
<1>10. Refits
  BY <1>5, <1>6, <1>9 DEF AllowedTables, Refits
<1> QED BY <1>1, <1>8, <1>10, StatementReadInv

LEMMA ReadDropReaderInv ==
  ASSUME NEW V, Shape(V), LogInv, ReaderInv, ReadDrop
  PROVE  ReaderInv' /\ Refits
<1> DEFINE kinds == {"drop", "truncate"}
<1>1. Reading(kinds) /\ "row" \notin kinds /\ MySqlTyped /\ ReaderTyped
  BY DEF ReadDrop, Shape
<1>2. /\ Effect(Event, pos + 1, hist[pos + 1], hist[pos + 2]) /\ Fits(pos + 1)
      /\ reader = "streaming" /\ Event.kind \in kinds
  BY <1>1, ReadEffect
<1>3. \A t \in Tables : Keeps(hist[pos + 1], hist[pos + 2], t)
  BY <1>2 DEF Effect, Harmless
<1>4. \A t \in AllowedTables : schemas'[t] \in {None, schemas[t]}
  BY DEF ReadDrop, AllowedTables
<1>5. Refits
  BY <1>2, <1>3, <1>4 DEF Fits, Keeps, AllowedTables, Refits
<1>6. /\ UNCHANGED <<mysqlVars, startCp>>
      /\ reader' = "stopped" \/ (reader' = "streaming" /\ pos' = pos + 1)
  <2>1. \E events : Send(events)
    BY DEF ReadDrop
  <2> QED BY <1>2, <2>1, SendMoves
<1> HIDE DEF kinds
<1> QED BY <1>1, <1>5, <1>6, StatementReadInv

LEMMA ReadRenameReaderInv ==
  ASSUME NEW V, Shape(V), LogInv, ReaderInv, ReadRename
  PROVE  ReaderInv' /\ Refits
<1> DEFINE from == Event.tables[1]
           to == Event.arg
           forgotten == [schemas EXCEPT ![from] = None]
<1>1. Reading({"rename"}) /\ "row" \notin {"rename"} /\ MySqlTyped /\ ReaderTyped
  BY DEF ReadRename, Shape
<1>2. from \in Tables /\ to \in Tables /\ Event.kind = "rename"
  BY <1>1, ReadingTyped, EventFields
<1>3. /\ Effect(Event, pos + 1, hist[pos + 1], hist[pos + 2]) /\ Fits(pos + 1)
      /\ reader = "streaming" /\ startCp \in Nat /\ pos \in Nat /\ startCp <= pos
      /\ pos + 1 \in 1 .. Len(log) /\ Event = log[pos + 1] /\ Len(log) \in Nat
  BY <1>1, ReadEffect
<1>4. hist[pos + 2][to] # None /\ Alike(hist[pos + 1], hist[pos + 2], {from, to})
  BY <1>2, <1>3 DEF Effect
<1>5. \A u \in AllowedTables \ {from, to} :
        schemas[u] = None \/ (hist[pos + 2][u] # None => hist[pos + 2][u].cols = schemas[u])
  BY <1>3, <1>4 DEF Alike, Fits, AllowedTables
<1>6. MySql[to] # None /\ SchemaOf(to) # None /\ SchemaOf(to) = MySql[to].cols
  <2>1. ~ Calm(startCp)
    BY <1>2, <1>3 DEF Calm, Harmless
  <2>2. RowsOnly(pos + 1)
    BY <1>1, <2>1, StatementRead
  <2> QED BY <1>1, <1>2, <1>4, <2>2, FetchedSchema DEF SchemaOf
<1>7. \/ TableAllowed(to) /\ schemas' = [forgotten EXCEPT ![to] = SchemaOf(to)]
      \/ ~ TableAllowed(to) /\ schemas' = forgotten
  BY <1>6 DEF ReadRename
<1>8. /\ UNCHANGED <<mysqlVars, startCp>>
      /\ reader' = "stopped" \/ (reader' = "streaming" /\ pos' = pos + 1)
  <2>1. \E events : Send(events)
    BY DEF ReadRename
  <2> QED BY <1>3, <2>1, SendMoves
<1>9. /\ to \in AllowedTables => schemas'[to] = MySql[to].cols
      /\ from # to => schemas'[from] = None
      /\ \A u \in Tables \ {from, to} : schemas'[u] = schemas[u]
  BY <1>1, <1>2, <1>6, <1>7 DEF ReaderTyped, AllowedTables
<1> HIDE DEF from, to
<1>10. Refits
  BY <1>5, <1>6, <1>9 DEF AllowedTables, Refits
<1> QED BY <1>1, <1>8, <1>10, StatementReadInv

\* A session that begins again passes harmless statements only.
LEMMA CalmAgain ==
  ASSUME ReadsInTime, NEW p, Within(Pending(p), Replayable) \/ Within(Pending(p), Rewindable)
  PROVE  Calm(p)
<1>1. Pending(p) \subseteq Harmless
  BY DEF Within, ReadsInTime
<1> QED BY <1>1 DEF Pending, Calm

LEMMA ReaderInvStep ==
  ASSUME NEW V, ReadsInTime, Shape(V), LogInv, ReaderInv, [Next]_vars
  PROVE  LogInv' /\ ReaderInv'
<1>1. MySqlTyped /\ ReaderTyped
  BY DEF Shape
<1>2. CASE Execute
  <2>1. PICK event, db : Executed(event, db)
    BY <1>1, <1>2, ExecuteLogs
  <2>2. LogInv'
    BY <1>1, <2>1, ExecuteLogInv
  <2>3. ReaderInv'
    BY <1>1, <2>1, ExecuteReaderInv
  <2> QED BY <2>2, <2>3
<1>3. CASE Reader
  <2>1. UNCHANGED mysqlVars
    BY <1>3 DEF Reader, Sync, ReadRow, ReadAlter, ReadCreate, ReadDrop, ReadRename, Send
  <2>2. ReaderInv'
    BY <1>1, <1>3, SyncReaderInv, ReadRowReaderInv, ReadAlterReaderInv, ReadCreateReaderInv,
       ReadDropReaderInv, ReadRenameReaderInv DEF Reader
  <2> QED BY <2>1, <2>2, QuietLogInv
<1>4. CASE Writer
  <2>1. UNCHANGED <<mysqlVars, readerVars>>
    BY <1>4 DEF Writer, FlushBatch, FlushFails, ReceiveRow, ReceiveSchema, ReceiveDdl, PersistCheckpoint
  <2> QED BY <2>1, QuietLogInv, QuietReaderInv
<1>5. CASE StreamError
  <2>1. /\ UNCHANGED <<mysqlVars, startCp>> /\ reader' = "connecting" /\ pos' = startCp
        /\ Within(Pending(startCp), Rewindable)
    BY <1>5 DEF StreamError
  <2>2. Calm(startCp)
    BY <2>1, CalmAgain
  <2>3. ReaderInv'
    BY <2>1, <2>2 DEF ReaderInv, Calm, mysqlVars
  <2> QED BY <2>1, <2>3, QuietLogInv
<1>6. CASE Restart
  <2>1. /\ UNCHANGED mysqlVars /\ reader' = "connecting" /\ pos' = ckpt /\ startCp' = ckpt
        /\ Within(Pending(ckpt), Replayable)
    BY <1>6 DEF Restart
  <2>2. Calm(ckpt)
    BY <2>1, CalmAgain
  <2>3. ReaderInv'
    BY <2>1, <2>2 DEF ReaderInv, Calm, mysqlVars
  <2> QED BY <2>1, <2>3, QuietLogInv
<1>7. CASE UNCHANGED vars
  <2>1. UNCHANGED <<mysqlVars, readerVars>>
    BY <1>7 DEF vars
  <2> QED BY <2>1, QuietLogInv, QuietReaderInv
<1> QED BY <1>2, <1>3, <1>4, <1>5, <1>6, <1>7 DEF Next

\* A row that is read has values of columns that the filter lets through.
LEMMA RowReadClean ==
  ASSUME NEW V, Shape(V), LogInv, ReaderInv, ReadsRow
  PROVE  RowRead \in Seq(CleanValue)
<1> DEFINE t == Event.tables[1]
           cols == schemas[t]
           row == Event.arg
           n == pos + 1
<1>1. Reading({"row"}) /\ TableAllowed(t) /\ cols # None /\ row # NoRow
      /\ MySqlTyped /\ ReaderTyped
  BY DEF ReadsRow, Shape
<1>2. /\ n \in 1 .. Len(log) /\ Fits(n) /\ Event.kind = "row"
      /\ Effect(Event, n, hist[n], hist[pos + 2])
  BY <1>1, ReadEffect
<1>3. t \in Tables
  BY <1>1, ReadingTyped, EventFields
<1>4. cols \in Seq(Columns) /\ n \in 0 .. MaxEvents
  <2>1. Len(log) <= MaxEvents /\ Len(log) \in Nat
    BY <1>1 DEF MySqlTyped
  <2>2. n \in 0 .. MaxEvents
    BY <1>2, <2>1, SmallNumbers
  <2>3. cols \in Seq(Columns)
    BY <1>1, <1>3 DEF ReaderTyped
  <2> QED BY <2>2, <2>3
<1>5. row = Written(cols, n)
  <2>1. hist[n][t] # None /\ row = Written(hist[n][t].cols, n)
    BY <1>1, <1>2 DEF Effect, RowEffect
  <2>2. hist[n][t].cols = cols
    BY <1>1, <1>2, <1>3, <2>1 DEF Fits, AllowedTables
  <2> QED BY <2>1, <2>2
<1> HIDE DEF t, cols, row, n
<1>6. \A i \in Project(cols) : i \in DOMAIN cols /\ Written(cols, n)[i] \in CleanValue
  BY <1>4, WrittenIsClean DEF Project
<1>7. \A i \in Project(cols) : ParseRow(cols, row)[i] \in CleanValue
  <2>1. DOMAIN Written(cols, n) = DOMAIN cols
    BY DEF Written
  <2> QED BY <1>5, <1>6, <2>1 DEF ParseRow
<1>8. Null \in CleanValue
  BY DEF CleanValue
<1>9. ProjectRow(cols, ParseRow(cols, row)) \in Seq(CleanValue)
  BY <1>4, <1>7, <1>8, ProjectRowType
<1> QED BY <1>9 DEF RowRead, t, cols, row

LEMMA InitReaderInv ==
  ASSUME Init
  PROVE  LogInv /\ ReaderInv
<1>1. Len(log) = 0 /\ reader = "connecting" /\ pos = 0 /\ startCp = 0
  BY DEF Init
<1> QED BY <1>1 DEF LogInv, ReaderInv, Calm

LEMMA CleanStore ==
  ASSUME Shape(CleanValue)
  PROVE  ExcludedNeverStored
<1>1. NamesFiltered
  BY ShapeFiltersNames
<1>2. ASSUME NEW t \in Tables, store[t] # None, store[t].row # None,
             NEW c \in store[t].cols, store[t].row[c] # Null
      PROVE  store[t].row[c][1] \notin ExcludedColumns
  <2>1. store[t] \in LocalTables(CleanValue)
    BY <1>2 DEF Shape, StoreTyped
  <2>2. store[t].row \in [store[t].cols -> CleanValue]
    BY <1>2, <2>1, LocalFields
  <2>3. store[t].row[c] \in AllowedColumns \X (0 .. MaxEvents)
    BY <1>2, <2>2 DEF CleanValue
  <2> QED BY <2>3 DEF AllowedColumns, ColumnAllowed
<1> QED BY <1>1, <1>2 DEF ExcludedNeverStored, NamesFiltered

\* Neither the names nor the values of excluded tables and columns are ever in the
\* store, if the reader reads each statement before MySQL executes the next, and
\* reads again only statements that change no columns.
THEOREM ExcludedNeverReplicated ==
  ASSUME ReadsInTime
  PROVE  Spec => []ExcludedNeverStored
<1> DEFINE Inv == Shape(CleanValue) /\ LogInv /\ ReaderInv
<1>1. Init => Inv
  BY InitShape, InitReaderInv, ValueSets
<1>2. Inv /\ [Next]_vars => Inv'
  <2> SUFFICES ASSUME Inv, [Next]_vars PROVE Inv'
    OBVIOUS
  <2>1. ReadsRow => RowRead \in Seq(CleanValue)
    BY RowReadClean
  <2>2. Shape(CleanValue)'
    BY <2>1, ShapeStep, ValueSets
  <2>3. LogInv' /\ ReaderInv'
    BY ReaderInvStep
  <2> QED BY <2>2, <2>3
<1>3. Inv => ExcludedNeverStored
  BY CleanStore
<1> HIDE DEF Inv
<1> QED BY <1>1, <1>2, <1>3, PTL DEF Spec

-----------------------------------------------------------------------------
\* What a local table has of one of MySQL's.

\* A table of MySQL: each column once, the primary key among them, and a value for
\* each column, or no row.
Sound(table) ==
  /\ table \in Table /\ table.cols \in TableColumns
  /\ Len(table.row) \in {0, Len(table.cols)}

Kept(cols) == {c \in ToSet(cols) : ColumnAllowed(c)}

Place(cols, c) == CHOOSE i \in DOMAIN cols : cols[i] = c

Cell(table, c) == IF table.row = NoRow THEN Null ELSE table.row[Place(table.cols, c)]

Image(table) ==
  [cols |-> Kept(table.cols),
   row |-> IF table.row = NoRow THEN None ELSE [c \in Kept(table.cols) |-> Cell(table, c)]]

\* keep enumerates the positions S as Selected does, each once.
Enumerates(keep, S) ==
  /\ keep \in [1 .. Cardinality(S) -> S]
  /\ \A j, k \in 1 .. Cardinality(S) : keep[j] = keep[k] => j = k
  /\ \A i \in S : \E k \in 1 .. Cardinality(S) : keep[k] = i
  /\ \A seq : Selected(seq, S) = [k \in 1 .. Cardinality(S) |-> seq[keep[k]]]

\* Selected takes each of the positions once, in order.
LEMMA SelectedPositions ==
  ASSUME NEW n \in Nat, NEW S \in SUBSET (1 .. n)
  PROVE  Cardinality(S) \in Nat /\ \E keep : Enumerates(keep, S)
<1> DEFINE keep == CHOOSE f \in [1 .. Cardinality(S) -> S] :
                     \A i, j \in DOMAIN f : i < j => f[i] < f[j]
           c == Cardinality(S)
<1>1. \E f \in [1 .. Cardinality(S) -> S] : \A i, j \in DOMAIN f : i < j => f[i] < f[j]
  BY EnumerationExists DEF Enumerations, Increasing
<1>2. keep \in [1 .. c -> S] /\ \A i, j \in DOMAIN keep : i < j => keep[i] < keep[j]
  BY <1>1
<1>3. IsFiniteSet(S) /\ c \in Nat
  <2>1. IsFiniteSet(1 .. n)
    BY FS_Interval
  <2>2. IsFiniteSet(S)
    BY <2>1, FS_Subset
  <2> QED BY <2>2, FS_CardinalityType
<1>4. \A seq : Selected(seq, S) = [k \in DOMAIN keep |-> seq[keep[k]]]
  BY DEF Selected
<1>5. c = Cardinality(S)
  OBVIOUS
<1> HIDE DEF keep, c
<1>6. \A j, k \in 1 .. c : keep[j] = keep[k] => j = k
  <2> SUFFICES ASSUME NEW j \in 1 .. c, NEW k \in 1 .. c, keep[j] = keep[k], j # k PROVE FALSE
    OBVIOUS
  <2>1. keep[j] \in 1 .. n /\ keep[k] \in 1 .. n
    BY <1>2
  <2>2. j < k \/ k < j
    BY <1>3
  <2> QED BY <1>2, <2>1, <2>2
<1>7. keep \in Injection(1 .. c, S)
  BY <1>2, <1>6 DEF Injection, IsInjective
<1>8. IsFiniteSet(1 .. c) /\ Cardinality(1 .. c) = c
  BY <1>3, FS_Interval
<1>9. keep \in Surjection(1 .. c, S)
  BY <1>3, <1>5, <1>7, <1>8, FS_Injection
<1>10. \A i \in S : \E k \in 1 .. c : keep[k] = i
  BY <1>9 DEF Surjection
<1>11. \A seq : Selected(seq, S) = [k \in 1 .. c |-> seq[keep[k]]]
  BY <1>2, <1>4
<1> QED BY <1>2, <1>3, <1>5, <1>6, <1>10, <1>11 DEF Enumerates

\* SetToSeq has every element.
LEMMA SetToSeqOnto ==
  ASSUME NEW S, IsFiniteSet(S)
  PROVE  \A x \in S : \E i \in DOMAIN SetToSeq(S) : SetToSeq(S)[i] = x
<1> DEFINE c == Cardinality(S)
           f == SetToSeq(S)
<1>1. c \in Nat /\ ExistsBijection(1 .. c, S)
  BY FS_CardinalityType
<1>2. \E g \in [1 .. c -> S] : IsInjective(g)
  BY <1>1 DEF ExistsBijection, Bijection, Injection, IsInjective
<1>3. f \in [1 .. c -> S] /\ IsInjective(f)
  BY <1>2, Zenon DEF SetToSeq
<1>4. c = Cardinality(S) /\ IsFiniteSet(1 .. c) /\ Cardinality(1 .. c) = c
  BY <1>1, FS_Interval
<1> HIDE DEF c, f
<1>5. f \in Injection(1 .. c, S)
  BY <1>3 DEF Injection, IsInjective
<1>6. f \in Surjection(1 .. c, S)
  BY <1>1, <1>4, <1>5, FS_Injection
<1>7. \A x \in S : \E i \in 1 .. c : f[i] = x
  BY <1>6 DEF Surjection
<1> QED BY <1>3, <1>7 DEF f

\* A column has one place.
LEMMA OnePlace ==
  ASSUME NEW cols \in Seq(Columns), IsInjective(cols), NEW i \in DOMAIN cols
  PROVE  Place(cols, cols[i]) = i
<1>1. \A a, b \in DOMAIN cols : cols[a] = cols[b] => a = b
  BY DEF IsInjective
<1> QED BY <1>1 DEF Place

LEMMA PlaceOf ==
  ASSUME NEW cols, NEW c \in ToSet(cols)
  PROVE  Place(cols, c) \in DOMAIN cols /\ cols[Place(cols, c)] = c
<1>1. \E i \in DOMAIN cols : cols[i] = c
  BY DEF ToSet
<1> QED BY <1>1 DEF Place

LEMMA SoundFields ==
  ASSUME NEW table, Sound(table)
  PROVE  /\ table = [cols |-> table.cols, row |-> table.row] /\ table # None
         /\ table.cols \in Seq(Columns) /\ IsInjective(table.cols) /\ Key \in ToSet(table.cols)
         /\ table.row \in Seq(Value) /\ Len(table.row) \in {0, Len(table.cols)}
         /\ Kept(table.cols) \subseteq AllowedColumns /\ Key \in Kept(table.cols)
<1>1. /\ table = [cols |-> table.cols, row |-> table.row] /\ table # None
      /\ table.cols \in Seq(Columns) /\ table.row \in Seq(Value)
      /\ IsInjective(table.cols) /\ Key \in ToSet(table.cols)
      /\ Len(table.row) \in {0, Len(table.cols)}
  BY SchemaAssumption DEF Sound, Table, TableColumns
<1>2. Key \notin ExcludedColumns
  BY SchemaAssumption
<1>3. \A c \in ToSet(table.cols) : c \in Columns
  BY <1>1 DEF ToSet
<1> QED BY <1>1, <1>2, <1>3 DEF Kept, AllowedColumns, ColumnAllowed

\* The projection of a schema has the columns that are kept...
LEMMA ProjectedColumns ==
  ASSUME NEW cols \in Seq(Columns)
  PROVE  ToSet(ProjectSchema(cols)) = Kept(cols)
<1> DEFINE S == Project(cols)
<1>1. Len(cols) \in Nat /\ S \in SUBSET (1 .. Len(cols)) /\ DOMAIN cols = 1 .. Len(cols)
  BY DEF Project
<1>p. PICK keep : Enumerates(keep, S)
  BY <1>1, SelectedPositions
<1>2. /\ keep \in [1 .. Cardinality(S) -> S]
      /\ \A i \in S : \E k \in 1 .. Cardinality(S) : keep[k] = i
      /\ \A seq : Selected(seq, S) = [k \in 1 .. Cardinality(S) |-> seq[keep[k]]]
  BY <1>p DEF Enumerates
<1>3. ProjectSchema(cols) = [k \in 1 .. Cardinality(S) |-> cols[keep[k]]]
  BY <1>2 DEF ProjectSchema
<1>4. ASSUME NEW c \in Kept(cols)
      PROVE  c \in ToSet(ProjectSchema(cols))
  <2>1. PICK i \in DOMAIN cols : cols[i] = c
    BY <1>4 DEF Kept, ToSet
  <2>2. i \in S
    BY <1>4, <2>1 DEF Project, Kept
  <2> HIDE DEF S
  <2>3. PICK k \in 1 .. Cardinality(S) : keep[k] = i
    BY <1>2, <2>2
  <2> QED BY <1>3, <2>1, <2>3 DEF ToSet
<1>5. ASSUME NEW c \in ToSet(ProjectSchema(cols))
      PROVE  c \in Kept(cols)
  <2>1. PICK k \in 1 .. Cardinality(S) : c = cols[keep[k]]
    BY <1>3, <1>5 DEF ToSet
  <2>2. keep[k] \in S
    BY <1>2, <2>1
  <2> QED BY <2>1, <2>2 DEF Project, Kept, ToSet
<1> QED BY <1>4, <1>5

\* ...and the values of a projected row are those of its columns.
LEMMA ProjectedValues ==
  ASSUME NEW cols \in Seq(Columns), IsInjective(cols), NEW row \in Seq(Value), Len(row) = Len(cols)
  PROVE  ByName(ProjectSchema(cols), ProjectRow(cols, row))
           = [c \in Kept(cols) |-> row[Place(cols, c)]]
<1> DEFINE S == Project(cols)
           s == [i \in DOMAIN cols |-> IF i \in DOMAIN row THEN row[i] ELSE Null]
           names == ProjectSchema(cols)
           values == ProjectRow(cols, row)
<1>1. Len(cols) \in Nat /\ S \in SUBSET (1 .. Len(cols)) /\ DOMAIN cols = 1 .. Len(cols)
  BY DEF Project
<1>p. PICK keep : Enumerates(keep, S)
  BY <1>1, SelectedPositions
<1>2. /\ keep \in [1 .. Cardinality(S) -> S]
      /\ \A j, k \in 1 .. Cardinality(S) : keep[j] = keep[k] => j = k
      /\ \A seq : Selected(seq, S) = [k \in 1 .. Cardinality(S) |-> seq[keep[k]]]
  BY <1>p DEF Enumerates
<1>3. \A i \in S : s[i] = row[i] /\ i \in DOMAIN cols
  BY <1>1
<1> HIDE DEF s
<1>4. names = [k \in 1 .. Cardinality(S) |-> cols[keep[k]]]
  BY <1>2 DEF ProjectSchema
<1>5. values = [k \in 1 .. Cardinality(S) |-> s[keep[k]]]
  BY <1>2 DEF ProjectRow, s
<1>6. ToSet(names) = Kept(cols)
  BY ProjectedColumns
<1> HIDE DEF names, values, S
<1>7. ASSUME NEW c \in Kept(cols), NEW p, p = Place(names, c)
      PROVE  p \in DOMAIN values /\ values[p] = row[Place(cols, c)]
  <2>1. p \in DOMAIN names /\ names[p] = c
    BY <1>6, <1>7, PlaceOf
  <2>2. p \in 1 .. Cardinality(S) /\ keep[p] \in S /\ cols[keep[p]] = c
    BY <1>2, <1>4, <2>1
  <2>3. Place(cols, c) = keep[p]
    BY <1>3, <2>2, OnePlace
  <2> QED BY <1>3, <1>5, <2>2, <2>3
<1>8. ByName(names, values)
        = [c \in ToSet(names) |-> IF Place(names, c) \in DOMAIN values
                                  THEN values[Place(names, c)] ELSE Null]
  BY DEF ByName, Place
<1>9. ByName(names, values) = [c \in Kept(cols) |-> row[Place(cols, c)]]
  BY <1>6, <1>7, <1>8
<1> QED BY <1>9 DEF names, values

\* What is loaded of a table is its image: the columns that are kept, with their cells.
LEMMA LoadedIs ==
  ASSUME NEW table, Sound(table)
  PROVE  /\ Loaded(table) = Image(table)
         /\ Loaded(table) \in LocalTable /\ Loaded(table) # None
         /\ Loaded(table).cols = Kept(table.cols)
         /\ ToSet(ProjectSchema(table.cols)) = Kept(table.cols)
         /\ ProjectSchema(table.cols) \in Projected
<1> DEFINE cols == table.cols
           row == table.row
           local == [c \in Kept(cols) |-> Cell(table, c)]
<1>1. /\ table # None /\ cols \in Seq(Columns) /\ IsInjective(cols)
      /\ row \in Seq(Value) /\ Len(row) \in {0, Len(cols)}
      /\ Kept(cols) \subseteq AllowedColumns
  BY SoundFields
<1>2. ToSet(ProjectSchema(cols)) = Kept(cols) /\ ProjectSchema(cols) \in Projected
  BY <1>1, ProjectedColumns, ProjectSchemaType
<1>3. ASSUME row # NoRow
      PROVE  /\ ByName(ProjectSchema(cols), ProjectRow(cols, row)) = local
             /\ local \in [Kept(cols) -> Value]
  <2>1. Len(row) = Len(cols)
    BY <1>1, <1>3 DEF NoRow
  <2>2. ByName(ProjectSchema(cols), ProjectRow(cols, row)) = local
    BY <1>1, <1>3, <2>1, ProjectedValues DEF Cell
  <2>3. \A c \in Kept(cols) : Cell(table, c) \in Value
    <3> SUFFICES ASSUME NEW c \in Kept(cols) PROVE Cell(table, c) \in Value
      OBVIOUS
    <3>1. Place(cols, c) \in DOMAIN cols
      BY PlaceOf DEF Kept
    <3>2. DOMAIN cols = 1 .. Len(cols) /\ DOMAIN row = 1 .. Len(cols)
      BY <1>1, <2>1
    <3> QED BY <1>1, <1>3, <3>1, <3>2 DEF Cell
  <2> QED BY <2>2, <2>3
<1>4. Loaded(table) = Image(table)
  BY <1>1, <1>2, <1>3 DEF Loaded, Image
<1>5. Image(table) \in LocalTables(Value)
  BY <1>1, <1>3, LocalBuilt, ValueSets DEF Image
<1>6. Image(table) \in LocalTable /\ Image(table) # None /\ Image(table).cols = Kept(cols)
  BY <1>5, LocalFields DEF LocalTables, Image
<1> QED BY <1>2, <1>4, <1>6

\* A row as the reader sends it, and stored by name.
LEMMA RowAsLoaded ==
  ASSUME NEW table, Sound(table)
  PROVE  LET cols == table.cols
             sent == IF table.row = NoRow THEN NoRow
                     ELSE ProjectRow(cols, ParseRow(cols, table.row))
             layout == ProjectSchema(cols)
         IN  /\ sent \in Seq(Value)
             /\ Loaded(table) = [cols |-> ToSet(layout),
                                 row |-> IF sent = NoRow THEN None
                                         ELSE Bound(ToSet(layout), layout, sent)]
<1> DEFINE cols == table.cols
           row == table.row
           layout == ProjectSchema(cols)
           sent == IF row = NoRow THEN NoRow ELSE ProjectRow(cols, ParseRow(cols, row))
<1>1. /\ table # None /\ cols \in Seq(Columns) /\ row \in Seq(Value) /\ Key \in Kept(cols)
      /\ Len(row) \in {0, Len(cols)}
  BY SoundFields
<1>2. ParseRow(cols, row) = [i \in DOMAIN cols |-> IF i \in DOMAIN row THEN row[i] ELSE Null]
      /\ DOMAIN ParseRow(cols, row) = DOMAIN cols
  BY DEF ParseRow
<1>3. [i \in DOMAIN cols |-> IF i \in DOMAIN ParseRow(cols, row) THEN ParseRow(cols, row)[i] ELSE Null]
        = [i \in DOMAIN cols |-> IF i \in DOMAIN row THEN row[i] ELSE Null]
  BY <1>2
<1>4. ProjectRow(cols, ParseRow(cols, row)) = ProjectRow(cols, row)
  BY <1>3 DEF ProjectRow
<1>5. ProjectRow(cols, row) \in Seq(Value)
  <2>1. \A i \in Project(cols) : i \in DOMAIN row => row[i] \in Value
    BY <1>1
  <2> QED BY <1>1, <2>1, ProjectRowType DEF Value
<1>6. ProjectRow(cols, row) # NoRow
  <2> DEFINE S == Project(cols)
             s == [i \in DOMAIN cols |-> IF i \in DOMAIN row THEN row[i] ELSE Null]
  <2>1. Len(cols) \in Nat /\ S \in SUBSET (1 .. Len(cols))
    BY <1>1 DEF Project
  <2>p. PICK keep : Enumerates(keep, S)
    BY <2>1, SelectedPositions
  <2>2. /\ keep \in [1 .. Cardinality(S) -> S]
        /\ \A i \in S : \E k \in 1 .. Cardinality(S) : keep[k] = i
        /\ \A seq : Selected(seq, S) = [k \in 1 .. Cardinality(S) |-> seq[keep[k]]]
    BY <2>p DEF Enumerates
  <2>3. PICK i \in S : cols[i] = Key
    <3>1. Place(cols, Key) \in DOMAIN cols /\ cols[Place(cols, Key)] = Key
      BY <1>1, PlaceOf DEF Kept
    <3> QED BY <1>1, <3>1 DEF Project, Kept
  <2> HIDE DEF S, s
  <2>4. ProjectRow(cols, row) = [k \in 1 .. Cardinality(S) |-> s[keep[k]]]
    BY <2>2 DEF ProjectRow, S, s
  <2>5. \E k \in DOMAIN ProjectRow(cols, row) : TRUE
    BY <2>2, <2>4
  <2>6. DOMAIN NoRow = {}
    BY DEF NoRow
  <2> QED BY <2>5, <2>6
<1>7. sent \in Seq(Value) /\ (sent = NoRow <=> row = NoRow)
  BY <1>4, <1>5, <1>6 DEF NoRow
<1>8. row # NoRow => Bound(ToSet(layout), layout, sent) = ByName(layout, ProjectRow(cols, row))
  BY <1>4 DEF Bound, ByName
<1>9. Loaded(table) = [cols |-> ToSet(layout),
                       row |-> IF row = NoRow THEN None ELSE ByName(layout, ProjectRow(cols, row))]
  BY <1>1 DEF Loaded
<1>10. Loaded(table) = [cols |-> ToSet(layout),
                        row |-> IF sent = NoRow THEN None ELSE Bound(ToSet(layout), layout, sent)]
  BY <1>7, <1>8, <1>9
<1> QED BY <1>7, <1>10

-----------------------------------------------------------------------------
\* What the store's operations make of the image of a table.

Local(cols, none, row) == [cols |-> cols, row |-> IF none THEN None ELSE row]

LEMMA LocalSame ==
  ASSUME NEW C, NEW D, NEW a, NEW b, NEW f, NEW g, C = D, a <=> b, ~ a => f = g
  PROVE  Local(C, a, f) = Local(D, b, g)
BY DEF Local

LEMMA LocalParts ==
  ASSUME NEW C \in SUBSET Columns, NEW none \in BOOLEAN, NEW f \in [C -> Value]
  PROVE  /\ Local(C, none, f).cols = C /\ Local(C, none, f) # None
         /\ Local(C, none, f) \in LocalTable
         /\ Local(C, none, f).row = (IF none THEN None ELSE f)
         /\ Local(C, none, f).row = None <=> none
<1>1. f # None
  BY SchemaAssumption
<1>2. Local(C, none, f) \in [cols : {C}, row : [C -> Value] \cup {None}]
  BY DEF Local
<1>3. Local(C, none, f) \in LocalTable
  BY <1>2 DEF LocalTable
<1> QED BY <1>1, <1>3, SchemaAssumption DEF Local

\* Changing the columns of a local table keeps the cells of those that stay.
LEMMA ResizedLocal ==
  ASSUME NEW C \in SUBSET Columns, NEW none \in BOOLEAN, NEW f \in [C -> Value],
         NEW D \in SUBSET Columns
  PROVE  Resized(Local(C, none, f), D)
           = Local(D, none, [d \in D |-> IF d \in C THEN f[d] ELSE Null])
<1> DEFINE table == Local(C, none, f)
<1>1. table.cols = C /\ table.row = (IF none THEN None ELSE f) /\ (table.row = None <=> none)
  BY LocalParts
<1> HIDE DEF table
<1>2. ~ none => [d \in D |-> IF d \in table.cols THEN table.row[d] ELSE Null]
                  = [d \in D |-> IF d \in C THEN f[d] ELSE Null]
  BY <1>1
<1> QED BY <1>1, <1>2 DEF Resized, Local, table

\* Renaming a column keeps the cells.
LEMMA RenamedLocal ==
  ASSUME NEW C \in SUBSET Columns, NEW none \in BOOLEAN, NEW f \in [C -> Value],
         NEW c \in C, NEW new \in Columns \ C
  PROVE  Renamed(Local(C, none, f), c, new)
           = Local((C \ {c}) \cup {new}, none,
                   [d \in (C \ {c}) \cup {new} |-> f[IF d = new THEN c ELSE d]])
<1> DEFINE table == Local(C, none, f)
           D == (C \ {c}) \cup {new}
<1>1. table.cols = C /\ table.row = (IF none THEN None ELSE f) /\ (table.row = None <=> none)
  BY LocalParts
<1> HIDE DEF table
<1>2. Renamed(table, c, new)
        = [cols |-> D, row |-> IF table.row = None THEN None
                               ELSE [d \in D |-> table.row[IF d = new THEN c ELSE d]]]
  BY <1>1 DEF Renamed
<1>3. ~ none => [d \in D |-> table.row[IF d = new THEN c ELSE d]]
                  = [d \in D |-> f[IF d = new THEN c ELSE d]]
  BY <1>1
<1> QED BY <1>1, <1>2, <1>3 DEF Local, table

\* The cells of a table that are kept.
Cells(table) == [c \in Kept(table.cols) |-> Cell(table, c)]

\* The image of a table as a local one.
LEMMA LoadedLocal ==
  ASSUME NEW table, Sound(table)
  PROVE  /\ Loaded(table) = Local(Kept(table.cols), table.row = NoRow, Cells(table))
         /\ Kept(table.cols) \in SUBSET Columns
         /\ Cells(table) \in [Kept(table.cols) -> Value]
<1>1. Loaded(table) = Image(table)
  BY LoadedIs
<1>2. Kept(table.cols) \in SUBSET Columns
  BY SoundFields DEF AllowedColumns
<1>3. \A c \in Kept(table.cols) : Cell(table, c) \in Value
  <2>1. CASE table.row = NoRow
    BY <2>1 DEF Cell, Value
  <2>2. CASE table.row # NoRow
    <3>1. /\ DOMAIN table.cols = 1 .. Len(table.cols) /\ table.row \in Seq(Value)
          /\ Len(table.row) = Len(table.cols)
      BY <2>2, SoundFields DEF NoRow
    <3>2. \A c \in Kept(table.cols) : Place(table.cols, c) \in DOMAIN table.cols
      BY PlaceOf DEF Kept
    <3> QED BY <2>2, <3>1, <3>2 DEF Cell
  <2> QED BY <2>1, <2>2
<1>4. Cells(table) \in [Kept(table.cols) -> Value]
  BY <1>3 DEF Cells
<1> QED BY <1>1, <1>2, <1>4 DEF Image, Local, Cells

-----------------------------------------------------------------------------
\* What an ALTER does to a table of MySQL's, and what the writer makes of it.

RowsAlike(before, after) == before.row = NoRow <=> after.row = NoRow

AddsColumn(c, before, after) ==
  /\ c \in Columns \ ToSet(before.cols) /\ ToSet(after.cols) = ToSet(before.cols) \cup {c}
  /\ RowsAlike(before, after) /\ Cell(after, c) = Null
  /\ \A d \in ToSet(before.cols) : Cell(after, d) = Cell(before, d)

DropsColumn(c, before, after) ==
  /\ c \in ToSet(before.cols) /\ ToSet(after.cols) = ToSet(before.cols) \ {c}
  /\ RowsAlike(before, after)
  /\ \A d \in ToSet(after.cols) : Cell(after, d) = Cell(before, d)

RenamesColumn(names, before, after) ==
  /\ names \in ColumnRenames
  /\ names[1] \in ToSet(before.cols) /\ names[2] \in Columns \ ToSet(before.cols)
  /\ ToSet(after.cols) = (ToSet(before.cols) \ {names[1]}) \cup {names[2]}
  /\ RowsAlike(before, after) /\ Cell(after, names[2]) = Cell(before, names[1])
  /\ \A d \in ToSet(before.cols) \ {names[1]} : Cell(after, d) = Cell(before, d)

\* The columns of an ALTER event, and the layout it finds.
AlterOf(e, layout, before, after) ==
  /\ Sound(before) /\ Sound(after)
  /\ layout = ProjectSchema(before.cols) /\ e.new = ProjectSchema(after.cols)

\* The store's table becomes the image of the altered one.
Follows(e, layout, before, after) ==
  /\ NoOperation(e, layout) => Loaded(after) = Loaded(before)
  /\ ~ NoOperation(e, layout) => Altered(e, Loaded(before), layout) = Loaded(after)

LEMMA AlterNames ==
  ASSUME NEW e, NEW layout, NEW before, NEW after, AlterOf(e, layout, before, after)
  PROVE  /\ layout # None /\ ToSet(layout) = Kept(before.cols) /\ ToSet(e.new) = Kept(after.cols)
         /\ Loaded(before) # None /\ Loaded(before).cols = Kept(before.cols)
<1>1. layout \in Projected
  BY LoadedIs DEF AlterOf
<1>2. Projected \subseteq Seq(Columns)
  BY SeqWiden DEF Projected, AllowedColumns
<1> QED BY <1>1, <1>2, LoadedIs, SchemaAssumption DEF AlterOf

\* The translation is completed with nothing when it has the columns of the target.
LEMMA NothingMissing ==
  ASSUME NEW e, NEW layout, NEW before, NEW after, AlterOf(e, layout, before, after),
         Translated(e, Loaded(before), layout) = Loaded(after)
  PROVE  Altered(e, Loaded(before), layout) = Loaded(after)
<1> DEFINE C == Kept(after.cols)
           f == Cells(after)
           none == after.row = NoRow
<1>1. Loaded(after) = Local(C, none, f) /\ C \in SUBSET Columns /\ f \in [C -> Value]
  BY LoadedLocal DEF AlterOf
<1>2. Loaded(after).cols = C /\ Loaded(after) # None /\ ToSet(e.new) = C
  BY AlterNames, LoadedIs DEF AlterOf
<1>3. none \in BOOLEAN
  OBVIOUS
<1> HIDE DEF C, f, none
<1>4. C \cup (ToSet(e.new) \ Loaded(before).cols) = C
  BY <1>2
<1>5. [d \in C |-> IF d \in C THEN f[d] ELSE Null] = f
  BY <1>1
<1>6. Resized(Loaded(after), C) = Loaded(after)
  BY <1>1, <1>3, <1>5, ResizedLocal
<1> QED BY <1>2, <1>4, <1>6, AlterNames DEF Altered

LEMMA KeptOf ==
  ASSUME NEW cols
  PROVE  \A c : c \in Kept(cols) <=> c \in ToSet(cols) /\ ColumnAllowed(c)
BY DEF Kept

\* ADD COLUMN: what the writer does makes the image of the table before that of the one after.
LEMMA FollowsAdd ==
  ASSUME NEW e, NEW layout, NEW before, NEW after, AlterOf(e, layout, before, after),
         e.kind = "addColumn", AddsColumn(e.arg, before, after)
  PROVE  Follows(e, layout, before, after)
<1> DEFINE C == Kept(before.cols)
           D == Kept(after.cols)
           f == Cells(before)
           g == Cells(after)
           a == before.row = NoRow
           b == after.row = NoRow
           c == e.arg
<1>1. /\ Loaded(before) = Local(C, a, f) /\ C \in SUBSET Columns /\ f \in [C -> Value]
      /\ Loaded(after) = Local(D, b, g) /\ D \in SUBSET Columns /\ g \in [D -> Value]
      /\ a \in BOOLEAN /\ (a <=> b)
  BY LoadedLocal DEF AlterOf, AddsColumn, RowsAlike
<1>2. layout # None /\ ToSet(layout) = C /\ ToSet(e.new) = D /\ Loaded(before).cols = C
      /\ Loaded(before) # None
  BY AlterNames
<1>3. c \notin C /\ (\A d : d \in D <=> d \in C \/ (d = c /\ ColumnAllowed(c)))
  BY KeptOf DEF AddsColumn
<1>4. \A d \in D : g[d] = IF d \in C THEN f[d] ELSE Null
  <2>1. \A d \in D : g[d] = Cell(after, d)
    BY DEF Cells
  <2>2. \A d \in C : f[d] = Cell(before, d) /\ d \in ToSet(before.cols)
    BY KeptOf DEF Cells
  <2> QED BY <1>3, <2>1, <2>2 DEF AddsColumn
<1>5. g = [d \in D |-> IF d \in C THEN f[d] ELSE Null]
  BY <1>1, <1>4
<1>6. Direct(e, layout) <=> c \in D
  BY <1>2 DEF Direct
<1> HIDE DEF C, D, f, g, a, b, c
<1>7. CASE ColumnAllowed(c)
  <2>1. D = C \cup {c} /\ c \in D
    BY <1>3, <1>7
  <2>2. ~ NoOperation(e, layout)
    BY <1>6, <2>1 DEF NoOperation
  <2>3. Translated(e, Loaded(before), layout) = Added(Loaded(before), c)
    BY <1>6, <2>1 DEF Translated, c
  <2>4. Added(Loaded(before), c) = Resized(Loaded(before), D)
    BY <1>2, <1>3, <2>1 DEF Added
  <2>5. Resized(Loaded(before), D) = Local(D, a, g)
    BY <1>1, <1>5, ResizedLocal
  <2>6. Local(D, a, g) = Local(D, b, g)
    BY <1>1, LocalSame
  <2>7. Translated(e, Loaded(before), layout) = Loaded(after)
    BY <1>1, <2>3, <2>4, <2>5, <2>6
  <2> QED BY <2>2, <2>7, NothingMissing DEF Follows
<1>8. CASE ~ ColumnAllowed(c)
  <2>1. D = C /\ c \notin D
    BY <1>3, <1>8
  <2>2. NoOperation(e, layout)
    BY <1>2, <1>6, <2>1 DEF NoOperation
  <2>3. g = f
    BY <1>1, <1>5, <2>1
  <2>4. Local(C, a, f) = Local(D, b, g)
    BY <1>1, <2>1, <2>3, LocalSame
  <2> QED BY <1>1, <2>2, <2>4 DEF Follows
<1> QED BY <1>7, <1>8

\* DROP COLUMN, likewise.
LEMMA FollowsDrop ==
  ASSUME NEW e, NEW layout, NEW before, NEW after, AlterOf(e, layout, before, after),
         e.kind = "dropColumn", DropsColumn(e.arg, before, after)
  PROVE  Follows(e, layout, before, after)
<1> DEFINE C == Kept(before.cols)
           D == Kept(after.cols)
           f == Cells(before)
           g == Cells(after)
           a == before.row = NoRow
           b == after.row = NoRow
           c == e.arg
<1>1. /\ Loaded(before) = Local(C, a, f) /\ C \in SUBSET Columns /\ f \in [C -> Value]
      /\ Loaded(after) = Local(D, b, g) /\ D \in SUBSET Columns /\ g \in [D -> Value]
      /\ a \in BOOLEAN /\ (a <=> b)
  BY LoadedLocal DEF AlterOf, DropsColumn, RowsAlike
<1>2. layout # None /\ ToSet(layout) = C /\ ToSet(e.new) = D /\ Loaded(before).cols = C
      /\ Loaded(before) # None
  BY AlterNames
<1>3. D = C \ {c}
  BY KeptOf DEF DropsColumn
<1>4. \A d \in D : g[d] = f[d]
  <2>1. \A d \in D : g[d] = Cell(after, d) /\ d \in ToSet(after.cols)
    BY KeptOf DEF Cells
  <2>2. \A d \in C : f[d] = Cell(before, d)
    BY DEF Cells
  <2> QED BY <1>3, <2>1, <2>2 DEF DropsColumn
<1>5. g = [d \in D |-> IF d \in C THEN f[d] ELSE Null]
  BY <1>1, <1>3, <1>4
<1>6. Direct(e, layout) <=> c \in C
  BY <1>2 DEF Direct
<1> HIDE DEF C, D, f, g, a, b, c
<1>7. CASE c \in C
  <2>2. ~ NoOperation(e, layout)
    BY <1>6, <1>7 DEF NoOperation
  <2>3. Translated(e, Loaded(before), layout) = Dropped(Loaded(before), c)
    BY <1>6, <1>7 DEF Translated, c
  <2>4. Dropped(Loaded(before), c) = Resized(Loaded(before), D)
    BY <1>2, <1>3, <1>7 DEF Dropped
  <2>5. Resized(Loaded(before), D) = Local(D, a, g)
    BY <1>1, <1>5, ResizedLocal
  <2>6. Local(D, a, g) = Local(D, b, g)
    BY <1>1, LocalSame
  <2>7. Translated(e, Loaded(before), layout) = Loaded(after)
    BY <1>1, <2>3, <2>4, <2>5, <2>6
  <2> QED BY <2>2, <2>7, NothingMissing DEF Follows
<1>8. CASE c \notin C
  <2>1. D = C
    BY <1>3, <1>8
  <2>2. NoOperation(e, layout)
    BY <1>2, <1>6, <1>8, <2>1 DEF NoOperation
  <2>3. g = f
    BY <1>1, <1>5, <2>1
  <2>4. Local(C, a, f) = Local(D, b, g)
    BY <1>1, <2>1, <2>3, LocalSame
  <2> QED BY <1>1, <2>2, <2>4 DEF Follows
<1> QED BY <1>7, <1>8

\* A column whose new name the filter lets through had a name it lets through.
RenamesAllowed ==
  \A names \in ColumnRenames : ColumnAllowed(names[2]) => ColumnAllowed(names[1])

\* RENAME COLUMN, likewise, also where one of the names is left out.
LEMMA FollowsRename ==
  ASSUME RenamesAllowed,
         NEW e, NEW layout, NEW before, NEW after, AlterOf(e, layout, before, after),
         e.kind = "renameColumn", RenamesColumn(e.arg, before, after)
  PROVE  Follows(e, layout, before, after)
<1> DEFINE C == Kept(before.cols)
           D == Kept(after.cols)
           f == Cells(before)
           g == Cells(after)
           a == before.row = NoRow
           b == after.row = NoRow
           old == e.arg[1]
           new == e.arg[2]
<1>1. /\ Loaded(before) = Local(C, a, f) /\ C \in SUBSET Columns /\ f \in [C -> Value]
      /\ Loaded(after) = Local(D, b, g) /\ D \in SUBSET Columns /\ g \in [D -> Value]
      /\ a \in BOOLEAN /\ (a <=> b)
  BY LoadedLocal DEF AlterOf, RenamesColumn, RowsAlike
<1>2. layout # None /\ ToSet(layout) = C /\ ToSet(e.new) = D /\ Loaded(before).cols = C
      /\ Loaded(before) # None
  BY AlterNames
<1>3. /\ new \notin C /\ new \in Columns /\ (old \in C <=> ColumnAllowed(old)) /\ new # old
      /\ ColumnAllowed(new) => ColumnAllowed(old)
      /\ \A d : d \in D <=> (d \in C /\ d # old) \/ (d = new /\ ColumnAllowed(new))
  BY KeptOf DEF RenamesColumn, RenamesAllowed
<1>4. /\ \A d \in D \ {new} : g[d] = f[d]
      /\ new \in D => g[new] = f[old]
  <2>1. \A d \in D : g[d] = Cell(after, d)
    BY DEF Cells
  <2>2. \A d \in C : f[d] = Cell(before, d) /\ d \in ToSet(before.cols)
    BY KeptOf DEF Cells
  <2> QED BY <1>3, <2>1, <2>2 DEF RenamesColumn
<1>5. Direct(e, layout) <=> old \in C /\ new \in D
  BY <1>2 DEF Direct
<1> HIDE DEF C, D, f, g, a, b, old, new
<1>6. CASE ColumnAllowed(new)
  <2>1. D = (C \ {old}) \cup {new} /\ old \in C /\ new \in D
    BY <1>3, <1>6
  <2>2. ~ NoOperation(e, layout)
    BY <1>5, <2>1 DEF NoOperation
  <2>3. Translated(e, Loaded(before), layout) = Renamed(Loaded(before), old, new)
    BY <1>5, <2>1 DEF Translated, old, new
  <2>4. Renamed(Loaded(before), old, new) = Local(D, a, [d \in D |-> f[IF d = new THEN old ELSE d]])
    BY <1>1, <1>3, <2>1, RenamedLocal
  <2>5. g = [d \in D |-> f[IF d = new THEN old ELSE d]]
    BY <1>1, <1>4, <2>1
  <2>6. Local(D, a, g) = Local(D, b, g)
    BY <1>1, LocalSame
  <2>7. Translated(e, Loaded(before), layout) = Loaded(after)
    BY <1>1, <2>3, <2>4, <2>5, <2>6
  <2> QED BY <2>2, <2>7, NothingMissing DEF Follows
<1>7. CASE ~ ColumnAllowed(new) /\ old \in C
  <2>1. D = C \ {old} /\ ~ Direct(e, layout) /\ D # C
    BY <1>3, <1>5, <1>7
  <2>2. ~ NoOperation(e, layout)
    BY <1>2, <2>1 DEF NoOperation
  <2>3. Translated(e, Loaded(before), layout) = DiffSchema(Loaded(before), layout, e.new)
    BY <2>1 DEF Translated
  <2>4. (C \cup (D \ C)) \ (C \ D) = D
    BY <2>1
  <2>5. DiffSchema(Loaded(before), layout, e.new) = Resized(Loaded(before), D)
    BY <1>2, <2>4 DEF DiffSchema
  <2>6. g = [d \in D |-> IF d \in C THEN f[d] ELSE Null]
    BY <1>1, <1>3, <1>4, <2>1
  <2>7. Resized(Loaded(before), D) = Local(D, a, g)
    BY <1>1, <2>6, ResizedLocal
  <2>8. Local(D, a, g) = Local(D, b, g)
    BY <1>1, LocalSame
  <2>9. Translated(e, Loaded(before), layout) = Loaded(after)
    BY <1>1, <2>3, <2>5, <2>7, <2>8
  <2> QED BY <2>2, <2>9, NothingMissing DEF Follows
<1>8. CASE ~ ColumnAllowed(new) /\ old \notin C
  <2>1. D = C
    BY <1>3, <1>8
  <2>2. NoOperation(e, layout)
    BY <1>2, <1>5, <1>8, <2>1 DEF NoOperation
  <2>3. g = f
    BY <1>1, <1>3, <1>4, <2>1
  <2>4. Local(C, a, f) = Local(D, b, g)
    BY <1>1, <2>1, <2>3, LocalSame
  <2> QED BY <1>1, <2>2, <2>4 DEF Follows
<1> QED BY <1>6, <1>7, <1>8

\* An ALTER that leaves the columns alone.
LEMMA FollowsOther ==
  ASSUME NEW e, NEW layout, NEW before, NEW after, AlterOf(e, layout, before, after),
         e.kind = "other", after = before
  PROVE  Follows(e, layout, before, after)
<1>1. ToSet(layout) = ToSet(e.new) /\ ~ Direct(e, layout)
  BY AlterNames DEF Direct
<1> QED BY <1>1 DEF Follows, NoOperation

\* What an ALTER does, of any kind.
AlterEffect(e, before, after) ==
  /\ e.kind = "addColumn" => AddsColumn(e.arg, before, after)
  /\ e.kind = "dropColumn" => DropsColumn(e.arg, before, after)
  /\ e.kind = "renameColumn" => RenamesColumn(e.arg, before, after)
  /\ e.kind = "other" => after = before

\* The store takes an ALTER and makes of it what MySQL made of it.
LEMMA AlterTaken ==
  ASSUME RenamesAllowed, NEW e, e.kind \in Alters, NEW t \in Tables, e.table = t,
         NEW view \in [Tables -> LocalTable \cup {None}], NEW lays, NEW before, NEW after,
         AlterOf(e, lays[t], before, after), AlterEffect(e, before, after),
         view[t] = Loaded(before)
  PROVE  /\ Taken(e, view, lays) # None
         /\ Taken(e, view, lays) = [view EXCEPT ![t] = Loaded(after)]
<1>1. Follows(e, lays[t], before, after)
  BY FollowsAdd, FollowsDrop, FollowsRename, FollowsOther DEF Alters, AlterEffect
<1>2. lays[t] # None /\ Loaded(after) # None /\ Loaded(after) \in LocalTable
  BY AlterNames, LoadedIs DEF AlterOf
<1>3. Taken(e, view, lays)
        = IF NoOperation(e, lays[t]) THEN view
          ELSE IF Altered(e, view[t], lays[t]) = None THEN None
          ELSE [view EXCEPT ![t] = Altered(e, view[t], lays[t])]
  BY <1>2 DEF Taken, Alters
<1>4. Taken(e, view, lays) = [view EXCEPT ![t] = Loaded(after)]
  <2>1. CASE NoOperation(e, lays[t])
    BY <1>1, <1>3, <2>1 DEF Follows
  <2>2. CASE ~ NoOperation(e, lays[t])
    BY <1>1, <1>2, <1>3, <2>2 DEF Follows
  <2> QED BY <2>1, <2>2
<1>5. [view EXCEPT ![t] = Loaded(after)] \in [Tables -> LocalTable \cup {None}]
  BY <1>2
<1> QED BY <1>4, <1>5, SchemaAssumption

LEMMA LocalTableFields ==
  ASSUME NEW table \in LocalTable
  PROVE  /\ table = [cols |-> table.cols, row |-> table.row] /\ table # None
         /\ \A row : [table EXCEPT !.row = row] = [cols |-> table.cols, row |-> row]
<1>1. PICK cols \in SUBSET Columns : table \in [cols : {cols}, row : [cols -> Value] \cup {None}]
  BY DEF LocalTable
<1>2. table = [cols |-> table.cols, row |-> table.row]
  BY <1>1
<1>3. \A row : [table EXCEPT !.row = row] = [cols |-> table.cols, row |-> row]
  BY <1>2
<1> QED BY <1>2, <1>3, SchemaAssumption

\* A schema event completes a table that has the columns with nothing.
LEMMA CompletedSame ==
  ASSUME NEW table, Sound(table), NEW cols, ToSet(cols) = Kept(table.cols)
  PROVE  Completed(Created(Loaded(table), cols), cols) = Loaded(table)
<1> DEFINE C == Kept(table.cols)
           f == Cells(table)
           none == table.row = NoRow
<1>1. Loaded(table) = Local(C, none, f) /\ C \in SUBSET Columns /\ f \in [C -> Value]
      /\ Loaded(table) # None /\ Loaded(table).cols = C /\ none \in BOOLEAN /\ ToSet(cols) = C
  BY LoadedLocal, LoadedIs
<1> HIDE DEF C, f, none
<1>2. Created(Loaded(table), cols) = Loaded(table)
  BY <1>1 DEF Created
<1>3. Completed(Loaded(table), cols) = Resized(Loaded(table), C)
  BY <1>1 DEF Completed
<1>4. [d \in C |-> IF d \in C THEN f[d] ELSE Null] = f
  BY <1>1
<1>5. Resized(Loaded(table), C) = Loaded(table)
  BY <1>1, <1>4, ResizedLocal
<1> QED BY <1>2, <1>3, <1>5

\* It creates the table of a CREATE TABLE.
LEMMA CompletedNew ==
  ASSUME NEW table, Sound(table), table.row = NoRow
  PROVE  LET cols == ProjectSchema(table.cols)
         IN  Completed(Created(None, cols), cols) = Loaded(table)
<1> DEFINE cols == ProjectSchema(table.cols)
           C == Kept(table.cols)
<1>1. Loaded(table) = [cols |-> C, row |-> None] /\ ToSet(cols) = C
  BY LoadedIs DEF Image
<1> HIDE DEF cols, C
<1>2. Created(None, cols) = [cols |-> C, row |-> None]
  BY <1>1 DEF Created
<1>3. Completed([cols |-> C, row |-> None], cols) = [cols |-> C, row |-> None]
  BY <1>1 DEF Completed, Resized
<1> QED BY <1>1, <1>2, <1>3 DEF cols

\* TRUNCATE leaves the table without its row.
LEMMA EmptiedLoaded ==
  ASSUME NEW table \in LocalTable, NEW after, Sound(after), after.row = NoRow,
         table.cols = ToSet(ProjectSchema(after.cols))
  PROVE  [table EXCEPT !.row = None] = Loaded(after)
<1>1. Loaded(after) = [cols |-> table.cols, row |-> None]
  BY LoadedIs DEF Image
<1> QED BY <1>1, LocalTableFields

\* What the store makes of a row of a table with a layout, or without one.
RowStored(table, layout, row) ==
  IF layout = None THEN table
  ELSE [table EXCEPT !.row = IF row = NoRow THEN None ELSE Bound(table.cols, layout, row)]

\* A row parsed with the columns it was written with and stored under their layout makes the table
\* the image of MySQL's.
LEMMA RowStoredLoaded ==
  ASSUME NEW table \in LocalTable, NEW after, Sound(after),
         NEW layout, layout = ProjectSchema(after.cols), table.cols = ToSet(layout),
         NEW sent,
         sent = IF after.row = NoRow THEN NoRow
                ELSE ProjectRow(after.cols, ParseRow(after.cols, after.row))
  PROVE  RowStored(table, layout, sent) = Loaded(after) /\ sent \in Seq(Value)
<1>1. /\ sent \in Seq(Value)
      /\ Loaded(after) = [cols |-> ToSet(layout),
                          row |-> IF sent = NoRow THEN None
                                  ELSE Bound(ToSet(layout), layout, sent)]
  BY RowAsLoaded
<1>2. layout # None
  <2>1. layout \in Projected
    BY LoadedIs
  <2>2. Projected \subseteq Seq(Columns)
    BY SeqWiden DEF Projected, AllowedColumns
  <2> QED BY <2>1, <2>2, SchemaAssumption
<1>3. RowStored(table, layout, sent)
        = [cols |-> table.cols,
           row |-> IF sent = NoRow THEN None ELSE Bound(table.cols, layout, sent)]
  BY <1>2, LocalTableFields DEF RowStored
<1> QED BY <1>1, <1>3

\* What is selected of one element.
LEMMA SelectedOne ==
  ASSUME NEW x, NEW S \in SUBSET {1}
  PROVE  Selected(<<x>>, S) = IF 1 \in S THEN <<x>> ELSE <<>>
<1>1. S \in SUBSET (1 .. 1) /\ 1 \in Nat
  OBVIOUS
<1>2. PICK keep : Enumerates(keep, S)
  BY <1>1, SelectedPositions
<1>3. /\ keep \in [1 .. Cardinality(S) -> S]
      /\ Selected(<<x>>, S) = [k \in 1 .. Cardinality(S) |-> <<x>>[keep[k]]]
  BY <1>2 DEF Enumerates
<1>4. CASE 1 \in S
  <2>1. S = {1}
    BY <1>4
  <2>2. Cardinality(S) = 1
    BY <2>1, FS_Singleton
  <2>3. \A k \in 1 .. 1 : keep[k] = 1
    BY <1>3, <2>1, <2>2
  <2>4. Selected(<<x>>, S) = [k \in 1 .. 1 |-> x]
    BY <1>3, <2>2, <2>3
  <2> QED BY <1>4, <2>4
<1>5. CASE 1 \notin S
  <2>1. S = {}
    BY <1>5
  <2>2. Cardinality(S) = 0
    BY <2>1, FS_EmptySet
  <2>3. Selected(<<x>>, S) = [k \in 1 .. 0 |-> <<x>>[keep[k]]]
    BY <1>3, <2>2
  <2> QED BY <1>5, <2>3
<1> QED BY <1>4, <1>5

-----------------------------------------------------------------------------
\* What MySQL's statements do to the columns and the row of a table.

LEMMA InsertedAt ==
  ASSUME NEW V, NEW s \in Seq(V), NEW v \in V, NEW i \in 1 .. Len(s) + 1
  PROVE  \A j \in 1 .. Len(s) + 1 :
           InsertAt(s, i, v)[j] = IF j < i THEN s[j] ELSE IF j = i THEN v ELSE s[j - 1]
<1> DEFINE a == SubSeq(s, 1, i - 1)
           b == SubSeq(s, i, Len(s))
<1>1. Len(s) \in Nat /\ i \in Nat
  OBVIOUS
<1>2. /\ a \in Seq(V) /\ Len(a) = i - 1 /\ \A j \in 1 .. i - 1 : a[j] = s[j]
      /\ b \in Seq(V) /\ Len(b) = Len(s) - i + 1 /\ \A j \in 1 .. Len(s) - i + 1 : b[j] = s[i + j - 1]
  <2>1. /\ a \in Seq(V) /\ Len(a) = i - 1
        /\ b \in Seq(V) /\ Len(b) = Len(s) - i + 1
    BY <1>1, SubSeqProperties
  <2>2. \A j \in 1 .. i - 1 : a[j] = s[j]
    BY <1>1, SubSeqProperties
  <2>3. \A j \in 1 .. Len(s) - i + 1 : b[j] = s[i + j - 1]
    BY <1>1, SubSeqProperties
  <2> QED BY <2>1, <2>2, <2>3
<1>3. InsertAt(s, i, v) = (a \o <<v>>) \o b
  BY DEF InsertAt
<1> HIDE DEF a, b
<1>4. /\ a \o <<v>> \in Seq(V) /\ Len(a \o <<v>>) = i
      /\ \A j \in 1 .. i : (a \o <<v>>)[j] = IF j < i THEN a[j] ELSE v
  BY <1>1, <1>2
<1>5. \A j \in 1 .. Len(s) + 1 :
        ((a \o <<v>>) \o b)[j] = IF j <= i THEN (a \o <<v>>)[j] ELSE b[j - i]
  BY <1>1, <1>2, <1>4
<1>6. ASSUME NEW j \in 1 .. Len(s) + 1
      PROVE  InsertAt(s, i, v)[j] = IF j < i THEN s[j] ELSE IF j = i THEN v ELSE s[j - 1]
  <2>1. CASE j < i
    BY <1>1, <1>2, <1>3, <1>4, <1>5, <2>1
  <2>2. CASE j = i
    BY <1>1, <1>3, <1>4, <1>5, <2>2
  <2>3. CASE j > i
    <3>1. j - i \in 1 .. Len(s) - i + 1 /\ i + (j - i) - 1 = j - 1
      BY <1>1, <2>3
    <3>2. b[j - i] = s[j - 1]
      BY <1>2, <3>1
    <3>3. ~ (j <= i) /\ ~ (j < i) /\ j # i
      BY <1>1, <2>3
    <3>4. InsertAt(s, i, v)[j] = b[j - i]
      BY <1>3, <1>5, <3>3
    <3> QED BY <3>2, <3>3, <3>4
  <2> QED BY <1>1, <2>1, <2>2, <2>3
<1> QED BY <1>6

LEMMA RemovedAt ==
  ASSUME NEW V, NEW s \in Seq(V), NEW i \in 1 .. Len(s)
  PROVE  \A j \in 1 .. Len(s) - 1 : RemoveAt(s, i)[j] = IF j < i THEN s[j] ELSE s[j + 1]
<1> DEFINE a == SubSeq(s, 1, i - 1)
           b == SubSeq(s, i + 1, Len(s))
<1>1. Len(s) \in Nat /\ i \in Nat
  OBVIOUS
<1>2. /\ a \in Seq(V) /\ Len(a) = i - 1 /\ \A j \in 1 .. i - 1 : a[j] = s[j]
      /\ b \in Seq(V) /\ Len(b) = Len(s) - i /\ \A j \in 1 .. Len(s) - i : b[j] = s[i + j]
  <2>1. /\ a \in Seq(V) /\ Len(a) = i - 1
        /\ b \in Seq(V) /\ Len(b) = Len(s) - i
    BY <1>1, SubSeqProperties
  <2>2. \A j \in 1 .. i - 1 : a[j] = s[j]
    BY <1>1, SubSeqProperties
  <2>3. \A j \in 1 .. Len(s) - i : b[j] = s[(i + 1) + j - 1]
    BY <1>1, SubSeqProperties
  <2>4. \A j \in 1 .. Len(s) - i : (i + 1) + j - 1 = i + j
    BY <1>1
  <2> QED BY <2>1, <2>2, <2>3, <2>4
<1>3. RemoveAt(s, i) = a \o b
  BY DEF RemoveAt
<1> HIDE DEF a, b
<1>4. \A j \in 1 .. Len(s) - 1 : (a \o b)[j] = IF j < i THEN a[j] ELSE b[j - (i - 1)]
  BY <1>1, <1>2
<1>5. ASSUME NEW j \in 1 .. Len(s) - 1
      PROVE  RemoveAt(s, i)[j] = IF j < i THEN s[j] ELSE s[j + 1]
  <2>1. CASE j < i
    BY <1>1, <1>2, <1>3, <1>4, <2>1
  <2>2. CASE ~ (j < i)
    <3>1. j - (i - 1) \in 1 .. Len(s) - i /\ i + (j - (i - 1)) = j + 1
      BY <1>1, <2>2
    <3>2. b[j - (i - 1)] = s[j + 1]
      BY <1>2, <3>1
    <3> QED BY <1>1, <1>3, <1>4, <2>2, <3>2
  <2> QED BY <2>1, <2>2
<1> QED BY <1>5

\* The columns of a table, by their places.
LEMMA Places ==
  ASSUME NEW cols \in Seq(Columns), IsInjective(cols), NEW c
  PROVE  /\ c \in ToSet(cols) => /\ Place(cols, c) \in 1 .. Len(cols)
                                /\ cols[Place(cols, c)] = c
         /\ \A i \in 1 .. Len(cols) : cols[i] = c => c \in ToSet(cols) /\ Place(cols, c) = i
<1>1. DOMAIN cols = 1 .. Len(cols)
  OBVIOUS
<1>2. \A i \in 1 .. Len(cols) : cols[i] = c => c \in ToSet(cols) /\ Place(cols, c) = i
  BY <1>1, OnePlace DEF ToSet
<1> QED BY <1>1, <1>2, PlaceOf

\* Places before and behind an element that is inserted at i.
Ahead(i, p) == IF p < i THEN p ELSE p + 1

Back(i, j) == IF j < i THEN j ELSE j - 1

LEMMA Shifts ==
  ASSUME NEW n \in Nat, NEW i \in 1 .. n + 1
  PROVE  /\ \A p \in 1 .. n : Ahead(i, p) \in (1 .. n + 1) \ {i} /\ Back(i, Ahead(i, p)) = p
         /\ \A j \in (1 .. n + 1) \ {i} : Back(i, j) \in 1 .. n
         /\ \A j, k \in (1 .. n + 1) \ {i} : Back(i, j) = Back(i, k) => j = k
BY DEF Ahead, Back

\* new is s with v at place i.
Inserts(V, s, n, i, v, new) ==
  /\ new \in Seq(V) /\ Len(new) = n + 1 /\ n \in Nat /\ DOMAIN new = 1 .. n + 1
  /\ new[i] = v /\ \A j \in (1 .. n + 1) \ {i} : new[j] = s[Back(i, j)]
  /\ \A p \in 1 .. n : new[Ahead(i, p)] = s[p]

\* InsertAt shifts what is behind the position, and loses nothing.
LEMMA InsertedBack ==
  ASSUME NEW V, NEW s \in Seq(V), NEW v \in V, NEW n, n = Len(s), NEW i \in 1 .. n + 1
  PROVE  Inserts(V, s, n, i, v, InsertAt(s, i, v))
<1> DEFINE new == InsertAt(s, i, v)
<1>1. new \in Seq(V) /\ Len(new) = n + 1 /\ n \in Nat
  BY InsertAtElements
<1>2. \A j \in 1 .. n + 1 : new[j] = IF j < i THEN s[j] ELSE IF j = i THEN v ELSE s[j - 1]
  BY InsertedAt
<1>3. new[i] = v /\ \A j \in (1 .. n + 1) \ {i} : new[j] = s[Back(i, j)]
  <2>1. ~ (i < i)
    BY <1>1
  <2> QED BY <1>2, <2>1 DEF Back
<1>4. \A p \in 1 .. n : Ahead(i, p) \in (1 .. n + 1) \ {i} /\ Back(i, Ahead(i, p)) = p
  BY <1>1, Shifts
<1>5. \A p \in 1 .. n : new[Ahead(i, p)] = s[p]
  BY <1>3, <1>4
<1>6. DOMAIN new = 1 .. n + 1
  BY <1>1
<1> HIDE DEF new
<1>7. Inserts(V, s, n, i, v, new)
  BY <1>1, <1>3, <1>5, <1>6 DEF Inserts
<1> QED BY <1>7 DEF new

\* The columns with one more among them.
LEMMA InsertedColumns ==
  ASSUME NEW s \in Seq(Columns), IsInjective(s), NEW c \in Columns \ ToSet(s),
         NEW n, n = Len(s), NEW i \in 1 .. n + 1, NEW new, Inserts(Columns, s, n, i, c, new)
  PROVE  /\ IsInjective(new) /\ ToSet(new) = ToSet(s) \cup {c} /\ Place(new, c) = i
         /\ \A d \in ToSet(s) : Place(s, d) \in 1 .. n /\ Place(new, d) = Ahead(i, Place(s, d))
<1>1. /\ new \in Seq(Columns) /\ Len(new) = n + 1 /\ n \in Nat /\ DOMAIN new = 1 .. n + 1
      /\ new[i] = c /\ \A j \in (1 .. n + 1) \ {i} : new[j] = s[Back(i, j)]
      /\ \A p \in 1 .. n : new[Ahead(i, p)] = s[p]
  BY DEF Inserts
<1>2. /\ \A p \in 1 .. n : Ahead(i, p) \in (1 .. n + 1) \ {i}
      /\ \A j \in (1 .. n + 1) \ {i} : Back(i, j) \in 1 .. n
      /\ \A j, k \in (1 .. n + 1) \ {i} : Back(i, j) = Back(i, k) => j = k
  BY <1>1, Shifts
<1>3. DOMAIN s = 1 .. n /\ i \in 1 .. n + 1
  OBVIOUS
<1>4. \A j \in (1 .. n + 1) \ {i} : new[j] \in ToSet(s)
  BY <1>1, <1>2, <1>3 DEF ToSet
<1>5. IsInjective(new)
  <2>1. ASSUME NEW a \in 1 .. n + 1, NEW b \in 1 .. n + 1, new[a] = new[b]
        PROVE  a = b
    <3>1. CASE a = i \/ b = i
      BY <1>1, <1>4, <2>1, <3>1
    <3>2. CASE a # i /\ b # i
      <4>1. s[Back(i, a)] = s[Back(i, b)] /\ Back(i, a) \in 1 .. n /\ Back(i, b) \in 1 .. n
        BY <1>1, <1>2, <2>1, <3>2
      <4>2. Back(i, a) = Back(i, b)
        BY <1>3, <4>1 DEF IsInjective
      <4> QED BY <1>2, <3>2, <4>2
    <3> QED BY <3>1, <3>2
  <2> QED BY <1>1, <2>1 DEF IsInjective
<1>6. c \in ToSet(new) /\ Place(new, c) = i
  BY <1>1, <1>3, <1>5, Places
<1>7. ASSUME NEW d \in ToSet(s), NEW p, p = Place(s, d)
      PROVE  p \in 1 .. n /\ d \in ToSet(new) /\ Place(new, d) = Ahead(i, p)
  <2>1. p \in 1 .. n /\ s[p] = d
    BY <1>7, Places
  <2>2. Ahead(i, p) \in 1 .. Len(new) /\ new[Ahead(i, p)] = d
    BY <1>1, <1>2, <2>1
  <2> QED BY <1>1, <1>5, <2>1, <2>2, Places
<1>8. ToSet(new) = ToSet(s) \cup {c}
  <2>1. \A x \in ToSet(new) : x \in ToSet(s) \cup {c}
    BY <1>1, <1>4 DEF ToSet
  <2> QED BY <1>6, <1>7, <2>1
<1> QED BY <1>5, <1>6, <1>7, <1>8

LEMMA SoundBuilt ==
  ASSUME NEW cols \in Seq(Columns), IsInjective(cols), Key \in ToSet(cols),
         NEW row \in Seq(Value), Len(row) \in {0, Len(cols)}
  PROVE  Sound([cols |-> cols, row |-> row])
<1> DEFINE table == [cols |-> cols, row |-> row]
<1>1. table \in Table /\ table.cols = cols /\ table.row = row
  BY DEF Table
<1> QED BY <1>1 DEF Sound, TableColumns

\* A column is added.
LEMMA ColumnInserted ==
  ASSUME NEW before, Sound(before), NEW c \in Columns \ ToSet(before.cols),
         NEW i \in 1 .. Len(before.cols) + 1, NEW new, new = InsertAt(before.cols, i, c),
         NEW row, row = IF before.row = NoRow THEN NoRow ELSE InsertAt(before.row, i, Null),
         NEW after, after = [cols |-> new, row |-> row]
  PROVE  Sound(after) /\ AddsColumn(c, before, after)
<1>1. /\ before.cols \in Seq(Columns) /\ IsInjective(before.cols) /\ Key \in ToSet(before.cols)
      /\ before.row \in Seq(Value) /\ Len(before.row) \in {0, Len(before.cols)}
      /\ Null \in Value
  BY SoundFields DEF Value
<1>i. Inserts(Columns, before.cols, Len(before.cols), i, c, new)
  BY <1>1, InsertedBack
<1>n. new \in Seq(Columns) /\ Len(new) = Len(before.cols) + 1
  BY <1>i DEF Inserts
<1>2. /\ IsInjective(new) /\ ToSet(new) = ToSet(before.cols) \cup {c} /\ Place(new, c) = i
      /\ \A d \in ToSet(before.cols) : /\ Place(before.cols, d) \in 1 .. Len(before.cols)
                                      /\ Place(new, d) = Ahead(i, Place(before.cols, d))
  BY <1>1, <1>i, InsertedColumns
<1>3. after.cols = new /\ after.row = row
  OBVIOUS
<1>4. CASE before.row = NoRow
  <2>1. row = NoRow /\ row \in Seq(Value) /\ Len(row) = 0
    BY <1>4 DEF NoRow
  <2>2. Sound(after)
    BY <1>1, <1>2, <1>n, <2>1, SoundBuilt
  <2> QED BY <1>2, <1>3, <1>4, <2>1, <2>2 DEF AddsColumn, RowsAlike, Cell
<1>5. CASE before.row # NoRow
  <2>1. Len(before.row) = Len(before.cols) /\ row = InsertAt(before.row, i, Null)
    BY <1>1, <1>5 DEF NoRow
  <2>2. /\ row \in Seq(Value) /\ Len(row) = Len(before.cols) + 1
        /\ row[i] = Null /\ DOMAIN row = 1 .. Len(before.cols) + 1
        /\ \A p \in 1 .. Len(before.cols) : row[Ahead(i, p)] = before.row[p]
    <3>1. Inserts(Value, before.row, Len(before.cols), i, Null, row)
      BY <1>1, <2>1, InsertedBack
    <3> QED BY <3>1 DEF Inserts
  <2>3. row # NoRow
    <3>1. i \in DOMAIN row
      BY <2>2
    <3> QED BY <3>1 DEF NoRow
  <2>4. Sound(after)
    BY <1>1, <1>2, <1>n, <2>2, SoundBuilt
  <2>5. Cell(after, c) = Null
    BY <1>2, <1>3, <2>2, <2>3 DEF Cell
  <2>6. \A d \in ToSet(before.cols) : Cell(after, d) = Cell(before, d)
    BY <1>2, <1>3, <1>5, <2>2, <2>3 DEF Cell
  <2> QED BY <1>2, <1>3, <1>5, <2>3, <2>4, <2>5, <2>6 DEF AddsColumn, RowsAlike
<1> QED BY <1>4, <1>5

LEMMA BackAgain ==
  ASSUME NEW n \in Nat, NEW i \in 1 .. n
  PROVE  /\ \A j \in 1 .. n - 1 : Ahead(i, j) \in (1 .. n) \ {i}
         /\ \A j, k \in 1 .. n - 1 : Ahead(i, j) = Ahead(i, k) => j = k
         /\ \A p \in (1 .. n) \ {i} : Back(i, p) \in 1 .. n - 1 /\ Ahead(i, Back(i, p)) = p
BY DEF Ahead, Back

\* new is s without its element at place i.
Removes(V, s, n, i, new) ==
  /\ new \in Seq(V) /\ Len(new) = n - 1 /\ n \in Nat /\ DOMAIN new = 1 .. n - 1
  /\ \A j \in 1 .. n - 1 : new[j] = s[Ahead(i, j)]
  /\ \A p \in (1 .. n) \ {i} : Back(i, p) \in 1 .. n - 1 /\ new[Back(i, p)] = s[p]

\* RemoveAt loses what is at the position.
LEMMA RemovedBack ==
  ASSUME NEW V, NEW s \in Seq(V), NEW n, n = Len(s), NEW i \in 1 .. n
  PROVE  Removes(V, s, n, i, RemoveAt(s, i))
<1> DEFINE new == RemoveAt(s, i)
<1>1. new \in Seq(V) /\ Len(new) = n - 1 /\ n \in Nat
  BY RemoveAtElements
<1>2. \A j \in 1 .. n - 1 : new[j] = IF j < i THEN s[j] ELSE s[j + 1]
  BY RemovedAt
<1>3. \A j \in 1 .. n - 1 : new[j] = s[Ahead(i, j)]
  BY <1>2 DEF Ahead
<1>4. \A p \in (1 .. n) \ {i} : Back(i, p) \in 1 .. n - 1 /\ Ahead(i, Back(i, p)) = p
  BY <1>1, BackAgain
<1>5. \A p \in (1 .. n) \ {i} : Back(i, p) \in 1 .. n - 1 /\ new[Back(i, p)] = s[p]
  BY <1>3, <1>4
<1>6. DOMAIN new = 1 .. n - 1
  BY <1>1
<1> HIDE DEF new
<1>7. Removes(V, s, n, i, new)
  BY <1>1, <1>3, <1>5, <1>6 DEF Removes
<1> QED BY <1>7 DEF new

\* The columns with one of them gone.
LEMMA RemovedColumns ==
  ASSUME NEW s \in Seq(Columns), IsInjective(s),
         NEW n, n = Len(s), NEW i \in 1 .. n, NEW new, Removes(Columns, s, n, i, new)
  PROVE  /\ IsInjective(new) /\ ToSet(new) = ToSet(s) \ {s[i]}
         /\ \A d \in ToSet(new) : /\ Place(s, d) \in (1 .. n) \ {i}
                                 /\ Place(new, d) = Back(i, Place(s, d))
<1>1. /\ new \in Seq(Columns) /\ Len(new) = n - 1 /\ n \in Nat /\ DOMAIN new = 1 .. n - 1
      /\ \A j \in 1 .. n - 1 : new[j] = s[Ahead(i, j)]
      /\ \A p \in (1 .. n) \ {i} : Back(i, p) \in 1 .. n - 1 /\ new[Back(i, p)] = s[p]
  BY DEF Removes
<1>2. /\ \A j \in 1 .. n - 1 : Ahead(i, j) \in (1 .. n) \ {i}
      /\ \A j, k \in 1 .. n - 1 : Ahead(i, j) = Ahead(i, k) => j = k
  BY <1>1, BackAgain
<1>3. DOMAIN s = 1 .. n /\ i \in 1 .. n /\ \A a, b \in 1 .. n : s[a] = s[b] => a = b
  BY DEF IsInjective
<1>4. IsInjective(new)
  <2>1. ASSUME NEW a \in 1 .. n - 1, NEW b \in 1 .. n - 1, new[a] = new[b]
        PROVE  a = b
    <3>1. s[Ahead(i, a)] = s[Ahead(i, b)] /\ Ahead(i, a) \in 1 .. n /\ Ahead(i, b) \in 1 .. n
      BY <1>1, <1>2, <2>1
    <3>2. Ahead(i, a) = Ahead(i, b)
      BY <1>3, <3>1
    <3> QED BY <1>2, <3>2
  <2> QED BY <1>1, <2>1 DEF IsInjective
<1>5. ASSUME NEW d \in ToSet(new)
      PROVE  d \in ToSet(s) \ {s[i]}
  <2>1. PICK j \in 1 .. n - 1 : d = s[Ahead(i, j)]
    BY <1>1, <1>5 DEF ToSet
  <2>2. Ahead(i, j) \in (1 .. n) \ {i}
    BY <1>2, <2>1
  <2> QED BY <1>3, <2>1, <2>2 DEF ToSet
<1>6. ASSUME NEW d \in ToSet(s) \ {s[i]}, NEW p, p = Place(s, d)
      PROVE  d \in ToSet(new) /\ p \in (1 .. n) \ {i} /\ Place(new, d) = Back(i, p)
  <2>1. p \in 1 .. n /\ s[p] = d
    BY <1>6, Places
  <2>2. p \in (1 .. n) \ {i}
    BY <1>6, <2>1
  <2>3. Back(i, p) \in 1 .. Len(new) /\ new[Back(i, p)] = d
    BY <1>1, <2>1, <2>2
  <2> QED BY <1>1, <1>4, <2>2, <2>3, Places
<1> QED BY <1>4, <1>5, <1>6

\* A column is dropped.
LEMMA ColumnRemoved ==
  ASSUME NEW before, Sound(before), NEW i \in 1 .. Len(before.cols), before.cols[i] # Key,
         NEW new, new = RemoveAt(before.cols, i),
         NEW row, row = IF before.row = NoRow THEN NoRow ELSE RemoveAt(before.row, i),
         NEW after, after = [cols |-> new, row |-> row]
  PROVE  Sound(after) /\ DropsColumn(before.cols[i], before, after)
<1> DEFINE n == Len(before.cols)
<1>1. /\ before.cols \in Seq(Columns) /\ IsInjective(before.cols) /\ Key \in ToSet(before.cols)
      /\ before.row \in Seq(Value) /\ Len(before.row) \in {0, n} /\ n \in Nat
  BY SoundFields
<1>2. Removes(Columns, before.cols, n, i, new)
  BY <1>1, RemovedBack
<1>3. new \in Seq(Columns) /\ Len(new) = n - 1
  BY <1>2 DEF Removes
<1>4. /\ IsInjective(new) /\ ToSet(new) = ToSet(before.cols) \ {before.cols[i]}
      /\ \A d \in ToSet(new) : /\ Place(before.cols, d) \in (1 .. n) \ {i}
                              /\ Place(new, d) = Back(i, Place(before.cols, d))
  BY <1>1, <1>2, RemovedColumns
<1>5. after.cols = new /\ after.row = row /\ before.cols[i] \in ToSet(before.cols)
  BY <1>1 DEF ToSet
<1>6. Key \in ToSet(new)
  BY <1>1, <1>4
<1>7. CASE before.row = NoRow
  <2>1. row = NoRow /\ row \in Seq(Value) /\ Len(row) = 0
    BY <1>7 DEF NoRow
  <2>2. Sound(after)
    BY <1>3, <1>4, <1>6, <2>1, SoundBuilt
  <2> QED BY <1>4, <1>5, <1>7, <2>1, <2>2 DEF DropsColumn, RowsAlike, Cell
<1>8. CASE before.row # NoRow
  <2>1. Len(before.row) = n /\ row = RemoveAt(before.row, i)
    BY <1>1, <1>8 DEF NoRow
  <2>2. /\ row \in Seq(Value) /\ Len(row) = n - 1 /\ DOMAIN row = 1 .. n - 1
        /\ \A p \in (1 .. n) \ {i} : Back(i, p) \in 1 .. n - 1 /\ row[Back(i, p)] = before.row[p]
    <3>1. Removes(Value, before.row, n, i, row)
      BY <1>1, <2>1, RemovedBack
    <3> QED BY <3>1 DEF Removes
  <2>3. row # NoRow
    <3>1. Place(before.cols, Key) \in (1 .. n) \ {i}
      BY <1>4, <1>6
    <3>2. Back(i, Place(before.cols, Key)) \in DOMAIN row
      BY <2>2, <3>1
    <3> QED BY <3>2 DEF NoRow
  <2>4. Sound(after)
    BY <1>3, <1>4, <1>6, <2>2, SoundBuilt
  <2>5. \A d \in ToSet(after.cols) : Cell(after, d) = Cell(before, d)
    BY <1>4, <1>5, <1>8, <2>2, <2>3 DEF Cell
  <2> QED BY <1>4, <1>5, <1>8, <2>3, <2>4, <2>5 DEF DropsColumn, RowsAlike
<1> QED BY <1>7, <1>8

\* A column is renamed.
LEMMA ColumnReplaced ==
  ASSUME NEW before, Sound(before), NEW i \in 1 .. Len(before.cols),
         NEW c \in Columns \ ToSet(before.cols), <<before.cols[i], c>> \in ColumnRenames,
         NEW new, new = [before.cols EXCEPT ![i] = c],
         NEW after, after = [cols |-> new, row |-> before.row]
  PROVE  Sound(after) /\ RenamesColumn(<<before.cols[i], c>>, before, after)
<1> DEFINE s == before.cols
           n == Len(s)
           old == s[i]
<1>1. /\ s \in Seq(Columns) /\ IsInjective(s) /\ Key \in ToSet(s)
      /\ before.row \in Seq(Value) /\ Len(before.row) \in {0, n} /\ n \in Nat /\ DOMAIN s = 1 .. n
      /\ old \in ToSet(s) /\ old # Key
  <2>1. /\ s \in Seq(Columns) /\ IsInjective(s) /\ Key \in ToSet(s)
        /\ before.row \in Seq(Value) /\ Len(before.row) \in {0, n} /\ n \in Nat /\ DOMAIN s = 1 .. n
    BY SoundFields
  <2>2. old # Key
    BY SchemaAssumption
  <2>3. old \in ToSet(s)
    BY <2>1 DEF ToSet
  <2> QED BY <2>1, <2>2, <2>3
<1>2. /\ new \in Seq(Columns) /\ Len(new) = n /\ DOMAIN new = 1 .. n
      /\ new[i] = c /\ \A j \in (1 .. n) \ {i} : new[j] = s[j]
  BY <1>1
<1>3. after.cols = new /\ after.row = before.row
  OBVIOUS
<1>4. <<s[i], c>>[1] = old /\ <<s[i], c>>[2] = c /\ <<old, c>> \in ColumnRenames
  OBVIOUS
<1>5. /\ \A a, b \in 1 .. n : s[a] = s[b] => a = b
      /\ \A j \in 1 .. n : s[j] \in ToSet(s) /\ s[j] # c
  BY <1>1 DEF IsInjective, ToSet
<1> HIDE DEF s, n, old
<1>6. n = Len(s) /\ old = s[i] /\ i \in 1 .. n
  BY DEF n, old, s
<1>7. IsInjective(new)
  <2>1. ASSUME NEW a \in 1 .. n, NEW b \in 1 .. n, new[a] = new[b]
        PROVE  a = b
    BY <1>2, <1>5, <2>1
  <2> QED BY <1>2, <2>1 DEF IsInjective
<1>p. \A j \in 1 .. n : new[j] \in ToSet(new) /\ Place(new, new[j]) = j
  BY <1>2, <1>7, OnePlace DEF ToSet
<1>8. c \in ToSet(new) /\ Place(new, c) = i
  BY <1>2, <1>6, <1>p
<1>9. ASSUME NEW d \in ToSet(s) \ {old}, NEW p, p = Place(s, d)
      PROVE  d \in ToSet(new) /\ Place(new, d) = p
  <2>1. p \in 1 .. n /\ s[p] = d
    BY <1>1, <1>6, <1>9, Places
  <2>2. p # i /\ new[p] = d
    BY <1>2, <1>6, <1>9, <2>1
  <2> QED BY <1>p, <2>1, <2>2
<1>10. ToSet(new) = (ToSet(s) \ {old}) \cup {c}
  <2>1. ASSUME NEW j \in 1 .. n
        PROVE  new[j] \in (ToSet(s) \ {old}) \cup {c}
    BY <1>2, <1>5, <1>6
  <2>2. \A x \in ToSet(new) : x \in (ToSet(s) \ {old}) \cup {c}
    BY <1>2, <2>1 DEF ToSet
  <2> QED BY <1>8, <1>9, <2>2
<1>11. Place(s, old) = i
  BY <1>1, <1>6, Places
<1>12. Sound(after)
  <2>1. Key \in ToSet(new)
    BY <1>1, <1>10
  <2> QED BY <1>1, <1>2, <1>7, <2>1, SoundBuilt
<1>13. /\ Cell(after, c) = Cell(before, old)
       /\ \A d \in ToSet(s) \ {old} : Cell(after, d) = Cell(before, d)
  BY <1>3, <1>8, <1>9, <1>11 DEF Cell, s
<1> QED BY <1>1, <1>3, <1>4, <1>6, <1>10, <1>12, <1>13 DEF RenamesColumn, RowsAlike, s

-----------------------------------------------------------------------------
\* What MySQL's statements do, precisely.

\* MySQL executes a statement only when the reader has read the one before; what a
\* session or a restart reads again are truncations or drops, not both, and a session
\* no truncations; a statement drops one table; a column that is added has no values; and
\* renames do not cross the filter.
InOrder ==
  /\ ~ Lag /\ ~ Backfills
  /\ \A kinds \in Replayable :
       kinds \subseteq {"truncate", "other"} \/ kinds \subseteq {"drop", "other"}
  /\ \A kinds \in Rewindable : kinds \subseteq {"drop", "other"}
  /\ \A tables \in Drops : Len(tables) = 1
  /\ \A names \in TableRenames : TableAllowed(names[1]) <=> TableAllowed(names[2])
  /\ RenamesAllowed

SoundDb(db) ==
  /\ db \in [Tables -> Table \cup {None}]
  /\ \A t \in Tables : db[t] # None => Sound(db[t])

\* The same table, with a row of its own.
SameColumns(before, after, row) ==
  /\ before # None /\ after # None /\ after.cols = before.cols /\ after.row = row

OneStatement(e, t, before, after) ==
  /\ e.kind # "rename" => Alike(before, after, {t})
  /\ e.kind = "row" => SameColumns(before[t], after[t], e.arg)
  /\ e.kind = "truncate" => SameColumns(before[t], after[t], NoRow)
  /\ e.kind = "drop" => e.tables = <<t>> /\ before[t] # None /\ after[t] = None
  /\ e.kind = "create" => before[t] = None /\ after[t] # None /\ after[t].row = NoRow
  /\ e.kind = "rename" =>
       /\ t # e.arg /\ Alike(before, after, {t, e.arg}) /\ (TableAllowed(t) <=> TableAllowed(e.arg))
       /\ before[t] # None /\ before[e.arg] = None /\ after[t] = None /\ after[e.arg] = before[t]
  /\ e.kind \in Alters => before[t] # None /\ after[t] # None /\ AlterEffect(e, before[t], after[t])

Statement(e, before, after) ==
  /\ SoundDb(after) /\ e.tables[1] \in Tables
  /\ OneStatement(e, e.tables[1], before, after)

Performed == \E event, db : Logged(event, db) /\ Statement(event, MySql, db)

Replaces(before, t, table, db) == db = [before EXCEPT ![t] = table]

LEMMA SoundChanged ==
  ASSUME NEW before, SoundDb(before), NEW t \in Tables, NEW table, Sound(table),
         NEW db, Replaces(before, t, table, db)
  PROVE  SoundDb(db) /\ db[t] = table /\ table # None /\ Alike(before, db, {t})
<1>1. table \in Table /\ table # None
  BY SoundFields DEF Sound
<1>2. db \in [Tables -> Table \cup {None}] /\ db[t] = table /\ \A u \in Tables \ {t} : db[u] = before[u]
  BY <1>1 DEF SoundDb, Replaces
<1>3. \A u \in Tables : db[u] # None => Sound(db[u])
  BY <1>2 DEF SoundDb
<1> QED BY <1>1, <1>2, <1>3 DEF SoundDb, Alike

LEMMA WriteRowPerforms ==
  ASSUME MySqlTyped, SoundDb(MySql), NEW t \in Tables, WriteRow(t)
  PROVE  Performed
<1> DEFINE m == MySql[t]
<1>1. PICK row \in {NoRow, Written(m.cols, Len(log) + 1)} :
        Logged([kind |-> "row", tables |-> <<t>>, arg |-> row], [MySql EXCEPT ![t].row = row])
  BY DEF WriteRow
<1> DEFINE event == [kind |-> "row", tables |-> <<t>>, arg |-> row]
           table == [cols |-> m.cols, row |-> row]
           db == [MySql EXCEPT ![t] = table]
<1>2. m # None /\ Sound(m)
  BY DEF WriteRow, SoundDb
<1>3. m = [cols |-> m.cols, row |-> m.row] /\ m.cols \in Seq(Columns) /\ Len(m.cols) \in Nat
      /\ IsInjective(m.cols) /\ Key \in ToSet(m.cols)
  BY <1>2, SoundFields
<1>4. [MySql EXCEPT ![t].row = row] = db
  <2>1. [MySql[t] EXCEPT !.row = row] = table
    BY <1>3
  <2>2. [MySql EXCEPT ![t].row = row] = [MySql EXCEPT ![t] = [MySql[t] EXCEPT !.row = row]]
    OBVIOUS
  <2> HIDE DEF event, table
  <2> QED BY <2>1, <2>2, Zenon
<1>5. row \in Seq(Value) /\ Len(row) \in {0, Len(m.cols)}
  <2>1. CASE row = NoRow
    BY <2>1 DEF NoRow
  <2>2. CASE row = Written(m.cols, Len(log) + 1)
    <3>1. Len(log) + 1 \in 0 .. MaxEvents
      BY <1>1, MySqlTables, SmallNumbers DEF Logged
    <3> QED BY <1>3, <2>2, <3>1, WrittenIsClean
  <2> QED BY <2>1, <2>2
<1>6. Sound(table) /\ table.cols = m.cols /\ table.row = row
  BY <1>3, <1>5, SoundBuilt
<1>7. event.kind = "row" /\ event.tables[1] = t /\ event.arg = row /\ Logged(event, db)
  BY <1>1, <1>4
<1>8. Replaces(MySql, t, table, db)
  BY DEF Replaces
<1> HIDE DEF event, table, db
<1>9. SoundDb(db) /\ db[t] = table /\ table # None /\ Alike(MySql, db, {t})
  BY <1>6, <1>8, SoundChanged
<1>10. Statement(event, MySql, db)
  BY <1>2, <1>6, <1>7, <1>9 DEF Statement, OneStatement, SameColumns, Alters
<1> QED BY <1>7, <1>10 DEF Performed

LEMMA CreatePerforms ==
  ASSUME MySqlTyped, SoundDb(MySql), NEW t \in Tables, NEW cols \in Shapes, CreateTable(t, cols)
  PROVE  Performed
<1> DEFINE event == [kind |-> "create", tables |-> <<t>>, arg |-> None]
           table == [cols |-> cols, row |-> NoRow]
           db == [MySql EXCEPT ![t] = table]
<1>1. Logged(event, db) /\ MySql[t] = None
  BY DEF CreateTable, Ddl
<1>2. Sound(table) /\ table.row = NoRow
  <2>1. NoRow \in Seq(Value) /\ Len(NoRow) = 0
    BY DEF NoRow
  <2> QED BY <2>1, SoundBuilt, SchemaAssumption DEF TableColumns
<1>3. event.kind = "create" /\ event.tables[1] = t
  OBVIOUS
<1>4. Replaces(MySql, t, table, db)
  BY DEF Replaces
<1> HIDE DEF event, table, db
<1>5. SoundDb(db) /\ db[t] = table /\ table # None /\ Alike(MySql, db, {t})
  BY <1>2, <1>4, SoundChanged
<1>6. Statement(event, MySql, db)
  BY <1>1, <1>2, <1>3, <1>5 DEF Statement, OneStatement, Alters
<1> QED BY <1>1, <1>6 DEF Performed

LEMMA DropPerforms ==
  ASSUME InOrder, MySqlTyped, SoundDb(MySql), NEW tables \in Drops, DropTables(tables)
  PROVE  Performed
<1> DEFINE event == [kind |-> "drop", tables |-> tables, arg |-> None]
           t == tables[1]
           db == [u \in Tables |-> IF u \in ToSet(tables) THEN None ELSE MySql[u]]
<1>1. Logged(event, db) /\ \A u \in ToSet(tables) : MySql[u] # None
  BY DEF DropTables, Ddl
<1>2. tables = <<t>> /\ t \in Tables /\ ToSet(tables) = {t}
  <2>1. tables \in Seq(Tables) /\ Len(tables) = 1
    BY SchemaAssumption DEF InOrder
  <2>2. tables = <<t>> /\ t \in Tables
    BY <2>1
  <2> QED BY <2>1, <2>2 DEF ToSet
<1>3. SoundDb(db)
  BY DEF SoundDb
<1>4. db[t] = None /\ Alike(MySql, db, {t}) /\ MySql[t] # None
  BY <1>1, <1>2 DEF Alike
<1>5. event.kind = "drop" /\ event.tables = tables
  OBVIOUS
<1> HIDE DEF event, db, t
<1>6. Statement(event, MySql, db)
  BY <1>2, <1>3, <1>4, <1>5 DEF Statement, OneStatement, Alters, t
<1> QED BY <1>1, <1>6 DEF Performed

LEMMA TruncatePerforms ==
  ASSUME MySqlTyped, SoundDb(MySql), NEW t \in Tables, TruncateTable(t)
  PROVE  Performed
<1> DEFINE m == MySql[t]
           event == [kind |-> "truncate", tables |-> <<t>>, arg |-> None]
           table == [cols |-> m.cols, row |-> NoRow]
           db == [MySql EXCEPT ![t] = table]
<1>1. m # None /\ Sound(m) /\ Logged(event, [MySql EXCEPT ![t].row = NoRow])
  BY DEF TruncateTable, Ddl, SoundDb
<1>2. m = [cols |-> m.cols, row |-> m.row] /\ m.cols \in Seq(Columns)
      /\ IsInjective(m.cols) /\ Key \in ToSet(m.cols)
  BY <1>1, SoundFields
<1>3. [MySql EXCEPT ![t].row = NoRow] = db
  <2>1. [MySql[t] EXCEPT !.row = NoRow] = table
    BY <1>2
  <2>2. [MySql EXCEPT ![t].row = NoRow] = [MySql EXCEPT ![t] = [MySql[t] EXCEPT !.row = NoRow]]
    OBVIOUS
  <2> HIDE DEF event, table
  <2> QED BY <2>1, <2>2, Zenon
<1>4. Sound(table) /\ table.cols = m.cols /\ table.row = NoRow
  <2>1. NoRow \in Seq(Value) /\ Len(NoRow) = 0
    BY DEF NoRow
  <2> QED BY <1>2, <2>1, SoundBuilt
<1>5. event.kind = "truncate" /\ event.tables[1] = t /\ Logged(event, db)
  BY <1>1, <1>3
<1>6. Replaces(MySql, t, table, db)
  BY DEF Replaces
<1> HIDE DEF event, table, db
<1>7. SoundDb(db) /\ db[t] = table /\ table # None /\ Alike(MySql, db, {t})
  BY <1>4, <1>6, SoundChanged
<1>8. Statement(event, MySql, db)
  BY <1>1, <1>4, <1>5, <1>7 DEF Statement, OneStatement, SameColumns, Alters
<1> QED BY <1>5, <1>8 DEF Performed

LEMMA RenamePerforms ==
  ASSUME MySqlTyped, SoundDb(MySql), NEW from \in Tables, NEW to \in Tables,
         TableAllowed(from) <=> TableAllowed(to), RenameTable(from, to)
  PROVE  Performed
<1> DEFINE event == [kind |-> "rename", tables |-> <<from>>, arg |-> to]
           db == [MySql EXCEPT ![from] = None, ![to] = MySql[from]]
<1>1. Logged(event, db) /\ MySql[from] # None /\ MySql[to] = None
  BY DEF RenameTable, Ddl
<1>2. /\ db \in [Tables -> Table \cup {None}] /\ db[from] = None /\ db[to] = MySql[from]
      /\ from # to /\ Alike(MySql, db, {from, to})
  BY <1>1 DEF SoundDb, Alike
<1>3. event.kind = "rename" /\ event.tables[1] = from /\ event.arg = to
  OBVIOUS
<1> HIDE DEF event, db
<1>4. SoundDb(db)
  BY <1>2 DEF SoundDb, Alike
<1>5. Statement(event, MySql, db)
  BY <1>1, <1>2, <1>3, <1>4 DEF Statement, OneStatement, Alters
<1> QED BY <1>1, <1>5 DEF Performed

\* An ALTER, given what it makes of the table.
LEMMA AlterPerforms ==
  ASSUME SoundDb(MySql), NEW t \in Tables, MySql[t] # None, NEW kind \in Alters, NEW arg,
         NEW table, Sound(table),
         AlterEffect([kind |-> kind, tables |-> <<t>>, arg |-> arg], MySql[t], table),
         Logged([kind |-> kind, tables |-> <<t>>, arg |-> arg], [MySql EXCEPT ![t] = table])
  PROVE  Performed
<1> DEFINE event == [kind |-> kind, tables |-> <<t>>, arg |-> arg]
           db == [MySql EXCEPT ![t] = table]
<1>1. /\ event.kind = kind /\ event.tables[1] = t /\ Logged(event, db)
      /\ AlterEffect(event, MySql[t], table)
  OBVIOUS
<1>2. Replaces(MySql, t, table, db)
  BY DEF Replaces
<1> HIDE DEF event, db
<1>3. SoundDb(db) /\ db[t] = table /\ table # None /\ Alike(MySql, db, {t})
  BY <1>2, SoundChanged
<1>4. Statement(event, MySql, db)
  BY <1>1, <1>3 DEF Statement, OneStatement, Alters
<1> QED BY <1>1, <1>4 DEF Performed

LEMMA AddColumnPerforms ==
  ASSUME InOrder, SoundDb(MySql), NEW t \in Tables, NEW c \in Columns, NEW i, AddColumn(t, c, i)
  PROVE  Performed
<1> DEFINE m == MySql[t]
           new == InsertAt(m.cols, i, c)
           row == IF m.row = NoRow THEN NoRow ELSE InsertAt(m.row, i, Null)
           table == [cols |-> new, row |-> row]
           event == [kind |-> "addColumn", tables |-> <<t>>, arg |-> c]
<1>1. /\ m # None /\ c \in Columns \ ToSet(m.cols) /\ i \in 1 .. Len(m.cols) + 1
  BY DEF AddColumn
<1>2. Logged(event, [MySql EXCEPT ![t] = table])
  <2>1. PICK value \in {Null} \cup (IF Backfills THEN {<<c, Len(log) + 1>>} ELSE {}) :
          Ddl("addColumn", <<t>>, c,
              [MySql EXCEPT ![t] = [cols |-> InsertAt(@.cols, i, c),
                                    row |-> IF @.row = NoRow THEN NoRow ELSE InsertAt(@.row, i, value)]])
    BY DEF AddColumn
  <2>2. value = Null
    BY <2>1 DEF InOrder
  <2> QED BY <2>1, <2>2 DEF Ddl
<1>3. Sound(m)
  BY <1>1 DEF SoundDb
<1>4. Sound(table) /\ AddsColumn(c, m, table)
  BY <1>1, <1>3, ColumnInserted
<1>5. event.kind = "addColumn" /\ event.arg = c
  OBVIOUS
<1> HIDE DEF table, m
<1>6. AlterEffect(event, m, table)
  BY <1>4, <1>5 DEF AlterEffect
<1> QED BY <1>1, <1>2, <1>4, <1>6, AlterPerforms DEF Alters, m

LEMMA DropColumnPerforms ==
  ASSUME SoundDb(MySql), NEW t \in Tables, NEW i, DropColumn(t, i)
  PROVE  Performed
<1> DEFINE m == MySql[t]
           new == RemoveAt(m.cols, i)
           row == IF m.row = NoRow THEN NoRow ELSE RemoveAt(m.row, i)
           table == [cols |-> new, row |-> row]
           event == [kind |-> "dropColumn", tables |-> <<t>>, arg |-> m.cols[i]]
<1>1. m # None /\ i \in DOMAIN m.cols /\ m.cols[i] # Key
  BY DEF DropColumn
<1>2. Logged(event, [MySql EXCEPT ![t] = table])
  BY DEF DropColumn, Ddl
<1>3. Sound(m) /\ i \in 1 .. Len(m.cols)
  <2>1. Sound(m)
    BY <1>1 DEF SoundDb
  <2>2. m.cols \in Seq(Columns)
    BY <2>1, SoundFields
  <2> QED BY <1>1, <2>1, <2>2
<1>4. Sound(table) /\ DropsColumn(m.cols[i], m, table)
  BY <1>1, <1>3, ColumnRemoved
<1>5. event.kind = "dropColumn" /\ event.arg = m.cols[i]
  OBVIOUS
<1> HIDE DEF table, m
<1>6. AlterEffect(event, m, table)
  BY <1>4, <1>5 DEF AlterEffect
<1> QED BY <1>1, <1>2, <1>4, <1>6, AlterPerforms DEF Alters, m

LEMMA RenameColumnPerforms ==
  ASSUME SoundDb(MySql), NEW t \in Tables, NEW i, NEW c \in Columns, RenameColumn(t, i, c)
  PROVE  Performed
<1> DEFINE m == MySql[t]
           new == [m.cols EXCEPT ![i] = c]
           table == [cols |-> new, row |-> m.row]
           names == <<m.cols[i], c>>
           event == [kind |-> "renameColumn", tables |-> <<t>>, arg |-> names]
<1>1. m # None /\ i \in DOMAIN m.cols /\ c \in Columns \ ToSet(m.cols) /\ names \in ColumnRenames
  BY DEF RenameColumn
<1>2. Sound(m) /\ m \in Table
  BY <1>1 DEF SoundDb
<1>3. m = [cols |-> m.cols, row |-> m.row] /\ m.cols \in Seq(Columns) /\ i \in 1 .. Len(m.cols)
  BY <1>1, <1>2, SoundFields
<1>4. [MySql EXCEPT ![t].cols[i] = c] = [MySql EXCEPT ![t] = table]
  <2>1. [MySql EXCEPT ![t].cols[i] = c] = [MySql EXCEPT ![t].cols = new]
    OBVIOUS
  <2> HIDE DEF new
  <2>2. [MySql[t] EXCEPT !.cols = new] = table
    BY <1>3
  <2>3. [MySql EXCEPT ![t].cols = new] = [MySql EXCEPT ![t] = [MySql[t] EXCEPT !.cols = new]]
    OBVIOUS
  <2> QED BY <2>1, <2>2, <2>3, Zenon
<1>5. Logged(event, [MySql EXCEPT ![t] = table])
  BY <1>4 DEF RenameColumn, Ddl
<1>6. Sound(table) /\ RenamesColumn(names, m, table)
  BY <1>1, <1>2, <1>3, ColumnReplaced
<1>7. event.kind = "renameColumn" /\ event.arg = names
  OBVIOUS
<1> HIDE DEF table, m
<1>8. AlterEffect(event, m, table)
  BY <1>6, <1>7 DEF AlterEffect
<1> QED BY <1>1, <1>5, <1>6, <1>8, AlterPerforms DEF Alters, m

LEMMA OtherPerforms ==
  ASSUME SoundDb(MySql), NEW t \in Tables, AlterOther(t)
  PROVE  Performed
<1> DEFINE event == [kind |-> "other", tables |-> <<t>>, arg |-> None]
<1>1. Logged(event, MySql) /\ MySql[t] # None
  BY DEF AlterOther, Ddl
<1>2. MySql = [MySql EXCEPT ![t] = MySql[t]] /\ Sound(MySql[t])
  BY <1>1 DEF SoundDb
<1>3. Logged(event, [MySql EXCEPT ![t] = MySql[t]])
  BY <1>1, <1>2
<1>4. AlterEffect(event, MySql[t], MySql[t])
  BY DEF AlterEffect
<1> QED BY <1>1, <1>2, <1>3, <1>4, AlterPerforms DEF Alters

\* Whatever MySQL executes is logged as what it does.
LEMMA ExecutePerforms ==
  ASSUME InOrder, MySqlTyped, SoundDb(MySql), Execute
  PROVE  Performed
<1>1. CASE \E t \in Tables : WriteRow(t) \/ TruncateTable(t) \/ AlterOther(t)
  BY <1>1, WriteRowPerforms, TruncatePerforms, OtherPerforms
<1>2. CASE \E t \in Tables, cols \in Shapes : CreateTable(t, cols)
  BY <1>2, CreatePerforms
<1>3. CASE \E t \in Tables, c \in Columns, i \in 1 .. Cardinality(Columns) :
             AddColumn(t, c, i) \/ DropColumn(t, i) \/ RenameColumn(t, i, c)
  BY <1>3, AddColumnPerforms, DropColumnPerforms, RenameColumnPerforms
<1>4. CASE \E tables \in Drops : DropTables(tables)
  BY <1>4, DropPerforms
<1>5. CASE \E names \in TableRenames : RenameTable(names[1], names[2])
  <2>1. PICK names \in TableRenames : RenameTable(names[1], names[2])
    BY <1>5
  <2>2. names[1] \in Tables /\ names[2] \in Tables
    BY SchemaAssumption
  <2>3. TableAllowed(names[1]) <=> TableAllowed(names[2])
    BY DEF InOrder
  <2> QED BY <2>1, <2>2, <2>3, RenamePerforms
<1> QED BY <1>1, <1>2, <1>3, <1>4, <1>5 DEF Execute

-----------------------------------------------------------------------------
\* The tables of the log: each is one MySQL can have, and every event of the log did to
\* them what its statement says.
Histories ==
  /\ SoundDb(hist[1])
  /\ \A n \in 1 .. Len(log) : Statement(log[n], hist[n], hist[n + 1])

LEMMA InitialSound ==
  ASSUME Init
  PROVE  Histories
<1>1. hist = <<Initial>> /\ log = <<>>
  BY DEF Init
<1>2. ASSUME NEW t \in Tables, Initial[t] # None
      PROVE  Sound(Initial[t])
  <2>1. Initial[t] \in Table /\ Initial[t].cols \in TableColumns
        /\ Initial[t].row \in {NoRow, Written(Initial[t].cols, 0)}
    BY <1>2, SchemaAssumption
  <2>2. Initial[t].cols \in Seq(Columns) /\ 0 \in 0 .. MaxEvents
    BY <2>1, SmallNumbers DEF TableColumns
  <2>3. Len(Initial[t].row) \in {0, Len(Initial[t].cols)}
    <3>1. Len(NoRow) = 0
      BY DEF NoRow
    <3> QED BY <2>1, <2>2, <3>1, WrittenIsClean
  <2> QED BY <2>1, <2>3 DEF Sound
<1>3. SoundDb(Initial)
  BY <1>2, SchemaAssumption DEF SoundDb
<1> QED BY <1>1, <1>3 DEF Histories

\* Every table of the history is one MySQL can have.
LEMMA HistorySound ==
  ASSUME MySqlTyped, Histories, NEW n \in 1 .. Len(log) + 1
  PROVE  SoundDb(hist[n])
<1>1. CASE n = 1
  BY <1>1 DEF Histories
<1>2. CASE n # 1
  <2>1. Len(log) \in Nat
    BY HistoryEnds
  <2>2. n - 1 \in 1 .. Len(log) /\ (n - 1) + 1 = n
    BY <1>2, <2>1
  <2>3. Statement(log[n - 1], hist[n - 1], hist[(n - 1) + 1])
    BY <2>2 DEF Histories
  <2> QED BY <2>2, <2>3 DEF Statement
<1> QED BY <1>1, <1>2

LEMMA MySqlSound ==
  ASSUME MySqlTyped, Histories
  PROVE  SoundDb(MySql)
<1>1. Len(log) \in Nat /\ MySql = hist[Len(log) + 1]
  BY HistoryEnds
<1>2. Len(log) + 1 \in 1 .. Len(log) + 1
  BY <1>1
<1> QED BY <1>1, <1>2, HistorySound

\* The event that MySQL logs did what its statement says.
LEMMA ExecuteStatement ==
  ASSUME InOrder, MySqlTyped, Histories, Execute, NEW event, NEW db, Executed(event, db)
  PROVE  Statement(event, MySql, db)
<1>1. Performed
  BY MySqlSound, ExecutePerforms
<1>2. PICK e, d : Logged(e, d) /\ Statement(e, MySql, d)
  BY <1>1 DEF Performed
<1>3. /\ log \in Seq(LogEntries) /\ hist \in Seq([Tables -> Table \cup {None}])
      /\ Len(hist) = Len(log) + 1 /\ Len(log) \in Nat
      /\ log' = Append(log, e) /\ hist' = Append(hist, d)
  BY <1>2 DEF MySqlTyped, Logged
<1>4. log'[Len(log) + 1] = e
  BY <1>3
<1>5. hist'[Len(hist) + 1] = d
  BY <1>3
<1>6. Len(hist) + 1 = Len(log) + 2
  BY <1>3
<1>7. event = e /\ db = d
  BY <1>4, <1>5, <1>6, LoggedHistory
<1> QED BY <1>2, <1>7

LEMMA ExecuteHistories ==
  ASSUME MySqlTyped, Histories, NEW event, NEW db, Executed(event, db),
         Statement(event, MySql, db)
  PROVE  Histories'
<1>1. /\ Len(log) \in Nat /\ MySql = hist[Len(log) + 1]
      /\ Len(log') = Len(log) + 1 /\ log'[Len(log) + 1] = event
      /\ \A i \in 1 .. Len(log) : log'[i] = log[i]
      /\ hist'[Len(log) + 2] = db /\ \A n \in 1 .. Len(log) + 1 : hist'[n] = hist[n]
  BY HistoryEnds, LoggedHistory
<1>2. ASSUME NEW n \in 1 .. Len(log) + 1
      PROVE  Statement(log'[n], hist'[n], hist'[n + 1])
  <2>1. CASE n = Len(log) + 1
    <3>1. hist'[n] = MySql /\ hist'[n + 1] = db /\ log'[n] = event
      BY <1>1, <2>1
    <3> QED BY <3>1
  <2>2. CASE n # Len(log) + 1
    <3>1. n \in 1 .. Len(log) /\ hist'[n] = hist[n] /\ hist'[n + 1] = hist[n + 1] /\ log'[n] = log[n]
      BY <1>1, <2>2
    <3> QED BY <3>1 DEF Histories
  <2> QED BY <2>1, <2>2
<1>3. SoundDb(hist'[1])
  BY <1>1 DEF Histories
<1> QED BY <1>1, <1>2, <1>3 DEF Histories

LEMMA QuietHistories ==
  ASSUME Histories, UNCHANGED mysqlVars
  PROVE  Histories'
BY DEF Histories, mysqlVars

\* A statement that drops table t lies behind position p.
DropAhead(t, p) == \E i \in p + 1 .. Len(log) : log[i].kind = "drop" /\ t \in ToSet(log[i].tables)

\* What a drop leaves.
LEMMA DropStatement ==
  ASSUME NEW e, e.kind = "drop", NEW before, NEW after, Statement(e, before, after),
         NEW t \in ToSet(e.tables)
  PROVE  /\ t \in Tables /\ e.tables = <<t>> /\ before[t] # None /\ after[t] = None
         /\ Alike(before, after, {t})
<1>1. /\ e.tables[1] \in Tables /\ e.tables = <<e.tables[1]>> /\ before[e.tables[1]] # None
      /\ after[e.tables[1]] = None /\ Alike(before, after, {e.tables[1]})
  BY DEF Statement, OneStatement
<1>2. t = e.tables[1]
  BY <1>1 DEF ToSet
<1> QED BY <1>1, <1>2

\* Where only harmless statements are ahead, a table that is to be dropped is gone
LEMMA DroppedIsGone ==
  ASSUME MySqlTyped, LogInv, Histories, NEW p \in Nat, Calm(p), NEW t, DropAhead(t, p)
  PROVE  t \in Tables /\ MySql[t] = None
<1>1. PICK i \in p + 1 .. Len(log) : log[i].kind = "drop" /\ t \in ToSet(log[i].tables)
  BY DEF DropAhead
<1>2. /\ Len(log) \in Nat /\ i \in 1 .. Len(log) /\ i + 1 \in p + 1 .. Len(log) + 1
      /\ MySql = hist[Len(log) + 1] /\ Len(log) + 1 \in i + 1 .. Len(log) + 1
  BY HistoryEnds
<1>3. t \in Tables /\ hist[i + 1][t] = None
  <2> DEFINE e == log[i]
             before == hist[i]
             after == hist[i + 1]
  <2>1. Statement(e, before, after) /\ e.kind = "drop" /\ t \in ToSet(e.tables)
    BY <1>1, <1>2 DEF Histories
  <2> HIDE DEF e, before, after
  <2>2. /\ t \in Tables /\ e.tables = <<t>> /\ before[t] # None /\ after[t] = None
        /\ Alike(before, after, {t})
    BY <2>1, DropStatement
  <2> QED BY <2>2 DEF after
<1>4. MySql[t] # None => hist[i + 1][t] # None
  BY <1>2, <1>3, ColumnsKept
<1> QED BY <1>3, <1>4

\* ...and one that is gone was dropped.
LEMMA GoneIsDropped ==
  ASSUME MySqlTyped, LogInv, Histories, NEW p \in Nat, Calm(p), NEW t \in Tables,
         NEW n \in p + 1 .. Len(log) + 1, hist[n][t] # None, MySql[t] = None
  PROVE  \E i \in n .. Len(log) : log[i].kind = "drop" /\ t \in ToSet(log[i].tables)
<1> DEFINE Bad == {k \in n .. Len(log) + 1 : hist[k][t] = None}
<1>1. Len(log) \in Nat /\ MySql = hist[Len(log) + 1] /\ n \in Nat
  BY HistoryEnds
<1>2. PICK k \in Bad : \A j \in Bad : k <= j
  <2>1. Bad \in SUBSET Nat
    BY <1>1
  <2>2. Len(log) + 1 \in Bad
    BY <1>1
  <2> HIDE DEF Bad
  <2> QED BY <2>1, <2>2, LeastOf
<1>3. k \in n .. Len(log) + 1 /\ hist[k][t] = None
  BY <1>2
<1>4. k # n
  BY <1>3
<1>5. k - 1 \in n .. Len(log) + 1 /\ k - 1 \in n .. Len(log) /\ k - 1 \in 1 .. Len(log)
      /\ k - 1 \in p + 1 .. Len(log) /\ (k - 1) + 1 = k /\ ~ (k <= k - 1)
  BY <1>1, <1>3, <1>4
<1> DEFINE j == k - 1
<1> HIDE DEF j
<1>6. Statement(log[j], hist[j], hist[k]) /\ log[j].kind \in Harmless \cup {"row"}
  BY <1>5 DEF Histories, Calm, j
<1>7. hist[j][t] # None
  BY <1>2, <1>5 DEF j
<1> DEFINE e == log[j]
           u == e.tables[1]
<1> HIDE DEF e
<1>8. OneStatement(e, u, hist[j], hist[k]) /\ u \in Tables /\ e.kind \in {"row", "drop", "truncate", "other"}
  BY <1>6 DEF Statement, Harmless, e
<1> HIDE DEF u
<1>9. t = u
  BY <1>3, <1>7, <1>8 DEF OneStatement, Alike
<1>10. e.kind = "drop" /\ e.tables = <<t>>
  BY <1>3, <1>8, <1>9 DEF OneStatement, SameColumns, Alters
<1>11. t \in ToSet(e.tables)
  BY <1>10 DEF ToSet
<1> QED BY <1>5, <1>10, <1>11 DEF e, j

-----------------------------------------------------------------------------
\* The store, once all that the writer holds and the channel has is stored.

\* The writer at some point of the channel: the tables with the pending rows stored, the
\* layouts and the checkpoint that would be persisted next.
States ==
  [view : [Tables -> LocalTable \cup {None}], lay : [Tables -> Seq(Columns) \cup {None}], cp : Nat]

\* Two functions of the tables that may differ on those of D only.
Agree(f, g, D) == \A t \in Tables \ D : f[t] = g[t]

\* What the writer has is s, but for the tables a schema was not applied to.
Like(s) ==
  /\ Agree(s.view, Flushed, damaged) /\ Agree(s.lay, layouts, damaged)
  /\ s.cp = (IF winCp # 0 THEN winCp ELSE IF ddlCp # 0 THEN ddlCp ELSE ckpt)

\* Table t as MySQL had it behind position p, or before when it is about to be dropped.
Current(t, table, p) ==
  \E m \in 1 .. Len(log) + 1 : table = Loaded(hist[m][t]) /\ (m > p \/ DropAhead(t, p))

Covered(view, p) == \A t \in AllowedTables : Current(t, view[t], p)

Good(s) == s.cp \in startCp .. Len(log) /\ Covered(s.view, s.cp)

\* Event e of the channel is accepted at s, and makes r of it.
Applies(s, e, r) ==
  /\ e.op = "row" =>
       /\ r.view = [s.view EXCEPT ![e.table] =
                      RowStored(s.view[e.table], s.lay[e.table], e.row)]
       /\ r.lay = s.lay /\ r.cp = e.cp
  /\ e.op = "schema" =>
       /\ r.view = [s.view EXCEPT ![e.table] =
                      Completed(Created(s.view[e.table], e.cols), e.cols)]
       /\ r.lay = InstallLayout(s.lay, e.table, e.cols) /\ r.cp = s.cp
  /\ e.op = "ddl" =>
       /\ Taken(e, s.view, s.lay) # None
       /\ r.view = Taken(e, s.view, s.lay)
       /\ r.lay = Refreshed(e, s.lay) /\ r.cp = e.cp

\* ...and what is stored then is covered; by the checkpoint before as well when e is a
\* statement, whose own checkpoint is a transaction of its own.
Link(s, e, r) ==
  /\ s \in States /\ r \in States /\ Good(r)
  /\ Applies(s, e, r) /\ (e.op = "ddl" => Covered(r.view, s.cp))

\* The events of q lead from s to r.
Leads(run, s, q, r) ==
  /\ run \in [1 .. Len(q) + 1 -> States] /\ run[1] = s /\ run[Len(q) + 1] = r
  /\ \A k \in 1 .. Len(q) : Link(run[k], q[k], run[k + 1])

Reaches(s, q, r) == \E run : Leads(run, s, q, r)

LEMMA ReachesSelf ==
  ASSUME NEW s \in States
  PROVE  Reaches(s, <<>>, s)
<1> DEFINE run == [k \in 1 .. 1 |-> s]
<1>1. Len(<<>>) = 0
  OBVIOUS
<1>2. run \in [1 .. 0 + 1 -> States] /\ run[1] = s
  OBVIOUS
<1> HIDE DEF run
<1>3. Leads(run, s, <<>>, s)
  BY <1>1, <1>2 DEF Leads
<1> QED BY <1>3 DEF Reaches

LEMMA ReachesBack ==
  ASSUME NEW s, NEW r, Reaches(s, <<>>, r)
  PROVE  r = s
<1>1. Len(<<>>) = 0 /\ 0 + 1 = 1
  OBVIOUS
<1> QED BY <1>1 DEF Reaches, Leads

LEMMA ReachesOne ==
  ASSUME NEW s \in States, NEW e, NEW r, Link(s, e, r)
  PROVE  Reaches(s, <<e>>, r)
<1> DEFINE run == [k \in 1 .. 2 |-> IF k = 1 THEN s ELSE r]
           q == <<e>>
<1>1. r \in States
  BY DEF Link
<1>2. Len(q) = 1 /\ q[1] = e
  OBVIOUS
<1>3. run \in [1 .. 2 -> States] /\ run[1] = s /\ run[2] = r
  BY <1>1
<1> HIDE DEF run, q
<1>4. ASSUME NEW k \in 1 .. 1
      PROVE  Link(run[k], q[k], run[k + 1])
  <2>1. k = 1 /\ k + 1 = 2
    OBVIOUS
  <2>2. Link(run[1], q[1], run[2])
    BY <1>2, <1>3
  <2> QED BY <2>1, <2>2
<1>5. Leads(run, s, q, r)
  BY <1>2, <1>3, <1>4 DEF Leads
<1>6. Reaches(s, q, r)
  BY <1>5 DEF Reaches
<1> QED BY <1>6 DEF q

\* Runs are put together.
LEMMA ReachesFurther ==
  ASSUME NEW E, NEW q \in Seq(E), NEW p \in Seq(E), NEW s, NEW r, NEW x,
         Reaches(s, q, r), Reaches(r, p, x)
  PROVE  Reaches(s, q \o p, x)
<1> DEFINE m == Len(q)
           n == Len(p)
<1>1. m \in Nat /\ n \in Nat
  OBVIOUS
<1>2. PICK f : Leads(f, s, q, r)
  BY DEF Reaches
<1>3. PICK g : Leads(g, r, p, x)
  BY DEF Reaches
<1> DEFINE run == [k \in 1 .. m + n + 1 |-> IF k <= m THEN f[k] ELSE g[k - m]]
<1>4. /\ f \in [1 .. m + 1 -> States] /\ f[1] = s /\ f[m + 1] = r
      /\ \A k \in 1 .. m : Link(f[k], q[k], f[k + 1])
  BY <1>2 DEF Leads
<1>5. /\ g \in [1 .. n + 1 -> States] /\ g[1] = r /\ g[n + 1] = x
      /\ \A k \in 1 .. n : Link(g[k], p[k], g[k + 1])
  BY <1>3 DEF Leads
<1>6. Len(q \o p) = m + n
  OBVIOUS
<1>7. /\ \A k \in 1 .. m : (q \o p)[k] = q[k]
      /\ \A k \in 1 .. n : (q \o p)[m + k] = p[k]
  OBVIOUS
<1> DEFINE w == q \o p
<1>w. Len(w) = m + n /\ (\A k \in 1 .. m : w[k] = q[k]) /\ (\A k \in 1 .. n : w[m + k] = p[k])
  BY <1>6, <1>7
<1> HIDE DEF m, n, w
<1>8. /\ run \in [1 .. m + n + 1 -> States]
      /\ \A k \in 1 .. m + 1 : run[k] = f[k]
      /\ \A k \in 1 .. n + 1 : run[m + k] = g[k]
  <2>1. ASSUME NEW k \in 1 .. m + n + 1
        PROVE  run[k] \in States
    <3>1. CASE k <= m
      <4>1. k \in 1 .. m + 1
        BY <1>1, <3>1
      <4> QED BY <1>4, <3>1, <4>1
    <3>2. CASE ~ (k <= m)
      <4>1. k - m \in 1 .. n + 1
        BY <1>1, <3>2
      <4> QED BY <1>5, <3>2, <4>1
    <3> QED BY <3>1, <3>2
  <2>2. ASSUME NEW k \in 1 .. m + 1
        PROVE  run[k] = f[k]
    <3>1. k \in 1 .. m + n + 1
      BY <1>1
    <3>2. CASE k <= m
      BY <3>1, <3>2
    <3>3. CASE ~ (k <= m)
      <4>1. k = m + 1 /\ k - m = 1
        BY <1>1, <3>3
      <4> QED BY <1>4, <1>5, <3>1, <3>3, <4>1
    <3> QED BY <3>2, <3>3
  <2>3. ASSUME NEW k \in 1 .. n + 1
        PROVE  run[m + k] = g[k]
    <3>1. m + k \in 1 .. m + n + 1 /\ ~ (m + k <= m) /\ (m + k) - m = k
      BY <1>1
    <3> QED BY <3>1
  <2> QED BY <2>1, <2>2, <2>3
<1> HIDE DEF run
<1>9. ASSUME NEW k \in 1 .. m + n
      PROVE  Link(run[k], w[k], run[k + 1])
  <2>1. CASE k <= m
    <3>1. k \in 1 .. m /\ k \in 1 .. m + 1 /\ k + 1 \in 1 .. m + 1
      BY <1>1, <2>1
    <3>2. run[k] = f[k] /\ run[k + 1] = f[k + 1] /\ w[k] = q[k]
      BY <1>w, <1>8, <3>1
    <3>3. Link(f[k], q[k], f[k + 1])
      BY <1>4, <3>1
    <3> QED BY <3>2, <3>3
  <2>2. CASE ~ (k <= m)
    <3> DEFINE j == k - m
    <3>1. j \in 1 .. n /\ j \in 1 .. n + 1 /\ j + 1 \in 1 .. n + 1 /\ m + j = k
          /\ m + (j + 1) = k + 1
      BY <1>1, <2>2
    <3> HIDE DEF j
    <3>2. run[k] = g[j] /\ run[k + 1] = g[j + 1] /\ w[k] = p[j]
      BY <1>w, <1>8, <3>1
    <3>3. Link(g[j], p[j], g[j + 1])
      BY <1>5, <3>1
    <3> QED BY <3>2, <3>3
  <2> QED BY <2>1, <2>2
<1>10. run[1] = s /\ run[m + n + 1] = x
  <2>1. 1 \in 1 .. m + 1 /\ n + 1 \in 1 .. n + 1 /\ m + (n + 1) = m + n + 1
    BY <1>1
  <2> QED BY <1>4, <1>5, <1>8, <2>1
<1>11. Leads(run, s, w, x)
  BY <1>w, <1>8, <1>9, <1>10 DEF Leads
<1>12. Reaches(s, w, x)
  BY <1>11 DEF Reaches
<1> QED BY <1>12 DEF w

\* A run is its first step and the rest.
LEMMA ReachesRest ==
  ASSUME NEW E, NEW q \in Seq(E), q # <<>>, NEW s, NEW r, Reaches(s, q, r)
  PROVE  \E x : Link(s, Head(q), x) /\ Reaches(x, Tail(q), r)
<1> DEFINE n == Len(q)
           rest == Tail(q)
<1>1. /\ n \in Nat /\ n >= 1 /\ Head(q) = q[1] /\ Len(rest) = n - 1
      /\ \A k \in 1 .. n - 1 : rest[k] = q[k + 1]
  OBVIOUS
<1>2. PICK f : Leads(f, s, q, r)
  BY DEF Reaches
<1>3. /\ f \in [1 .. n + 1 -> States] /\ f[1] = s /\ f[n + 1] = r
      /\ \A k \in 1 .. n : Link(f[k], q[k], f[k + 1])
  BY <1>2 DEF Leads
<1> DEFINE run == [k \in 1 .. n |-> f[k + 1]]
<1> HIDE DEF n, rest
<1>4. run \in [1 .. n -> States]
  <2>1. \A k \in 1 .. n : k + 1 \in 1 .. n + 1
    BY <1>1
  <2> QED BY <1>3, <2>1
<1>5. Link(f[1], q[1], f[2])
  <2>1. 1 \in 1 .. n /\ 1 + 1 = 2
    BY <1>1
  <2> QED BY <1>3, <2>1
<1>6. run[1] = f[2] /\ run[n] = r
  <2>1. 1 \in 1 .. n /\ 1 + 1 = 2 /\ n \in 1 .. n
    BY <1>1
  <2> QED BY <1>3, <2>1
<1>7. ASSUME NEW k \in 1 .. n - 1
      PROVE  Link(run[k], rest[k], run[k + 1])
  <2>1. k \in 1 .. n /\ k + 1 \in 1 .. n
    BY <1>1
  <2>2. Link(f[k + 1], q[k + 1], f[(k + 1) + 1])
    BY <1>3, <2>1
  <2>3. run[k] = f[k + 1] /\ run[k + 1] = f[(k + 1) + 1] /\ rest[k] = q[k + 1]
    BY <1>1, <2>1
  <2> HIDE DEF run
  <2> QED BY <2>2, <2>3
<1> HIDE DEF run
<1>8. Leads(run, f[2], rest, r)
  <2>1. (n - 1) + 1 = n
    BY <1>1
  <2> QED BY <1>1, <1>4, <1>6, <1>7, <2>1 DEF Leads
<1>9. Link(s, Head(q), f[2]) /\ Reaches(f[2], rest, r)
  BY <1>1, <1>3, <1>5, <1>8 DEF Reaches
<1> QED BY <1>9 DEF rest

\* A run stays one as long as its links do.
LEMMA ReachesStill ==
  ASSUME \A a, e, b : Link(a, e, b) => Link(a, e, b)', NEW s, NEW q, NEW r, Reaches(s, q, r)
  PROVE  Reaches(s, q, r)'
<1>1. PICK run : Leads(run, s, q, r)
  BY DEF Reaches
<1>2. Leads(run, s, q, r)'
  BY <1>1 DEF Leads
<1> QED BY <1>2 DEF Reaches

\* A run from a good state ends in one.
LEMMA ReachesGood ==
  ASSUME NEW E, NEW q \in Seq(E), NEW s \in States, Good(s), NEW r, Reaches(s, q, r)
  PROVE  r \in States /\ Good(r)
<1>1. PICK f : Leads(f, s, q, r)
  BY DEF Reaches
<1>2. Len(q) \in Nat
  OBVIOUS
<1>3. CASE Len(q) = 0
  BY <1>1, <1>3 DEF Leads
<1>4. CASE Len(q) # 0
  <2>1. Len(q) \in 1 .. Len(q)
    BY <1>2, <1>4
  <2>2. Link(f[Len(q)], q[Len(q)], f[Len(q) + 1])
    BY <1>1, <2>1 DEF Leads
  <2> QED BY <1>1, <2>2 DEF Leads, Link
<1> QED BY <1>3, <1>4

-----------------------------------------------------------------------------
\* Where the reader may go on from.

\* What is behind position p does not both truncate and drop tables.
Gentle(p) == ~ ({"truncate", "drop"} \subseteq Pending(p))

\* Every truncation that is yet to be read is behind the checkpoint.
TruncatesAfter(cp) == \A i \in pos + 1 .. Len(log) : log[i].kind = "truncate" => cp < i

\* The tables the reader has a schema of are there, with its columns.
Known(s) ==
  \A t \in AllowedTables : schemas[t] # None =>
    /\ s.lay[t] = ProjectSchema(schemas[t])
    /\ s.view[t] # None /\ s.view[t].cols = ToSet(ProjectSchema(schemas[t]))

\* A table the reader has no schema of is gone, or about to be dropped.
Missing == \A t \in AllowedTables : schemas[t] = None /\ hist[pos + 1][t] # None => DropAhead(t, pos)

\* The session reads what may have been read before,
Calmly(s) == Undisturbed /\ Gentle(startCp) /\ TruncatesAfter(s.cp)

\* or it reads for the first time, up to statement d.
Before(s, d) ==
  /\ Awaited(d) /\ s.cp < d
  /\ \A t \in AllowedTables : \E m \in pos + 1 .. d : s.view[t] = Loaded(hist[m][t])
  /\ \A t \in AllowedTables : schemas[t] = None => hist[pos + 1][t] = None

End(s) ==
  /\ reader = "connecting" => Gentle(startCp) /\ TruncatesAfter(s.cp)
  /\ reader = "streaming" =>
       /\ Known(s) /\ Covered(s.view, pos) /\ Missing
       /\ Calmly(s) \/ \E d \in pos + 1 .. Len(log) + 1 : Before(s, d)

-----------------------------------------------------------------------------
\* MySQL executes a statement.

LEMMA InOrderReads ==
  ASSUME InOrder
  PROVE  ReadsInTime
<1>1. ASSUME NEW kinds \in Replayable
      PROVE  kinds \subseteq Harmless
  BY DEF InOrder, Harmless
<1>2. ASSUME NEW kinds \in Rewindable
      PROVE  kinds \subseteq Harmless
  BY DEF InOrder, Harmless
<1> QED BY <1>1, <1>2 DEF InOrder, ReadsInTime

\* A longer log takes nothing from what is covered.
LEMMA ExecuteCovers ==
  ASSUME MySqlTyped, ReaderTyped, NEW event, NEW db, Executed(event, db)
  PROVE  /\ \A t, p : p \in Nat /\ DropAhead(t, p) => DropAhead(t, p)'
         /\ \A view, p : p \in Nat /\ Covered(view, p) => Covered(view, p)'
         /\ \A s : Good(s) => Good(s)'
         /\ \A a, e, b : Link(a, e, b) => Link(a, e, b)'
<1>1. /\ Len(log) \in Nat /\ Len(log') = Len(log) + 1 /\ startCp \in Nat
      /\ \A i \in 1 .. Len(log) : log'[i] = log[i]
      /\ \A n \in 1 .. Len(log) + 1 : hist'[n] = hist[n]
      /\ startCp' = startCp
  BY HistoryEnds, LoggedHistory DEF Executed, Logged, readerVars, ReaderTyped
<1>2. ASSUME NEW t, NEW p \in Nat, DropAhead(t, p)
      PROVE  DropAhead(t, p)'
  <2>1. PICK i \in p + 1 .. Len(log) : log[i].kind = "drop" /\ t \in ToSet(log[i].tables)
    BY <1>2 DEF DropAhead
  <2>2. i \in p + 1 .. Len(log') /\ log'[i] = log[i]
    BY <1>1
  <2> QED BY <2>1, <2>2 DEF DropAhead
<1>3. ASSUME NEW view, NEW p \in Nat, Covered(view, p)
      PROVE  Covered(view, p)'
  <2>1. ASSUME NEW t \in AllowedTables
        PROVE  Current(t, view[t], p)'
    <3>1. PICK m \in 1 .. Len(log) + 1 : view[t] = Loaded(hist[m][t]) /\ (m > p \/ DropAhead(t, p))
      BY <1>3 DEF Covered, Current
    <3>2. m \in 1 .. Len(log') + 1 /\ hist'[m] = hist[m]
      BY <1>1
    <3> QED BY <1>2, <3>1, <3>2 DEF Current
  <2> QED BY <2>1 DEF Covered
<1>4. ASSUME NEW s, Good(s)
      PROVE  Good(s)'
  <2>1. s.cp \in Nat /\ s.cp \in startCp' .. Len(log')
    BY <1>1, <1>4 DEF Good
  <2>2. Covered(s.view, s.cp)'
    BY <1>3, <1>4, <2>1 DEF Good
  <2> QED BY <2>1, <2>2 DEF Good
<1>5. ASSUME NEW a, NEW e, NEW b, Link(a, e, b)
      PROVE  Link(a, e, b)'
  <2>1. /\ a \in States /\ b \in States /\ Good(b) /\ Applies(a, e, b)
        /\ e.op = "ddl" => Covered(b.view, a.cp)
    BY <1>5 DEF Link
  <2>2. a.cp \in Nat
    BY <2>1 DEF States
  <2>3. Good(b)' /\ (e.op = "ddl" => Covered(b.view, a.cp)')
    BY <1>3, <1>4, <2>1, <2>2
  <2> QED BY <2>1, <2>3 DEF Link, Applies
<1> QED BY <1>2, <1>3, <1>4, <1>5

\* What an event that MySQL logs makes of the end of the run.
LEMMA ExecuteEnd ==
  ASSUME InOrder, MySqlTyped, ReaderTyped, ReaderInv, NEW event, NEW db, Executed(event, db),
         NEW n, n = Len(log) + 1, NEW s \in States, Good(s), End(s)
  PROVE  End(s)'
<1>1. /\ Len(log) \in Nat /\ n \in Nat /\ MySql = hist[n] /\ Len(log') = n /\ log'[n] = event
      /\ \A i \in 1 .. Len(log) : log'[i] = log[i]
      /\ hist'[n + 1] = db /\ \A i \in 1 .. n : hist'[i] = hist[i]
  BY HistoryEnds, LoggedHistory
<1>2. /\ reader' = reader /\ pos' = pos /\ startCp' = startCp /\ schemas' = schemas
      /\ pos \in 0 .. Len(log) /\ startCp \in 0 .. Len(log)
  BY DEF Executed, Logged, readerVars, ReaderTyped
<1>3. s.cp \in Nat /\ s.cp < n
  BY <1>1, <1>2 DEF Good
<1>r. ReadsInTime /\ n = Len(log) + 1
  BY InOrderReads
<1>4. ASSUME event.kind = "row" \/ Pending(pos) = {}, TruncatesAfter(s.cp)
      PROVE  TruncatesAfter(s.cp)'
  <2>1. ASSUME NEW i \in pos + 1 .. n, log'[i].kind = "truncate"
        PROVE  s.cp < i
    <3>1. CASE i = n
      BY <1>3, <3>1
    <3>2. CASE i # n
      <4>1. i \in pos + 1 .. Len(log) /\ log'[i] = log[i]
        BY <1>1, <1>2, <1>r, <3>2
      <4> QED BY <1>4, <2>1, <4>1 DEF TruncatesAfter
    <3> QED BY <3>1, <3>2
  <2> QED BY <1>1, <1>2, <2>1 DEF TruncatesAfter
<1>5. ASSUME event.kind = "row", Gentle(startCp)
      PROVE  Gentle(startCp)'
  <2>1. Pending(startCp)' = Pending(startCp)
    <3>1. ASSUME NEW i \in startCp + 1 .. n, log'[i].kind # "row"
          PROVE  i \in startCp + 1 .. Len(log) /\ log'[i] = log[i]
      <4>1. i # n
        BY <1>1, <1>5, <3>1
      <4> QED BY <1>1, <1>2, <1>r, <4>1
    <3>2. \A i \in startCp + 1 .. Len(log) : i \in startCp + 1 .. n /\ log'[i] = log[i]
      BY <1>1, <1>2, <1>r
    <3> QED BY <1>1, <1>2, <3>1, <3>2 DEF Pending
  <2> QED BY <1>5, <2>1 DEF Gentle
<1>6. ASSUME reader = "connecting"
      PROVE  Gentle(startCp)' /\ TruncatesAfter(s.cp)'
  <2>1. Gentle(startCp) /\ TruncatesAfter(s.cp) /\ pos = startCp
    BY <1>6 DEF End, ReaderInv
  <2>2. CASE event.kind = "row"
    BY <1>4, <1>5, <2>1, <2>2
  <2>3. CASE event.kind # "row"
    <3>1. Pending(pos) = {}
      BY <1>6, <2>3 DEF Executed, DdlTime, InOrder
    <3>2. Pending(startCp)' \subseteq {event.kind}
      <4>1. ASSUME NEW i \in startCp + 1 .. n, log'[i].kind # "row"
            PROVE  log'[i].kind = event.kind
        <5>1. CASE i = n
          BY <1>1, <5>1
        <5>2. CASE i # n
          <6>1. i \in pos + 1 .. Len(log) /\ log'[i] = log[i]
            BY <1>1, <1>2, <1>r, <2>1, <5>2
          <6>2. log[i].kind \in Pending(pos)
            BY <4>1, <6>1 DEF Pending
          <6> QED BY <3>1, <6>2
        <5> QED BY <5>1, <5>2
      <4> QED BY <1>1, <1>2, <4>1 DEF Pending
    <3>3. Gentle(startCp)'
      BY <3>2 DEF Gentle
    <3> QED BY <1>4, <2>1, <3>1, <3>3
  <2> QED BY <2>2, <2>3
<1>7. ASSUME reader = "streaming"
      PROVE  /\ Known(s)' /\ Covered(s.view, pos)' /\ Missing'
             /\ Calmly(s)' \/ \E d \in pos + 1 .. n + 1 : Before(s, d)'
  <2>1. /\ Known(s) /\ Covered(s.view, pos) /\ Missing
        /\ Calmly(s) \/ \E d \in pos + 1 .. n : Before(s, d)
    BY <1>7, <1>r DEF End
  <2>2. Known(s)'
    BY <1>2, <2>1 DEF Known
  <2>3. Covered(s.view, pos)'
    <3>1. pos \in Nat
      BY <1>2
    <3>2. \A p : p \in Nat /\ Covered(s.view, p) => Covered(s.view, p)'
      BY ExecuteCovers
    <3> QED BY <1>2, <2>1, <3>1, <3>2 DEF Covered, Current, DropAhead
  <2>4. hist'[pos + 1] = hist[pos + 1]
    BY <1>1, <1>2, <1>r
  <2>5. Missing'
    <3>1. pos \in Nat
      BY <1>2
    <3>2. \A t : DropAhead(t, pos) => DropAhead(t, pos)'
      <4>1. \A t, p : p \in Nat /\ DropAhead(t, p) => DropAhead(t, p)'
        BY ExecuteCovers
      <4> QED BY <1>2, <3>1, <4>1 DEF DropAhead
    <3> QED BY <1>2, <2>1, <2>4, <3>2 DEF Missing
  <2>6. ASSUME NEW d \in pos + 1 .. n, NEW e \in d .. n + 1, Before(s, d), Awaited(e)'
        PROVE  Before(s, e)'
    <3>1. s.cp < e
      BY <1>1, <1>2, <1>3, <2>6 DEF Before
    <3>2. ASSUME NEW t \in AllowedTables
          PROVE  \E m \in pos + 1 .. e : s.view[t] = Loaded(hist'[m][t])
      <4>1. PICK m \in pos + 1 .. d : s.view[t] = Loaded(hist[m][t])
        BY <2>6 DEF Before
      <4>2. m \in pos + 1 .. e /\ hist'[m] = hist[m]
        BY <1>1, <1>2, <4>1
      <4> QED BY <4>1, <4>2
    <3>3. \A t \in AllowedTables : schemas[t] = None => hist'[pos + 1][t] = None
      BY <2>4, <2>6 DEF Before
    <3> QED BY <1>2, <2>6, <3>1, <3>2, <3>3 DEF Before
  <2>7. CASE event.kind = "row" /\ Calmly(s)
    <3>1. Undisturbed'
      BY <1>r, <2>7, ExecuteModes DEF Calmly
    <3> QED BY <1>4, <1>5, <2>2, <2>3, <2>5, <2>7, <3>1 DEF Calmly
  <2>8. CASE event.kind = "row" /\ \E d \in pos + 1 .. n : Before(s, d)
    <3>1. PICK d \in pos + 1 .. n : Before(s, d)
      BY <2>8
    <3>2. Awaited(d)
      BY <3>1 DEF Before
    <3>3. CASE d = n
      <4>1. Awaited(n + 1)'
        BY <1>r, <2>8, <3>1, <3>2, <3>3, ExecuteModes
      <4>2. n + 1 \in d .. n + 1 /\ n + 1 \in pos + 1 .. n + 1
        BY <1>1, <1>2, <3>3
      <4>3. Before(s, n + 1)'
        BY <2>6, <3>1, <4>1, <4>2
      <4> QED BY <2>2, <2>3, <2>5, <4>2, <4>3
    <3>4. CASE d # n
      <4>1. d \in pos + 1 .. Len(log) /\ d \in d .. n + 1 /\ d \in pos + 1 .. n + 1
        BY <1>1, <1>2, <1>r, <3>1, <3>4
      <4>2. Awaited(d)'
        BY <1>r, <2>8, <3>2, <4>1, ExecuteModes
      <4>3. Before(s, d)'
        BY <2>6, <3>1, <4>1, <4>2
      <4> QED BY <2>2, <2>3, <2>5, <4>1, <4>3
    <3> QED BY <3>3, <3>4
  <2>9. CASE event.kind # "row"
    <3>1. RowsOnly(pos)
      BY <1>r, <2>9, ExecuteModes
    <3>2. \A t : ~ DropAhead(t, pos)
      BY <3>1 DEF RowsOnly, DropAhead
    <3>3. Awaited(n)'
      <4>1. Undisturbed \/ \E d \in pos + 1 .. n : Awaited(d)
        BY <2>1 DEF Calmly, Before
      <4> QED BY <1>r, <2>9, <4>1, ExecuteModes
    <3>4. ASSUME NEW t \in AllowedTables
          PROVE  \E m \in pos + 1 .. n : s.view[t] = Loaded(hist'[m][t])
      <4>1. PICK m \in 1 .. n : s.view[t] = Loaded(hist[m][t]) /\ (m > pos \/ DropAhead(t, pos))
        BY <1>r, <2>1 DEF Covered, Current
      <4>2. m \in pos + 1 .. n /\ hist'[m] = hist[m]
        BY <1>1, <1>2, <3>2, <4>1
      <4> QED BY <4>1, <4>2
    <3>5. \A t \in AllowedTables : schemas[t] = None => hist'[pos + 1][t] = None
      BY <2>1, <2>4, <3>2 DEF Missing
    <3>6. Before(s, n)'
      BY <1>2, <1>3, <3>3, <3>4, <3>5 DEF Before
    <3>7. n \in pos + 1 .. n + 1
      BY <1>1, <1>2, <1>r
    <3> QED BY <2>2, <2>3, <2>5, <3>6, <3>7
  <2> QED BY <2>1, <2>7, <2>8, <2>9
<1> QED BY <1>1, <1>2, <1>6, <1>7 DEF End

-----------------------------------------------------------------------------
\* The reader reads on.

\* The invariants of the log and of the reader.
Reliable == MySqlTyped /\ ReaderTyped /\ LogInv /\ Histories /\ ReaderInv

\* The event a step reads, and what its statement did.
LEMMA ReadStatement ==
  ASSUME Reliable, NEW kinds, Reading(kinds)
  PROVE  /\ Len(log) \in Nat /\ pos \in Nat /\ startCp \in Nat /\ startCp <= pos
         /\ pos + 1 \in 1 .. Len(log) /\ Event = log[pos + 1] /\ Event.kind \in kinds
         /\ Effect(Event, pos + 1, hist[pos + 1], hist[pos + 2])
         /\ Statement(Event, hist[pos + 1], hist[pos + 2])
         /\ SoundDb(hist[pos + 1]) /\ SoundDb(hist[pos + 2])
         /\ Fits(pos + 1) /\ reader = "streaming"
<1>1. /\ Len(log) \in Nat /\ pos \in Nat /\ startCp \in Nat /\ startCp <= pos
      /\ pos + 1 \in 1 .. Len(log) /\ Event = log[pos + 1] /\ Event.kind \in kinds
      /\ Effect(Event, pos + 1, hist[pos + 1], hist[pos + 2])
      /\ Fits(pos + 1) /\ reader = "streaming"
  BY ReadEffect DEF Reliable
<1>2. pos + 1 \in 1 .. Len(log) + 1 /\ pos + 2 \in 1 .. Len(log) + 1 /\ (pos + 1) + 1 = pos + 2
  BY <1>1
<1>3. SoundDb(hist[pos + 1]) /\ SoundDb(hist[pos + 2])
  BY <1>2, HistorySound DEF Reliable
<1>4. Statement(log[pos + 1], hist[pos + 1], hist[(pos + 1) + 1])
  BY <1>1 DEF Reliable, Histories
<1> QED BY <1>1, <1>2, <1>3, <1>4

\* What is covered at a position is covered at an earlier one.
LEMMA CoveredFrom ==
  ASSUME MySqlTyped, NEW p \in Nat, NEW q \in Nat, q <= p, NEW view, Covered(view, p)
  PROVE  Covered(view, q)
<1>1. ASSUME NEW t, DropAhead(t, p)
      PROVE  DropAhead(t, q)
  <2>1. \A i \in p + 1 .. Len(log) : i \in q + 1 .. Len(log)
    BY HistoryEnds
  <2> QED BY <1>1, <2>1 DEF DropAhead
<1>2. ASSUME NEW t \in AllowedTables
      PROVE  Current(t, view[t], q)
  <2>1. PICK m \in 1 .. Len(log) + 1 : view[t] = Loaded(hist[m][t]) /\ (m > p \/ DropAhead(t, p))
    BY DEF Covered, Current
  <2>2. m > p => m > q
    BY HistoryEnds
  <2> QED BY <1>1, <2>1, <2>2 DEF Current
<1> QED BY <1>2 DEF Covered

\* What reading an event makes of a table: it is as MySQL had it behind the event, or it is
\* as it was, the event does not change it or it is about to be dropped.
Advances(u, old, new) ==
  \/ new = Loaded(hist[pos + 2][u])
  \/ /\ new = old
     /\ \/ hist[pos + 2][u] = hist[pos + 1][u]
        \/ schemas[u] = None /\ hist[pos + 1][u] # None /\ DropAhead(u, pos + 1)

\* When a statement has been read and its effect stored, the position behind it is covered.
LEMMA ReadCovers ==
  ASSUME Reliable, NEW kinds, Reading(kinds), NEW v, NEW w, Covered(v, pos),
         \A u \in AllowedTables : Advances(u, v[u], w[u])
  PROVE  Covered(w, pos + 1)
<1>1. /\ Len(log) \in Nat /\ pos \in Nat /\ pos + 1 \in 1 .. Len(log) /\ Event = log[pos + 1]
      /\ Statement(Event, hist[pos + 1], hist[pos + 2])
      /\ pos + 2 \in 1 .. Len(log) + 1 /\ pos + 2 > pos + 1
  BY ReadStatement
<1>2. ASSUME NEW u \in AllowedTables, w[u] = Loaded(hist[pos + 2][u])
      PROVE  Current(u, w[u], pos + 1)
  BY <1>1, <1>2 DEF Current
<1>3. ASSUME NEW u \in AllowedTables
      PROVE  Current(u, w[u], pos + 1)
  <2>1. CASE w[u] = Loaded(hist[pos + 2][u])
    BY <1>2, <2>1
  <2>2. CASE w[u] = v[u] /\ hist[pos + 2][u] = hist[pos + 1][u]
    <3>1. PICK m \in 1 .. Len(log) + 1 : v[u] = Loaded(hist[m][u]) /\ (m > pos \/ DropAhead(u, pos))
      BY DEF Covered, Current
    <3>2. CASE m = pos + 1
      BY <1>2, <2>2, <3>1, <3>2
    <3>3. CASE m > pos + 1
      BY <2>2, <3>1, <3>3 DEF Current
    <3>4. CASE DropAhead(u, pos)
      <4>1. PICK i \in pos + 1 .. Len(log) : log[i].kind = "drop" /\ u \in ToSet(log[i].tables)
        BY <3>4 DEF DropAhead
      <4>2. CASE i = pos + 1
        <5> DEFINE e == log[i]
                   before == hist[pos + 1]
                   after == hist[pos + 2]
        <5>1. e.kind = "drop" /\ u \in ToSet(e.tables) /\ Statement(e, before, after)
          BY <1>1, <4>1, <4>2
        <5> HIDE DEF e, before, after
        <5>2. /\ u \in Tables /\ e.tables = <<u>> /\ before[u] # None /\ after[u] = None
              /\ Alike(before, after, {u})
          BY <5>1, DropStatement
        <5> QED BY <2>2, <5>2 DEF before, after
      <4>3. CASE i # pos + 1
        <5>1. i \in (pos + 1) + 1 .. Len(log)
          BY <1>1, <4>3
        <5>2. DropAhead(u, pos + 1)
          BY <4>1, <5>1 DEF DropAhead
        <5> QED BY <2>2, <3>1, <5>2 DEF Current
      <4> QED BY <4>2, <4>3
    <3>5. m > pos => m = pos + 1 \/ m > pos + 1
      BY <1>1
    <3> QED BY <3>1, <3>2, <3>3, <3>4, <3>5
  <2>3. CASE w[u] = v[u] /\ DropAhead(u, pos + 1)
    BY <2>3 DEF Covered, Current
  <2> QED BY <2>1, <2>2, <2>3 DEF Advances
<1> QED BY <1>3 DEF Covered

\* The end of the run behind a row
LEMMA RowEnd ==
  ASSUME Reliable, Moves({"row"}), UNCHANGED schemas,
         NEW s \in States, NEW r \in States, Good(s), End(s),
         r.cp \in {s.cp, pos + 1}, \A u \in AllowedTables : Advances(u, s.view[u], r.view[u]),
         Known(r)'
  PROVE  End(r)' /\ Covered(r.view, pos + 1)
<1>1. /\ Len(log) \in Nat /\ pos \in Nat /\ pos + 1 \in 1 .. Len(log) /\ Event = log[pos + 1]
      /\ Effect(Event, pos + 1, hist[pos + 1], hist[pos + 2]) /\ Event.kind = "row"
      /\ reader = "streaming" /\ startCp \in Nat
  BY ReadStatement DEF Moves
<1>2. /\ UNCHANGED <<mysqlVars, startCp, schemas>> /\ reader' = "streaming" /\ pos' = pos + 1
      /\ Reading({"row"})
  BY DEF Moves
<1>3. /\ Known(s) /\ Covered(s.view, pos) /\ Missing
      /\ Calmly(s) \/ \E d \in pos + 1 .. Len(log) + 1 : Before(s, d)
  BY <1>1 DEF End
<1>4. Covered(r.view, pos + 1)
  BY <1>2, <1>3, ReadCovers
<1>5. Covered(r.view, pos)'
  BY <1>2, <1>4 DEF Covered, Current, DropAhead, mysqlVars
<1>6. \A u \in Tables : hist[pos + 1][u] = None <=> hist[pos + 2][u] = None
  BY <1>1 DEF Effect, RowEffect
<1>7. ASSUME NEW u, DropAhead(u, pos)
      PROVE  DropAhead(u, pos + 1)
  <2>1. PICK i \in pos + 1 .. Len(log) : log[i].kind = "drop" /\ u \in ToSet(log[i].tables)
    BY <1>7 DEF DropAhead
  <2>2. i # pos + 1
    BY <1>1, <2>1
  <2>3. i \in (pos + 1) + 1 .. Len(log)
    BY <1>1, <2>2
  <2> QED BY <2>1, <2>3 DEF DropAhead
<1>8. pos' + 1 = pos + 2
  BY <1>1, <1>2
<1>9. Missing'
  <2>1. ASSUME NEW u \in AllowedTables, schemas[u] = None, hist[pos + 2][u] # None
        PROVE  DropAhead(u, pos + 1)
    <3>1. hist[pos + 1][u] # None
      BY <1>6, <2>1 DEF AllowedTables
    <3> QED BY <1>3, <1>7, <2>1, <3>1 DEF Missing
  <2> QED BY <1>2, <1>8, <2>1 DEF Missing, DropAhead, mysqlVars
<1>m. MySqlTyped /\ ReaderTyped /\ LogInv /\ ReaderInv
  BY DEF Reliable
<1>10. CASE Calmly(s)
  <2>1. Undisturbed'
    BY <1>10, <1>m, RowModes DEF Calmly
  <2>2. Gentle(startCp)'
    BY <1>2, <1>10 DEF Calmly, Gentle, Pending, mysqlVars
  <2>3. ASSUME NEW i \in pos + 2 .. Len(log), log[i].kind = "truncate"
        PROVE  r.cp < i
    <3>1. i \in pos + 1 .. Len(log) /\ pos + 1 < i
      BY <1>1
    <3>2. s.cp < i
      BY <1>10, <2>3, <3>1 DEF Calmly, TruncatesAfter
    <3> QED BY <3>1, <3>2
  <2>4. TruncatesAfter(r.cp)'
    BY <1>2, <1>8, <2>3 DEF TruncatesAfter, mysqlVars
  <2>5. Calmly(r)'
    BY <2>1, <2>2, <2>4 DEF Calmly
  <2> QED BY <1>2, <1>4, <1>5, <1>9, <2>5 DEF End
<1>11. CASE \E d \in pos + 1 .. Len(log) + 1 : Before(s, d)
  <2>1. PICK d \in pos + 1 .. Len(log) + 1 : Before(s, d)
    BY <1>11
  <2>2. d \in pos + 2 .. Len(log) + 1 /\ Awaited(d)'
    BY <1>m, <2>1, RowModes DEF Before
  <2>3. r.cp < d
    <3>1. s.cp < d /\ pos + 1 < d
      BY <1>1, <2>1, <2>2 DEF Before
    <3> QED BY <3>1
  <2>4. ASSUME NEW u \in AllowedTables
        PROVE  \E m \in pos + 2 .. d : r.view[u] = Loaded(hist[m][u])
    <3>1. pos + 2 \in pos + 2 .. d
      BY <1>1, <2>2
    <3>2. CASE r.view[u] = Loaded(hist[pos + 2][u])
      BY <3>1, <3>2
    <3>3. CASE r.view[u] = s.view[u] /\ hist[pos + 2][u] = hist[pos + 1][u]
      <4>1. PICK m \in pos + 1 .. d : s.view[u] = Loaded(hist[m][u])
        BY <2>1 DEF Before
      <4>2. m = pos + 1 \/ m \in pos + 2 .. d
        BY <1>1, <2>2
      <4> QED BY <3>1, <3>3, <4>1, <4>2
    <3>4. ~ (schemas[u] = None /\ hist[pos + 1][u] # None)
      BY <2>1 DEF Before
    <3> QED BY <3>2, <3>3, <3>4 DEF Advances
  <2>5. \A u \in AllowedTables : schemas[u] = None => hist[pos + 2][u] = None
    BY <1>6, <2>1 DEF Before, AllowedTables
  <2>6. Before(r, d)'
    BY <1>2, <1>8, <2>2, <2>3, <2>4, <2>5 DEF Before, mysqlVars
  <2>7. d \in pos' + 1 .. Len(log') + 1
    BY <1>2, <1>8, <2>2 DEF mysqlVars
  <2>8. Calmly(r)' \/ \E c \in pos' + 1 .. Len(log') + 1 : Before(r, c)'
    BY <2>6, <2>7
  <2> QED BY <1>2, <1>4, <1>5, <1>9, <2>8 DEF End
<1> QED BY <1>3, <1>10, <1>11

\* ...and behind a statement.
LEMMA StatementEnd ==
  ASSUME Reliable, NEW kinds, Moves(kinds), "row" \notin kinds, Refits,
         NEW s \in States, NEW r \in States, Good(s), End(s),
         r.cp \in {s.cp, pos + 1}, \A u \in AllowedTables : Advances(u, s.view[u], r.view[u]),
         \A u \in AllowedTables :
           schemas'[u] = None => hist[pos + 2][u] = None \/ DropAhead(u, pos + 1),
         Known(r)'
  PROVE  End(r)' /\ Covered(r.view, pos + 1)
<1>1. /\ Len(log) \in Nat /\ pos \in Nat /\ pos + 1 \in 1 .. Len(log)
      /\ reader = "streaming" /\ startCp \in Nat
  BY ReadStatement DEF Moves
<1>2. /\ UNCHANGED <<mysqlVars, startCp>> /\ reader' = "streaming" /\ pos' = pos + 1
      /\ Reading(kinds)
  BY DEF Moves
<1>3. /\ Known(s) /\ Covered(s.view, pos) /\ Missing
      /\ Calmly(s) \/ \E d \in pos + 1 .. Len(log) + 1 : Before(s, d)
  BY <1>1 DEF End
<1>4. Covered(r.view, pos + 1)
  BY <1>2, <1>3, ReadCovers
<1>5. Covered(r.view, pos)'
  BY <1>2, <1>4 DEF Covered, Current, DropAhead, mysqlVars
<1>8. pos' + 1 = pos + 2
  BY <1>1, <1>2
<1>9. Missing'
  BY <1>2, <1>8 DEF Missing, DropAhead, mysqlVars
<1>m. MySqlTyped /\ ReaderTyped /\ LogInv /\ ReaderInv
  BY DEF Reliable
<1>10. CASE Calmly(s)
  <2>1. Undisturbed'
    BY <1>10, <1>m, StatementModes DEF Calmly
  <2>2. Gentle(startCp)'
    BY <1>2, <1>10 DEF Calmly, Gentle, Pending, mysqlVars
  <2>3. ASSUME NEW i \in pos + 2 .. Len(log), log[i].kind = "truncate"
        PROVE  r.cp < i
    <3>1. i \in pos + 1 .. Len(log) /\ pos + 1 < i
      BY <1>1
    <3>2. s.cp < i
      BY <1>10, <2>3, <3>1 DEF Calmly, TruncatesAfter
    <3> QED BY <3>1, <3>2
  <2>4. TruncatesAfter(r.cp)'
    BY <1>2, <1>8, <2>3 DEF TruncatesAfter, mysqlVars
  <2>5. Calmly(r)'
    BY <2>1, <2>2, <2>4 DEF Calmly
  <2> QED BY <1>2, <1>4, <1>5, <1>9, <2>5 DEF End
<1>11. CASE \E d \in pos + 1 .. Len(log) + 1 : Before(s, d)
  <2>1. PICK d \in pos + 1 .. Len(log) + 1 : Before(s, d)
    BY <1>11
  <2>2. PICK e \in Nat : e = Len(log) + 1
    BY <1>1
  <2>3. d = pos + 1 /\ RowsOnly(d) /\ Awaited(e)'
    BY <1>m, <2>1, <2>2, StatementModes DEF Before
  <2>4. \A u : ~ DropAhead(u, pos + 1)
    BY <2>3 DEF RowsOnly, DropAhead
  <2>5. r.cp < e
    <3>1. s.cp < e /\ pos + 1 < e
      BY <1>1, <2>1, <2>2 DEF Good, Before
    <3> QED BY <3>1
  <2>6. ASSUME NEW u \in AllowedTables
        PROVE  \E m \in pos + 2 .. e : r.view[u] = Loaded(hist[m][u])
    <3>1. pos + 2 \in pos + 2 .. e
      BY <1>1, <2>2
    <3>2. CASE r.view[u] = Loaded(hist[pos + 2][u])
      BY <3>1, <3>2
    <3>3. CASE r.view[u] = s.view[u] /\ hist[pos + 2][u] = hist[pos + 1][u]
      <4>1. PICK m \in pos + 1 .. d : s.view[u] = Loaded(hist[m][u])
        BY <2>1 DEF Before
      <4>2. m = pos + 1
        BY <1>1, <2>3
      <4> QED BY <3>1, <3>3, <4>1, <4>2
    <3> QED BY <2>4, <3>2, <3>3 DEF Advances
  <2>7. \A u \in AllowedTables : schemas'[u] = None => hist[pos + 2][u] = None
    BY <2>4
  <2>8. Before(r, e)'
    BY <1>2, <1>8, <2>3, <2>5, <2>6, <2>7 DEF Before, mysqlVars
  <2>9. e \in pos' + 1 .. Len(log') + 1
    BY <1>1, <1>2, <1>8, <2>2 DEF mysqlVars
  <2>10. Calmly(r)' \/ \E c \in pos' + 1 .. Len(log') + 1 : Before(r, c)'
    BY <2>8, <2>9
  <2> QED BY <1>2, <1>4, <1>5, <1>9, <2>10 DEF End
<1> QED BY <1>3, <1>10, <1>11

-----------------------------------------------------------------------------
\* A step of the reader sends events that lead on from s, the end of the run.
Extends(s) ==
  \E E, q, r : q \in Seq(E) /\ chan' = chan \o q /\ Reaches(s, q, r) /\ r \in States /\ End(r)'

LEMMA NothingSent ==
  ASSUME NEW s \in States, End(s)', chan' = chan \o <<>>
  PROVE  Extends(s)
<1>1. <<>> \in Seq({}) /\ Reaches(s, <<>>, s)
  BY ReachesSelf
<1> QED BY <1>1 DEF Extends

\* One event that leads on from the end of the run makes the run longer.
LEMMA OneSent ==
  ASSUME NEW s \in States, NEW e, NEW r \in States, Link(s, e, r), End(r)', chan' = chan \o <<e>>
  PROVE  Extends(s)
<1>1. <<e>> \in Seq({e}) /\ Reaches(s, <<e>>, r)
  BY ReachesOne
<1> QED BY <1>1 DEF Extends

\* While the writer runs, what is sent is received.
LEMMA SendGoesOn ==
  ASSUME NEW kinds, Reading(kinds), NEW events, Send(events), writer = "running"
  PROVE  Moves(kinds) /\ chan' = chan \o events
BY DEF Send, Moves, Reading

\* Reads a row.
LEMMA ReadRowExtends ==
  ASSUME Reliable, ReadRow, writer = "running", NEW s \in States, Good(s), End(s)
  PROVE  Extends(s)
<1>1. Reading({"row"}) /\ UNCHANGED schemas
  BY DEF ReadRow
<1>2. /\ Len(log) \in Nat /\ pos \in Nat /\ pos + 1 \in 1 .. Len(log) /\ Event = log[pos + 1]
      /\ startCp \in Nat /\ startCp <= pos
      /\ Statement(Event, hist[pos + 1], hist[pos + 2]) /\ Event.kind = "row"
      /\ SoundDb(hist[pos + 2]) /\ Fits(pos + 1) /\ reader = "streaming"
  BY <1>1, ReadStatement
<1>t. PICK t \in Tables : t = Event.tables[1]
  BY <1>2 DEF Statement
<1>n. PICK n \in Nat : n = pos + 1
  BY <1>2
<1>a. PICK after : after = hist[pos + 2][t]
  OBVIOUS
<1> DEFINE before == hist[pos + 1][t]
<1>3. /\ Alike(hist[pos + 1], hist[pos + 2], {t})
      /\ before # None /\ after # None /\ after.cols = before.cols /\ after.row = Event.arg
      /\ Sound(after)
  BY <1>2, <1>t, <1>a DEF Statement, OneStatement, SameColumns, SoundDb
<1>4. Known(s) /\ Missing
  BY <1>2 DEF End
<1>s. s.view \in [Tables -> LocalTable \cup {None}] /\ s.lay \in [Tables -> Seq(Columns) \cup {None}]
      /\ s.cp \in Nat
  BY DEF States
<1>5. \A u \in AllowedTables \ {t} : Advances(u, s.view[u], s.view[u])
  BY <1>3 DEF Advances, Alike, AllowedTables
<1>6. ASSUME ~ (TableAllowed(t) /\ schemas[t] # None)
      PROVE  Extends(s)
  <2>1. Send(<<>>)
    BY <1>t, <1>6 DEF ReadRow
  <2>2. Moves({"row"}) /\ chan' = chan \o <<>>
    BY <1>1, <2>1, SendGoesOn
  <2>3. ASSUME t \in AllowedTables
        PROVE  Advances(t, s.view[t], s.view[t])
    <3>1. schemas[t] = None
      BY <1>6, <2>3 DEF AllowedTables
    <3>2. DropAhead(t, pos)
      BY <1>3, <1>4, <2>3, <3>1 DEF Missing
    <3>3. DropAhead(t, pos + 1)
      <4>1. PICK i \in pos + 1 .. Len(log) : log[i].kind = "drop" /\ t \in ToSet(log[i].tables)
        BY <3>2 DEF DropAhead
      <4>2. i # pos + 1
        BY <1>2, <4>1
      <4>3. i \in (pos + 1) + 1 .. Len(log)
        BY <1>2, <4>2
      <4> QED BY <4>1, <4>3 DEF DropAhead
    <3> QED BY <1>3, <3>1, <3>3 DEF Advances
  <2>4. \A u \in AllowedTables : Advances(u, s.view[u], s.view[u])
    BY <1>5, <2>3
  <2>5. Known(s)'
    BY <1>1, <1>4 DEF Known
  <2>6. End(s)'
    BY <1>1, <2>2, <2>4, <2>5, RowEnd
  <2> QED BY <2>2, <2>6, NothingSent
<1>7. ASSUME TableAllowed(t), schemas[t] # None
      PROVE  Extends(s)
  <2>1. PICK sent : sent = IF Event.arg = NoRow THEN NoRow
                           ELSE ProjectRow(schemas[t], ParseRow(schemas[t], Event.arg))
    OBVIOUS
  <2>e. PICK e : e = [op |-> "row", table |-> t, row |-> sent, cp |-> n]
    OBVIOUS
  <2>2. e.op = "row" /\ e.table = t /\ e.row = sent /\ e.cp = n
    BY <2>e
  <2>3. Send(<<e>>)
    BY <1>t, <1>n, <1>7, <2>1, <2>e DEF ReadRow
  <2>4. t \in AllowedTables
    BY <1>7 DEF AllowedTables
  <2>5. after.cols = schemas[t]
    BY <1>2, <1>3, <1>7, <2>4 DEF Fits
  <2>6. /\ s.lay[t] = ProjectSchema(after.cols) /\ s.view[t] \in LocalTable
        /\ s.view[t].cols = ToSet(s.lay[t])
    BY <1>4, <1>7, <1>s, <2>4, <2>5 DEF Known
  <2>7. Loaded(after) \in LocalTable /\ Loaded(after) # None
        /\ Loaded(after).cols = ToSet(ProjectSchema(after.cols))
    BY <1>3, LoadedIs
  <2>r. PICK r : r = [view |-> [s.view EXCEPT ![t] = Loaded(after)], lay |-> s.lay, cp |-> n]
    OBVIOUS
  <2>8. r \in States /\ r.view = [s.view EXCEPT ![t] = Loaded(after)] /\ r.lay = s.lay /\ r.cp = n
    <3>1. [s.view EXCEPT ![t] = Loaded(after)] \in [Tables -> LocalTable \cup {None}]
      BY <1>s, <2>7
    <3> QED BY <1>n, <1>s, <2>r, <3>1 DEF States
  <2>9. r.view[t] = Loaded(after) /\ \A u \in Tables \ {t} : r.view[u] = s.view[u]
    BY <1>s, <2>8
  <2>10. RowStored(s.view[t], s.lay[t], sent) = Loaded(after)
    <3> DEFINE lay == s.lay[t]
               old == s.view[t]
    <3>1. sent = IF after.row = NoRow THEN NoRow
                 ELSE ProjectRow(after.cols, ParseRow(after.cols, after.row))
      BY <1>3, <2>1, <2>5
    <3>2. old \in LocalTable /\ lay = ProjectSchema(after.cols) /\ old.cols = ToSet(lay)
      BY <2>6
    <3> HIDE DEF lay, old
    <3>3. RowStored(old, lay, sent) = Loaded(after)
      BY <1>3, <3>1, <3>2, RowStoredLoaded
    <3> QED BY <3>3 DEF lay, old
  <2>11. Applies(s, e, r)
    BY <2>2, <2>8, <2>10 DEF Applies
  <2>12. Moves({"row"}) /\ chan' = chan \o <<e>>
    BY <1>1, <2>3, SendGoesOn
  <2>13. \A u \in AllowedTables : Advances(u, s.view[u], r.view[u])
    <3>1. Advances(t, s.view[t], r.view[t])
      BY <1>a, <2>9 DEF Advances
    <3>2. \A u \in AllowedTables \ {t} : r.view[u] = s.view[u]
      BY <2>9 DEF AllowedTables
    <3> QED BY <1>5, <3>1, <3>2
  <2>14. Known(r)'
    <3>1. ASSUME NEW u \in AllowedTables \ {t}, schemas[u] # None
          PROVE  /\ r.lay[u] = ProjectSchema(schemas[u])
                 /\ r.view[u] # None /\ r.view[u].cols = ToSet(ProjectSchema(schemas[u]))
      BY <1>4, <2>8, <2>9, <3>1 DEF Known, AllowedTables
    <3>2. /\ r.lay[t] = ProjectSchema(schemas[t])
          /\ r.view[t] # None /\ r.view[t].cols = ToSet(ProjectSchema(schemas[t]))
      BY <2>5, <2>6, <2>7, <2>8, <2>9
    <3> QED BY <1>1, <3>1, <3>2 DEF Known
  <2>15. End(r)' /\ Covered(r.view, pos + 1)
    BY <1>1, <1>n, <2>8, <2>12, <2>13, <2>14, RowEnd
  <2>16. Good(r)
    BY <1>2, <1>n, <2>8, <2>15 DEF Good
  <2>17. Link(s, e, r)
    BY <2>2, <2>8, <2>11, <2>16 DEF Link
  <2> QED BY <2>8, <2>12, <2>15, <2>17, OneSent
<1> QED BY <1>6, <1>7

-----------------------------------------------------------------------------
\* A statement is read again, where only harmless ones are ahead, or for the first time,
\* when all that was before it is in the store.
Freshly(s) ==
  /\ s.cp <= pos /\ RowsOnly(pos + 1)
  /\ \A u \in AllowedTables :
       s.view[u] = Loaded(hist[pos + 1][u]) /\ (schemas[u] = None => hist[pos + 1][u] = None)

\* The two ways a statement is met.
LEMMA StatementFirst ==
  ASSUME Reliable, NEW kinds, Reading(kinds), "row" \notin kinds, NEW s \in States, End(s)
  PROVE  Calmly(s) \/ Freshly(s)
<1>1. /\ Len(log) \in Nat /\ pos \in Nat /\ pos + 1 \in 1 .. Len(log) /\ Event = log[pos + 1]
      /\ Event.kind # "row" /\ reader = "streaming"
  BY ReadStatement
<1>2. ASSUME NEW d \in pos + 1 .. Len(log) + 1, Before(s, d)
      PROVE  Freshly(s)
  <2>1. d = pos + 1
    BY <1>1, <1>2 DEF Before, Awaited
  <2>2. \A i \in (pos + 1) + 1 .. Len(log) : i \in (pos + 1 .. Len(log)) \ {d}
    BY <1>1, <2>1
  <2>3. RowsOnly(pos + 1)
    BY <1>2, <2>2 DEF Before, Awaited, RowsOnly
  <2>4. ASSUME NEW u \in AllowedTables
        PROVE  s.view[u] = Loaded(hist[pos + 1][u])
    <3>1. PICK m \in pos + 1 .. d : s.view[u] = Loaded(hist[m][u])
      BY <1>2 DEF Before
    <3>2. m = pos + 1
      BY <1>1, <2>1
    <3> QED BY <3>1, <3>2
  <2>5. s.cp <= pos
    <3>1. s.cp < d /\ s.cp \in Nat
      BY <1>2 DEF Before, States
    <3> QED BY <1>1, <2>1, <3>1
  <2> QED BY <1>2, <2>3, <2>4, <2>5 DEF Freshly, Before
<1> QED BY <1>1, <1>2 DEF End

\* A table the event does not change is missing as before.
LEMMA StillMissing ==
  ASSUME Reliable, NEW kinds, Reading(kinds), Missing, NEW u \in AllowedTables, schemas[u] = None,
         hist[pos + 2][u] = hist[pos + 1][u]
  PROVE  hist[pos + 2][u] = None \/ DropAhead(u, pos + 1)
<1>1. /\ Len(log) \in Nat /\ pos \in Nat /\ pos + 1 \in 1 .. Len(log) /\ Event = log[pos + 1]
      /\ Statement(Event, hist[pos + 1], hist[pos + 2])
  BY ReadStatement
<1> SUFFICES ASSUME DropAhead(u, pos)
             PROVE  hist[pos + 2][u] = None \/ DropAhead(u, pos + 1)
  BY DEF Missing
<1>2. PICK i \in pos + 1 .. Len(log) : log[i].kind = "drop" /\ u \in ToSet(log[i].tables)
  BY DEF DropAhead
<1>3. CASE i = pos + 1
  <2> DEFINE e == log[i]
             before == hist[pos + 1]
             after == hist[pos + 2]
  <2>1. e.kind = "drop" /\ u \in ToSet(e.tables) /\ Statement(e, before, after)
    BY <1>1, <1>2, <1>3
  <2> HIDE DEF e, before, after
  <2>2. /\ u \in Tables /\ e.tables = <<u>> /\ before[u] # None /\ after[u] = None
        /\ Alike(before, after, {u})
    BY <2>1, DropStatement
  <2> QED BY <2>2 DEF after
<1>4. CASE i # pos + 1
  <2>1. i \in (pos + 1) + 1 .. Len(log)
    BY <1>1, <1>4
  <2> QED BY <1>2, <2>1 DEF DropAhead
<1> QED BY <1>3, <1>4

\* A statement is sent.
LEMMA StatementSent ==
  ASSUME Reliable, NEW kinds, Reading(kinds), NEW s \in States, NEW r \in States,
         NEW e, e.op = "ddl", Applies(s, e, r), r.cp = pos + 1, End(r)',
         Covered(r.view, pos + 1), s.cp <= pos + 1 \/ Covered(r.view, s.cp), chan' = chan \o <<e>>
  PROVE  Extends(s)
<1>1. /\ Len(log) \in Nat /\ pos \in Nat /\ pos + 1 \in 1 .. Len(log)
      /\ startCp \in Nat /\ startCp <= pos /\ MySqlTyped
  BY ReadStatement DEF Reliable
<1>2. Good(r)
  BY <1>1 DEF Good
<1>3. Covered(r.view, s.cp)
  <2>1. s.cp \in Nat /\ pos + 1 \in Nat
    BY <1>1 DEF States
  <2> QED BY <1>1, <2>1, CoveredFrom
<1>4. Link(s, e, r)
  BY <1>2, <1>3 DEF Link
<1> QED BY <1>4, OneSent

\* The event that is sent.
LEMMA DdlEventFields ==
  ASSUME NEW t, NEW new
  PROVE  /\ DdlEvent(t, new).op = "ddl" /\ DdlEvent(t, new).kind = Event.kind
         /\ DdlEvent(t, new).table = t /\ DdlEvent(t, new).arg = Event.arg
         /\ DdlEvent(t, new).new = new /\ DdlEvent(t, new).cp = pos + 1
BY DEF DdlEvent

LEMMA DropReads ==
  ASSUME Reliable, NEW t, Reading({"drop", "truncate"}), t = Event.tables[1]
  PROVE  /\ t \in Tables /\ Event.tables = <<t>>
         /\ Selected(Event.tables, {i \in DOMAIN Event.tables : TableAllowed(Event.tables[i])})
              = IF TableAllowed(t) THEN <<t>> ELSE <<>>
<1>1. /\ Event \in LogEntries /\ Event.kind \in {"drop", "truncate"}
      /\ Statement(Event, hist[pos + 1], hist[pos + 2])
  <2>1. Event \in LogEntries
    <3>1. pos + 1 \in 1 .. Len(log) /\ Event = log[pos + 1]
      BY ReadStatement
    <3> QED BY <3>1 DEF Reliable, MySqlTyped
  <2> QED BY <2>1, ReadStatement
<1>2. t \in Tables
  BY <1>1 DEF Statement
<1>3. Event.tables = <<t>>
  <2>1. CASE Event.kind = "drop"
    BY <1>1, <2>1 DEF Statement, OneStatement
  <2>2. CASE Event.kind = "truncate"
    <3>1. Event.tables \in OneTable
      BY <1>1, <2>2 DEF LogEntries
    <3> QED BY <3>1 DEF OneTable
  <2> QED BY <1>1, <2>1, <2>2
<1>4. Selected(<<t>>, {i \in DOMAIN <<t>> : TableAllowed(<<t>>[i])})
        = IF TableAllowed(t) THEN <<t>> ELSE <<>>
  <2> DEFINE S == {i \in DOMAIN <<t>> : TableAllowed(<<t>>[i])}
  <2>1. S \in SUBSET {1} /\ (1 \in S <=> TableAllowed(t))
    OBVIOUS
  <2> HIDE DEF S
  <2>2. Selected(<<t>>, S) = IF TableAllowed(t) THEN <<t>> ELSE <<>>
    BY <2>1, SelectedOne
  <2> QED BY <2>2 DEF S
<1> QED BY <1>2, <1>3, <1>4

\* Reads a DROP or a TRUNCATE.
LEMMA ReadDropExtends ==
  ASSUME Shape(Value), Reliable, ReadDrop, writer = "running", NEW s \in States, Good(s), End(s)
  PROVE  Extends(s)
<1> DEFINE kinds == {"drop", "truncate"}
<1>1. Reading(kinds) /\ "row" \notin kinds
  BY DEF ReadDrop
<1>2. /\ Len(log) \in Nat /\ pos \in Nat /\ pos + 1 \in 1 .. Len(log) /\ Event = log[pos + 1]
      /\ startCp \in Nat /\ startCp <= pos /\ Event.kind \in kinds
      /\ Statement(Event, hist[pos + 1], hist[pos + 2])
      /\ SoundDb(hist[pos + 2]) /\ Fits(pos + 1) /\ reader = "streaming"
  BY <1>1, ReadStatement
<1>t. PICK t : t = Event.tables[1]
  OBVIOUS
<1>n. PICK n \in Nat : n = pos + 1
  BY <1>2
<1>a. PICK after : after = hist[pos + 2][t]
  OBVIOUS
<1>e. PICK e : e = DdlEvent(t, None)
  OBVIOUS
<1> DEFINE before == hist[pos + 1][t]
<1>3. /\ t \in Tables /\ Event.tables = <<t>> /\ Alike(hist[pos + 1], hist[pos + 2], {t})
      /\ Event.kind = "truncate" => SameColumns(before, after, NoRow) /\ Sound(after)
      /\ Event.kind = "drop" => before # None /\ after = None
  <2>1. t \in Tables /\ Event.tables = <<t>>
    BY <1>1, <1>t, DropReads
  <2>2. OneStatement(Event, t, hist[pos + 1], hist[pos + 2])
    BY <1>2, <1>t DEF Statement
  <2> QED BY <1>2, <1>a, <2>1, <2>2 DEF OneStatement, SameColumns, SoundDb
<1>tables. Selected(Event.tables, {i \in DOMAIN Event.tables : TableAllowed(Event.tables[i])})
             = IF TableAllowed(t) THEN <<t>> ELSE <<>>
  BY <1>1, <1>t, DropReads
<1>4. /\ schemas' = [u \in Tables |-> IF Event.kind = "drop" /\ TableAllowed(t) /\ u = t
                                      THEN None ELSE schemas[u]]
      /\ Send(IF TableAllowed(t) THEN <<e>> ELSE <<>>)
  <2> DEFINE tables == Selected(Event.tables,
                                {i \in DOMAIN Event.tables : TableAllowed(Event.tables[i])})
  <2>1. /\ schemas' = [u \in Tables |->
                         IF Event.kind = "drop" /\ u \in ToSet(tables) THEN None ELSE schemas[u]]
        /\ Send([i \in DOMAIN tables |-> DdlEvent(tables[i], None)])
    BY DEF ReadDrop
  <2>2. tables = IF TableAllowed(t) THEN <<t>> ELSE <<>>
    BY <1>tables
  <2> HIDE DEF tables
  <2>3. CASE TableAllowed(t)
    <3>1. tables = <<t>> /\ ToSet(tables) = {t}
      BY <2>2, <2>3 DEF ToSet
    <3>2. [i \in DOMAIN tables |-> DdlEvent(tables[i], None)] = <<e>>
      BY <1>e, <3>1
    <3> QED BY <2>1, <2>3, <3>1, <3>2
  <2>4. CASE ~ TableAllowed(t)
    <3>1. tables = <<>> /\ ToSet(tables) = {}
      BY <2>2, <2>4 DEF ToSet
    <3>2. [i \in DOMAIN tables |-> DdlEvent(tables[i], None)] = <<>>
      BY <3>1
    <3> QED BY <2>1, <2>4, <3>1, <3>2
  <2> QED BY <2>3, <2>4
<1>5. Known(s) /\ Missing /\ (Calmly(s) \/ Freshly(s))
  BY <1>1, <1>2, StatementFirst DEF End
<1>6. Refits
  BY ReadDropReaderInv DEF Reliable
<1>s. s.view \in [Tables -> LocalTable \cup {None}] /\ s.lay \in [Tables -> Seq(Columns) \cup {None}]
      /\ s.cp \in Nat
  BY DEF States
<1>7. \A u \in AllowedTables \ {t} :
        /\ Advances(u, s.view[u], s.view[u]) /\ schemas'[u] = schemas[u]
        /\ schemas[u] = None => hist[pos + 2][u] = None \/ DropAhead(u, pos + 1)
  <2>1. ASSUME NEW u \in AllowedTables \ {t}
        PROVE  hist[pos + 2][u] = hist[pos + 1][u] /\ schemas'[u] = schemas[u]
    BY <1>3, <1>4 DEF Alike, AllowedTables
  <2> QED BY <1>1, <1>5, <2>1, StillMissing DEF Advances
<1>8. CASE ~ TableAllowed(t)
  <2>1. Moves(kinds) /\ chan' = chan \o <<>>
    BY <1>1, <1>4, <1>8, SendGoesOn
  <2>2. t \notin AllowedTables
    BY <1>8 DEF AllowedTables
  <2>3. Known(s)'
    BY <1>5, <1>7, <2>2 DEF Known
  <2> HIDE DEF kinds
  <2>4. End(s)'
    BY <1>1, <1>6, <1>7, <2>1, <2>2, <2>3, StatementEnd
  <2> QED BY <2>1, <2>4, NothingSent
<1>9. CASE TableAllowed(t)
  <2>1. Moves(kinds) /\ chan' = chan \o <<e>>
    BY <1>1, <1>4, <1>9, SendGoesOn
  <2>2. t \in AllowedTables
    BY <1>3, <1>9 DEF AllowedTables
  <2>e. e.op = "ddl" /\ e.kind = Event.kind /\ e.table = t /\ e.cp = n
    BY <1>e, <1>n, DdlEventFields
  <2>3. ASSUME NEW table \in LocalTable \cup {None}, table = Loaded(after),
               Taken(e, s.view, s.lay) = [s.view EXCEPT ![t] = table],
               schemas'[t] = None => after = None,
               schemas'[t] # None => schemas'[t] = schemas[t] /\ Refreshed(e, s.lay) = s.lay
                                     /\ table # None /\ table.cols = ToSet(ProjectSchema(schemas[t])),
               Refreshed(e, s.lay) \in {s.lay, [s.lay EXCEPT ![t] = None]},
               s.cp <= pos + 1 \/ (MySql[t] = None /\ table = None)
        PROVE  Extends(s)
    <3>1. PICK lay \in [Tables -> Seq(Columns) \cup {None}] : lay = Refreshed(e, s.lay)
      BY <1>s, <2>3
    <3>r. PICK r : r = [view |-> [s.view EXCEPT ![t] = table], lay |-> lay, cp |-> n]
      OBVIOUS
    <3>2. r \in States /\ r.view = [s.view EXCEPT ![t] = table] /\ r.lay = lay /\ r.cp = n
      <4>1. [s.view EXCEPT ![t] = table] \in [Tables -> LocalTable \cup {None}]
        BY <1>s
      <4> QED BY <1>n, <3>r, <4>1 DEF States
    <3>3. /\ r.view[t] = Loaded(after) /\ \A u \in Tables \ {t} : r.view[u] = s.view[u]
          /\ \A u \in Tables \ {t} : r.lay[u] = s.lay[u]
      BY <1>3, <1>s, <2>3, <3>1, <3>2
    <3>4. Taken(e, s.view, s.lay) # None
      <4>1. [s.view EXCEPT ![t] = table] \in [Tables -> LocalTable \cup {None}]
        BY <1>s
      <4> QED BY <2>3, <4>1, SchemaAssumption
    <3>5. Applies(s, e, r)
      BY <2>3, <2>e, <3>1, <3>2, <3>4 DEF Applies
    <3>6. \A u \in AllowedTables : Advances(u, s.view[u], r.view[u])
      <4>1. Advances(t, s.view[t], r.view[t])
        BY <1>a, <3>3 DEF Advances
      <4>2. \A u \in AllowedTables \ {t} : r.view[u] = s.view[u]
        BY <3>3 DEF AllowedTables
      <4> QED BY <1>7, <4>1, <4>2
    <3>7. \A u \in AllowedTables :
            schemas'[u] = None => hist[pos + 2][u] = None \/ DropAhead(u, pos + 1)
      BY <1>7, <1>a, <2>3
    <3>8. Known(r)'
      <4>1. ASSUME NEW u \in AllowedTables \ {t}, schemas'[u] # None
            PROVE  /\ r.lay[u] = ProjectSchema(schemas'[u])
                   /\ r.view[u] # None /\ r.view[u].cols = ToSet(ProjectSchema(schemas'[u]))
        BY <1>5, <1>7, <3>3, <4>1 DEF Known, AllowedTables
      <4>2. ASSUME schemas'[t] # None
            PROVE  /\ r.lay[t] = ProjectSchema(schemas'[t])
                   /\ r.view[t] # None /\ r.view[t].cols = ToSet(ProjectSchema(schemas'[t]))
        BY <1>5, <2>2, <2>3, <3>1, <3>2, <3>3, <4>2 DEF Known
      <4> QED BY <4>1, <4>2 DEF Known
    <3>9. End(r)' /\ Covered(r.view, pos + 1)
      <4> HIDE DEF kinds
      <4> QED BY <1>1, <1>6, <1>n, <2>1, <3>2, <3>6, <3>7, <3>8, StatementEnd
    <3>10. s.cp <= pos + 1 \/ Covered(r.view, s.cp)
      <4> SUFFICES ASSUME MySql[t] = None, table = None
                   PROVE  Covered(r.view, s.cp)
        BY <2>3
      <4>1. Current(t, r.view[t], s.cp)
        <5>1. Len(log) + 1 \in 1 .. Len(log) + 1 /\ Len(log) + 1 > s.cp
          BY <1>2 DEF Good
        <5>2. MySql = hist[Len(log) + 1]
          BY HistoryEnds DEF Reliable
        <5>3. r.view[t] = Loaded(hist[Len(log) + 1][t])
          BY <2>3, <3>3, <5>2 DEF Loaded
        <5> QED BY <5>1, <5>3 DEF Current
      <4>2. ASSUME NEW u \in AllowedTables \ {t}
            PROVE  Current(u, r.view[u], s.cp)
        BY <3>3 DEF Good, Covered, AllowedTables
      <4> QED BY <4>1, <4>2 DEF Covered
    <3> QED BY <1>1, <1>n, <2>1, <2>e, <3>2, <3>5, <3>9, <3>10, StatementSent
  <2>4. CASE Event.kind = "drop"
    <3>1. after = None /\ Loaded(after) = None /\ schemas'[t] = None
      BY <1>3, <1>4, <1>9, <2>4 DEF Loaded
    <3>2. /\ Taken(e, s.view, s.lay) = [s.view EXCEPT ![t] = None]
          /\ Refreshed(e, s.lay) = [s.lay EXCEPT ![t] = None]
      BY <2>4, <2>e DEF Taken, Refreshed
    <3>3. s.cp <= pos + 1 \/ MySql[t] = None
      <4>1. ASSUME Calmly(s)
            PROVE  MySql[t] = None
        <5>1. Calm(startCp)
          BY <4>1 DEF Calmly, Undisturbed
        <5>2. DropAhead(t, startCp)
          <6>1. pos + 1 \in startCp + 1 .. Len(log)
            BY <1>2
          <6>2. log[pos + 1].kind = "drop" /\ t \in ToSet(log[pos + 1].tables)
            BY <1>2, <1>3, <2>4 DEF ToSet
          <6> QED BY <6>1, <6>2 DEF DropAhead
        <5> QED BY <1>2, <5>1, <5>2, DroppedIsGone DEF Reliable
      <4>2. ASSUME Freshly(s)
            PROVE  s.cp <= pos + 1
        BY <1>2, <1>s, <4>2 DEF Freshly
      <4> QED BY <1>5, <4>1, <4>2
    <3> QED BY <2>3, <3>1, <3>2, <3>3
  <2>5. CASE Event.kind = "truncate"
    <3>1. /\ before # None /\ after # None /\ after.cols = before.cols /\ after.row = NoRow
          /\ Sound(after) /\ schemas'[t] = schemas[t]
      BY <1>3, <1>4, <2>5 DEF SameColumns
    <3>2. ASSUME Calmly(s)
          PROVE  schemas[t] # None /\ s.cp <= pos + 1
      <4>1. ~ DropAhead(t, pos)
        <5> SUFFICES ASSUME DropAhead(t, pos)
                     PROVE  FALSE
          OBVIOUS
        <5>1. PICK i \in pos + 1 .. Len(log) : log[i].kind = "drop"
          BY DEF DropAhead
        <5>2. i \in startCp + 1 .. Len(log) /\ pos + 1 \in startCp + 1 .. Len(log)
          BY <1>2
        <5>3. {"truncate", "drop"} \subseteq Pending(startCp)
          BY <1>2, <2>5, <5>1, <5>2 DEF Pending
        <5> QED BY <3>2, <5>3 DEF Calmly, Gentle
      <4>2. schemas[t] # None
        BY <1>5, <2>2, <3>1, <4>1 DEF Missing
      <4>3. s.cp < pos + 1
        BY <1>2, <2>5, <3>2 DEF Calmly, TruncatesAfter
      <4> QED BY <1>2, <1>s, <4>2, <4>3
    <3>3. ASSUME Freshly(s)
          PROVE  schemas[t] # None /\ s.cp <= pos + 1
      BY <1>2, <1>s, <2>2, <3>1, <3>3 DEF Freshly
    <3>4. schemas[t] # None /\ s.cp <= pos + 1
      BY <1>5, <3>2, <3>3
    <3>5. after.cols = schemas[t]
      BY <1>2, <2>2, <3>1, <3>4 DEF Fits
    <3>6. /\ s.view[t] \in LocalTable /\ s.view[t] # None
          /\ s.view[t].cols = ToSet(ProjectSchema(after.cols))
      BY <1>3, <1>5, <1>s, <2>2, <3>4, <3>5 DEF Known
    <3>7. /\ Loaded(after) \in LocalTable /\ Loaded(after) # None
          /\ Loaded(after).cols = ToSet(ProjectSchema(after.cols))
      BY <3>1, LoadedIs
    <3>8. [s.view[t] EXCEPT !.row = None] = Loaded(after)
      <4> DEFINE old == s.view[t]
      <4>1. old \in LocalTable /\ old.cols = ToSet(ProjectSchema(after.cols))
        BY <3>6
      <4> HIDE DEF old
      <4>2. [old EXCEPT !.row = None] = Loaded(after)
        BY <3>1, <4>1, EmptiedLoaded
      <4> QED BY <4>2 DEF old
    <3>9. Taken(e, s.view, s.lay) = [s.view EXCEPT ![t] = Loaded(after)]
      <4>1. Taken(e, s.view, s.lay) = [s.view EXCEPT ![t].row = None]
        BY <2>5, <2>e, <3>6 DEF Taken
      <4>2. [s.view EXCEPT ![t].row = None] = [s.view EXCEPT ![t] = [s.view[t] EXCEPT !.row = None]]
        OBVIOUS
      <4> QED BY <3>8, <4>1, <4>2, Zenon
    <3>10. Refreshed(e, s.lay) = s.lay
      BY <2>5, <2>e DEF Refreshed
    <3>t. PICK table \in LocalTable \cup {None} : table = Loaded(after)
      BY <3>7
    <3>11. /\ Taken(e, s.view, s.lay) = [s.view EXCEPT ![t] = table]
           /\ table # None /\ table.cols = ToSet(ProjectSchema(schemas[t]))
      BY <3>5, <3>7, <3>9, <3>t
    <3>12. schemas'[t] = schemas[t] /\ schemas[t] # None
      BY <3>1, <3>4
    <3> HIDE DEF before, kinds
    <3>13. schemas'[t] = None => after = None
      BY <3>12
    <3>14. schemas'[t] # None => schemas'[t] = schemas[t] /\ Refreshed(e, s.lay) = s.lay
                                 /\ table # None /\ table.cols = ToSet(ProjectSchema(schemas[t]))
      BY <3>10, <3>11, <3>12, Zenon
    <3>15. Refreshed(e, s.lay) \in {s.lay, [s.lay EXCEPT ![t] = None]}
      BY <3>10, Zenon
    <3>16. s.cp <= pos + 1 \/ (MySql[t] = None /\ table = None)
      BY <3>4
    <3> QED BY <2>3, <3>11, <3>13, <3>14, <3>15, <3>16, <3>t
  <2>6. Event.kind = "drop" \/ Event.kind = "truncate"
    BY <1>2
  <2> QED BY <2>4, <2>5, <2>6
<1> QED BY <1>8, <1>9

-----------------------------------------------------------------------------
\* A statement the filter does not let through.
LEMMA StatementUnseen ==
  ASSUME Reliable, NEW kinds, Reading(kinds), "row" \notin kinds, Send(<<>>), writer = "running",
         Refits, NEW s \in States, Good(s), End(s),
         \A u \in AllowedTables :
           schemas'[u] = schemas[u] /\ hist[pos + 2][u] = hist[pos + 1][u]
  PROVE  Extends(s)
<1>1. Known(s) /\ Missing
  BY ReadStatement DEF End
<1>2. Moves(kinds) /\ chan' = chan \o <<>>
  BY SendGoesOn
<1>3. \A u \in AllowedTables :
        /\ Advances(u, s.view[u], s.view[u])
        /\ schemas'[u] = None => hist[pos + 2][u] = None \/ DropAhead(u, pos + 1)
  BY <1>1, StillMissing DEF Advances
<1>4. Known(s)'
  BY <1>1 DEF Known
<1>5. End(s)'
  BY <1>2, <1>3, <1>4, StatementEnd
<1> QED BY <1>2, <1>5, NothingSent

\* What an ALTER changes.
LEMMA AlterReads ==
  ASSUME Reliable, Reading(Alters), NEW t, t = Event.tables[1]
  PROVE  /\ t \in Tables /\ Event.kind \in Alters /\ "row" \notin Alters
         /\ Alike(hist[pos + 1], hist[pos + 2], {t})
         /\ hist[pos + 1][t] # None /\ hist[pos + 2][t] # None
         /\ Sound(hist[pos + 1][t]) /\ Sound(hist[pos + 2][t])
         /\ AlterEffect(Event, hist[pos + 1][t], hist[pos + 2][t])
<1> DEFINE before == hist[pos + 1]
           after == hist[pos + 2]
<1>1. /\ Event.kind \in Alters /\ Statement(Event, before, after)
      /\ SoundDb(before) /\ SoundDb(after)
  BY ReadStatement
<1> HIDE DEF before, after
<1>2. Event.kind # "rename" /\ "row" \notin Alters
  BY <1>1 DEF Alters
<1>3. t \in Tables /\ OneStatement(Event, t, before, after)
  BY <1>1 DEF Statement
<1>4. /\ Alike(before, after, {t}) /\ before[t] # None /\ after[t] # None
      /\ AlterEffect(Event, before[t], after[t])
  BY <1>1, <1>2, <1>3 DEF OneStatement
<1>5. Sound(before[t]) /\ Sound(after[t])
  BY <1>1, <1>3, <1>4 DEF SoundDb
<1> QED BY <1>1, <1>2, <1>3, <1>4, <1>5 DEF before, after

\* The checkpoint is not ahead of the statement, unless that changes nothing.
InTime(s, t, table) == s.cp <= pos + 1 \/ table = s.view[t]

\* The writer makes the table of an ALTER what it is behind the statement.
LEMMA AlterSent ==
  ASSUME Reliable, NEW t \in AllowedTables, Reading(Alters), t = Event.tables[1],
         writer = "running", NEW s \in States, Good(s), End(s), Refits,
         NEW cols \in Seq(Columns), Replaces(schemas, t, cols, schemas'),
         NEW e, e = DdlEvent(t, ProjectSchema(cols)), Send(<<e>>),
         NEW table \in LocalTable, Replaces(s.view, t, table, Taken(e, s.view, s.lay)),
         Advances(t, s.view[t], table), table.cols = ToSet(ProjectSchema(cols)),
         InTime(s, t, table)
  PROVE  Extends(s)
<1>1. /\ t \in Tables /\ Event.kind \in Alters /\ "row" \notin Alters
      /\ Alike(hist[pos + 1], hist[pos + 2], {t})
  BY AlterReads
<1>2. pos \in Nat /\ reader = "streaming" /\ schemas \in [Tables -> Seq(Columns) \cup {None}]
  BY ReadStatement DEF Reliable, ReaderTyped
<1>n. PICK n \in Nat : n = pos + 1
  BY <1>2
<1>s. s.view \in [Tables -> LocalTable \cup {None}] /\ s.lay \in [Tables -> Seq(Columns) \cup {None}]
  BY DEF States
<1>3. Moves(Alters) /\ chan' = chan \o <<e>>
  BY SendGoesOn
<1>e. /\ e.op = "ddl" /\ e.kind = Event.kind /\ e.table = t /\ e.cp = n
      /\ e.new = ProjectSchema(cols)
  BY <1>n, DdlEventFields
<1>4. PICK lay \in [Tables -> Seq(Columns) \cup {None}] :
        lay = Refreshed(e, s.lay) /\ lay = [s.lay EXCEPT ![t] = ProjectSchema(cols)]
  <2>1. ProjectSchema(cols) \in Seq(Columns)
    <3>1. ProjectSchema(cols) \in Seq(AllowedColumns) /\ AllowedColumns \subseteq Columns
      BY ProjectSchemaType DEF Projected, AllowedColumns
    <3> QED BY <3>1, SeqWiden
  <2>2. Refreshed(e, s.lay) = [s.lay EXCEPT ![t] = ProjectSchema(cols)]
    BY <1>1, <1>e DEF Refreshed, InstallLayout, Alters
  <2>3. [s.lay EXCEPT ![t] = ProjectSchema(cols)] \in [Tables -> Seq(Columns) \cup {None}]
    BY <1>s, <2>1
  <2> QED BY <2>2, <2>3
<1>r. PICK r : r = [view |-> [s.view EXCEPT ![t] = table], lay |-> lay, cp |-> n]
  OBVIOUS
<1>5. r \in States /\ r.view = [s.view EXCEPT ![t] = table] /\ r.lay = lay /\ r.cp = n
  <2>1. [s.view EXCEPT ![t] = table] \in [Tables -> LocalTable \cup {None}]
    BY <1>s
  <2> QED BY <1>n, <1>r, <1>4, <2>1 DEF States
<1>6. /\ r.view[t] = table /\ \A u \in Tables \ {t} : r.view[u] = s.view[u]
      /\ r.lay[t] = ProjectSchema(cols) /\ \A u \in Tables \ {t} : r.lay[u] = s.lay[u]
      /\ schemas'[t] = cols /\ \A u \in Tables \ {t} : schemas'[u] = schemas[u]
  BY <1>1, <1>2, <1>s, <1>4, <1>5 DEF Replaces
<1>7. Taken(e, s.view, s.lay) # None
  <2>1. [s.view EXCEPT ![t] = table] \in [Tables -> LocalTable \cup {None}]
    BY <1>s
  <2> QED BY <2>1, SchemaAssumption DEF Replaces
<1>8. Applies(s, e, r)
  BY <1>e, <1>4, <1>5, <1>7 DEF Applies, Replaces
<1>9. Known(s) /\ Missing
  BY <1>2 DEF End
<1>10. \A u \in AllowedTables :
         /\ Advances(u, s.view[u], r.view[u])
         /\ schemas'[u] = None => hist[pos + 2][u] = None \/ DropAhead(u, pos + 1)
  <2>1. cols # None
    BY SchemaAssumption
  <2>2. ASSUME NEW u \in AllowedTables \ {t}
        PROVE  /\ hist[pos + 2][u] = hist[pos + 1][u] /\ r.view[u] = s.view[u]
               /\ schemas'[u] = schemas[u]
    BY <1>1, <1>6 DEF Alike, AllowedTables
  <2>3. ASSUME NEW u \in AllowedTables \ {t}
        PROVE  /\ Advances(u, s.view[u], r.view[u])
               /\ schemas'[u] = None => hist[pos + 2][u] = None \/ DropAhead(u, pos + 1)
    BY <1>9, <2>2, StillMissing DEF Advances
  <2> QED BY <1>6, <2>1, <2>3
<1>11. Known(r)'
  <2>1. ASSUME NEW u \in AllowedTables \ {t}, schemas'[u] # None
        PROVE  /\ r.lay[u] = ProjectSchema(schemas'[u])
               /\ r.view[u] # None /\ r.view[u].cols = ToSet(ProjectSchema(schemas'[u]))
    BY <1>9, <1>6, <2>1 DEF Known, AllowedTables
  <2>2. /\ r.lay[t] = ProjectSchema(schemas'[t])
        /\ r.view[t] # None /\ r.view[t].cols = ToSet(ProjectSchema(schemas'[t]))
    BY <1>6, LocalTableFields
  <2> QED BY <2>1, <2>2 DEF Known
<1>12. End(r)' /\ Covered(r.view, pos + 1)
  BY <1>1, <1>n, <1>3, <1>5, <1>10, <1>11, StatementEnd
<1>13. s.cp <= pos + 1 \/ Covered(r.view, s.cp)
  <2> SUFFICES ASSUME table = s.view[t]
               PROVE  Covered(r.view, s.cp)
    BY DEF InTime
  <2>1. r.view = s.view
    BY <1>1, <1>s, <1>5
  <2> QED BY <2>1 DEF Good
<1> QED BY <1>n, <1>3, <1>e, <1>5, <1>8, <1>12, <1>13, StatementSent

\* An ALTER that leaves the columns alone leaves the writer's table alone.
LEMMA OtherTaken ==
  ASSUME Reliable, NEW t \in AllowedTables, Reading(Alters), t = Event.tables[1],
         Event.kind = "other", NEW s \in States, End(s),
         NEW cols \in Seq(Columns), cols = SchemaOf(t), MySql[t] # None,
         NEW e, e = DdlEvent(t, ProjectSchema(cols))
  PROVE  /\ s.view[t] \in LocalTable /\ s.view[t].cols = ToSet(ProjectSchema(cols))
         /\ Taken(e, s.view, s.lay) = s.view /\ hist[pos + 2][t] = hist[pos + 1][t]
<1>1. /\ t \in Tables /\ hist[pos + 1][t] # None /\ hist[pos + 2][t] = hist[pos + 1][t]
  BY AlterReads DEF AlterEffect
<1>2. /\ Len(log) \in Nat /\ pos \in Nat /\ startCp \in Nat /\ startCp <= pos
      /\ pos + 1 \in 1 .. Len(log) /\ Event = log[pos + 1] /\ Fits(pos + 1)
      /\ reader = "streaming" /\ "row" \notin Alters /\ MySqlTyped /\ LogInv /\ Histories
  BY ReadStatement DEF Reliable, Alters
<1>3. Known(s) /\ Missing /\ (Calmly(s) \/ Freshly(s))
  BY <1>2, StatementFirst DEF End
<1>4. Calm(pos) /\ schemas[t] # None
  <2>1. ASSUME Calmly(s)
        PROVE  Calm(pos) /\ schemas[t] # None
    <3>1. Calm(pos)
      <4>1. Calm(startCp)
        BY <2>1 DEF Calmly, Undisturbed
      <4>2. \A i \in pos + 1 .. Len(log) : i \in startCp + 1 .. Len(log)
        BY <1>2
      <4> QED BY <4>1, <4>2 DEF Calm
    <3>2. ~ DropAhead(t, pos)
      BY <1>2, <3>1, DroppedIsGone
    <3> QED BY <1>1, <1>3, <3>1, <3>2 DEF Missing
  <2>2. ASSUME Freshly(s)
        PROVE  Calm(pos) /\ schemas[t] # None
    <3>1. schemas[t] # None
      BY <1>1, <2>2 DEF Freshly
    <3>2. ASSUME NEW i \in pos + 1 .. Len(log)
          PROVE  log[i].kind \in Harmless \cup {"row"}
      <4>1. CASE i = pos + 1
        BY <1>2, <4>1 DEF Harmless
      <4>2. CASE i \in pos + 2 .. Len(log)
        <5>1. i \in (pos + 1) + 1 .. Len(log)
          BY <1>2, <4>2
        <5> QED BY <2>2, <5>1 DEF Freshly, RowsOnly
      <4> QED BY <1>2, <4>1, <4>2
    <3> QED BY <3>1, <3>2 DEF Calm
  <2> QED BY <1>3, <2>1, <2>2
<1>5. schemas[t] = cols
  <2>1. hist[pos + 1][t].cols = schemas[t]
    BY <1>1, <1>2, <1>4 DEF Fits
  <2>2. /\ pos + 1 \in pos + 1 .. Len(log) + 1 /\ Len(log) + 1 \in pos + 1 .. Len(log) + 1
        /\ hist[Len(log) + 1][t] # None /\ MySql = hist[Len(log) + 1]
    BY <1>2, HistoryEnds
  <2>3. hist[Len(log) + 1][t].cols = hist[pos + 1][t].cols
    BY <1>1, <1>2, <1>4, <2>2, ColumnsKept
  <2>4. cols = MySql[t].cols
    BY DEF SchemaOf
  <2> QED BY <2>1, <2>2, <2>3, <2>4
<1>6. /\ s.lay[t] = ProjectSchema(cols) /\ s.view[t] # None
      /\ s.view[t].cols = ToSet(ProjectSchema(cols))
  BY <1>3, <1>4, <1>5 DEF Known
<1>7. s.view[t] \in LocalTable
  BY <1>1, <1>6 DEF States
<1>8. Taken(e, s.view, s.lay) = s.view
  <2>1. e.kind = "other" /\ e.table = t /\ e.new = s.lay[t]
    BY <1>6, DdlEventFields
  <2>2. NoOperation(e, s.lay[t]) /\ s.lay[t] # None
    <3>1. s.lay[t] # None
      <4>1. ProjectSchema(cols) \in Seq(AllowedColumns) /\ AllowedColumns \subseteq Columns
        BY ProjectSchemaType DEF Projected, AllowedColumns
      <4>2. ProjectSchema(cols) \in Seq(Columns)
        BY <4>1, SeqWiden
      <4> QED BY <1>6, <4>2, SchemaAssumption
    <3> QED BY <2>1, <3>1 DEF NoOperation, Direct
  <2> QED BY <2>1, <2>2 DEF Taken
<1> QED BY <1>1, <1>6, <1>7, <1>8

\* One that changes them makes the writer's table what it is behind the statement.
LEMMA ColumnsTaken ==
  ASSUME InOrder, Reliable, NEW t \in AllowedTables, Reading(Alters), t = Event.tables[1],
         Event.kind # "other", NEW s \in States, End(s),
         NEW cols \in Seq(Columns), cols = SchemaOf(t), MySql[t] # None,
         NEW e, e = DdlEvent(t, ProjectSchema(cols)),
         NEW after, after = hist[pos + 2][t]
  PROVE  /\ Loaded(after) \in LocalTable /\ Loaded(after).cols = ToSet(ProjectSchema(cols))
         /\ Taken(e, s.view, s.lay) = [s.view EXCEPT ![t] = Loaded(after)]
         /\ s.cp <= pos
<1>b. PICK before : before = hist[pos + 1][t]
  OBVIOUS
<1>1. /\ t \in Tables /\ Event.kind \in Alters
      /\ before # None /\ after # None /\ Sound(before) /\ Sound(after)
      /\ AlterEffect(Event, before, after)
  BY <1>b, AlterReads
<1>2. /\ Len(log) \in Nat /\ pos \in Nat /\ startCp \in Nat /\ startCp <= pos
      /\ pos + 1 \in 1 .. Len(log) /\ Event = log[pos + 1] /\ Fits(pos + 1)
      /\ reader = "streaming" /\ "row" \notin Alters /\ MySqlTyped /\ LogInv
  BY ReadStatement DEF Reliable, Alters
<1>3. Known(s) /\ Freshly(s)
  <2>1. ~ Calmly(s)
    <3> SUFFICES ASSUME Calm(startCp)
                 PROVE  FALSE
      BY DEF Calmly, Undisturbed
    <3>1. Event.kind \in Harmless \cup {"row"}
      BY <1>2 DEF Calm
    <3> QED BY <1>1, <3>1 DEF Harmless, Alters
  <2> QED BY <1>2, <2>1, StatementFirst DEF End
<1>4. cols = after.cols
  <2>1. Calm(pos + 1)
    BY <1>3 DEF Freshly, RowsOnly, Calm
  <2>n. PICK n \in Nat : n = pos + 1
    BY <1>2
  <2>2. /\ n + 1 \in n + 1 .. Len(log) + 1 /\ Len(log) + 1 \in n + 1 .. Len(log) + 1
        /\ hist[Len(log) + 1][t] # None /\ MySql = hist[Len(log) + 1]
    BY <1>2, <2>n, HistoryEnds
  <2>3. Calm(n)
    BY <2>1, <2>n
  <2>4. hist[Len(log) + 1][t].cols = hist[n + 1][t].cols
    BY <1>1, <1>2, <2>n, <2>2, <2>3, ColumnsKept
  <2>5. n + 1 = pos + 2
    BY <1>2, <2>n
  <2>6. cols = MySql[t].cols
    BY DEF SchemaOf
  <2> QED BY <2>2, <2>4, <2>5, <2>6
<1>5. /\ schemas[t] = before.cols /\ s.lay[t] = ProjectSchema(before.cols)
      /\ s.view[t] = Loaded(before) /\ s.cp <= pos
  BY <1>1, <1>2, <1>3, <1>b DEF Known, Freshly, Fits
<1>6. /\ Loaded(after) \in LocalTable /\ Loaded(after).cols = ToSet(ProjectSchema(cols))
  BY <1>1, <1>4, LoadedIs
<1>7. Taken(e, s.view, s.lay) = [s.view EXCEPT ![t] = Loaded(after)]
  <2>1. e.kind = Event.kind /\ e.table = t /\ e.arg = Event.arg /\ e.new = ProjectSchema(cols)
    BY DdlEventFields
  <2>2. AlterEffect(e, before, after)
    BY <1>1, <2>1 DEF AlterEffect
  <2>3. AlterOf(e, s.lay[t], before, after)
    BY <1>1, <1>4, <1>5, <2>1 DEF AlterOf
  <2>4. RenamesAllowed /\ s.view \in [Tables -> LocalTable \cup {None}] /\ e.kind \in Alters
    BY <1>1, <2>1 DEF InOrder, States
  <2> QED BY <1>1, <1>5, <2>1, <2>2, <2>3, <2>4, AlterTaken
<1> QED BY <1>5, <1>6, <1>7

\* Reads an ALTER, or ends the session at a table that is gone.
LEMMA ReadAlterExtends ==
  ASSUME InOrder, Shape(Value), Reliable, ReadAlter, writer = "running",
         NEW s \in States, Good(s), End(s)
  PROVE  Extends(s)
<1>1. Reading(Alters) /\ "row" \notin Alters
  BY DEF ReadAlter, Alters
<1>t. PICK t : t = Event.tables[1]
  OBVIOUS
<1>2. /\ Len(log) \in Nat /\ pos \in Nat /\ pos + 1 \in 1 .. Len(log) /\ startCp \in Nat
      /\ startCp <= pos /\ reader = "streaming" /\ MySqlTyped /\ LogInv /\ Histories
      /\ ReaderTyped /\ ReaderInv
  BY <1>1, ReadStatement DEF Reliable
<1>3. t \in Tables /\ Alike(hist[pos + 1], hist[pos + 2], {t}) /\ hist[pos + 2][t] # None
  BY <1>1, <1>t, AlterReads
<1>4. reader' = "connecting" \/ Refits
  BY ReadAlterReaderInv DEF Reliable
<1>5. CASE ~ TableAllowed(t)
  <2>1. Send(<<>>) /\ UNCHANGED schemas
    BY <1>5, <1>t DEF ReadAlter
  <2>2. \A u \in AllowedTables : schemas'[u] = schemas[u] /\ hist[pos + 2][u] = hist[pos + 1][u]
    BY <1>3, <1>5, <2>1 DEF Alike, AllowedTables
  <2>3. Refits
    BY <1>2, <1>4, <2>1 DEF Send
  <2> QED BY <1>1, <2>1, <2>2, <2>3, StatementUnseen
<1>6. CASE TableAllowed(t) /\ SchemaOf(t) = None
  <2>1. reader' = "connecting" /\ pos' = startCp /\ UNCHANGED <<mysqlVars, startCp, chan>>
    BY <1>6, <1>t DEF ReadAlter
  <2>2. Calm(startCp) /\ Gentle(startCp)
    <3>1. ~ Freshly(s)
      BY <1>1, <1>2, <1>3, <1>6, FetchedSchema DEF Freshly
    <3>2. Calmly(s)
      BY <1>1, <3>1, StatementFirst
    <3> QED BY <3>2 DEF Calmly, Undisturbed
  <2>3. MySql[t] = None
    BY <1>2, <1>3, <1>6, MySqlTables, SchemaAssumption DEF SchemaOf
  <2>4. "drop" \in Pending(startCp)
    <3>n. PICK n : n = pos + 2
      OBVIOUS
    <3>1. n \in startCp + 1 .. Len(log) + 1 /\ hist[n][t] # None
      BY <1>2, <1>3, <3>n
    <3>2. PICK i \in n .. Len(log) : log[i].kind = "drop" /\ t \in ToSet(log[i].tables)
      BY <1>2, <1>3, <2>2, <2>3, <3>1, GoneIsDropped
    <3>3. i \in startCp + 1 .. Len(log)
      BY <1>2, <3>n
    <3> QED BY <3>2, <3>3 DEF Pending
  <2>5. \A i \in startCp + 1 .. Len(log) : log[i].kind # "truncate"
    <3> SUFFICES ASSUME NEW i \in startCp + 1 .. Len(log), log[i].kind = "truncate"
                 PROVE  FALSE
      OBVIOUS
    <3>1. "truncate" \in Pending(startCp)
      BY DEF Pending
    <3> QED BY <2>2, <2>4, <3>1 DEF Gentle
  <2>6. End(s)'
    <3>1. Gentle(startCp)'
      BY <2>1, <2>2 DEF Gentle, Pending, mysqlVars
    <3>2. TruncatesAfter(s.cp)'
      BY <2>1, <2>5 DEF TruncatesAfter, mysqlVars
    <3>3. reader' # "streaming"
      BY <2>1
    <3> QED BY <3>1, <3>2, <3>3 DEF End
  <2>7. chan' = chan \o <<>>
    BY <2>1 DEF Shape, ChannelTyped
  <2> QED BY <2>6, <2>7, NothingSent
<1>7. CASE TableAllowed(t) /\ SchemaOf(t) # None
  <2>c. PICK cols : cols = SchemaOf(t)
    OBVIOUS
  <2>e. PICK e : e = DdlEvent(t, ProjectSchema(cols))
    OBVIOUS
  <2>1. Replaces(schemas, t, cols, schemas') /\ Send(<<e>>)
    BY <1>7, <1>t, <2>c, <2>e DEF ReadAlter, Replaces
  <2>2. t \in AllowedTables /\ cols \in Seq(Columns) /\ MySql[t] # None
    <3>1. cols \in Seq(Columns)
      BY <1>2, <1>3, <1>7, <2>c, SchemaOfType
    <3> QED BY <1>3, <1>7, <3>1 DEF SchemaOf, AllowedTables
  <2>3. Refits
    BY <1>2, <1>4, <2>1 DEF Send
  <2>s. s.view \in [Tables -> LocalTable \cup {None}]
    BY DEF States
  <2>4. CASE Event.kind = "other"
    <3>1. /\ s.view[t] \in LocalTable /\ s.view[t].cols = ToSet(ProjectSchema(cols))
          /\ Taken(e, s.view, s.lay) = s.view /\ hist[pos + 2][t] = hist[pos + 1][t]
      BY <1>1, <1>t, <2>2, <2>4, <2>c, <2>e, OtherTaken
    <3>t. PICK table : table = s.view[t]
      OBVIOUS
    <3>2. Replaces(s.view, t, table, Taken(e, s.view, s.lay))
      BY <2>s, <3>1, <3>t DEF Replaces
    <3>3. Advances(t, s.view[t], table)
      BY <3>1, <3>t DEF Advances
    <3>4. table \in LocalTable /\ table.cols = ToSet(ProjectSchema(cols))
      BY <3>1, <3>t
    <3>6. InTime(s, t, table)
      BY <3>t DEF InTime
    <3>5. cols \in Seq(Columns) /\ table \in LocalTable /\ t \in AllowedTables
      BY <2>2, <3>4
    <3> QED BY <1>1, <1>t, <2>1, <2>3, <2>e, <3>2, <3>3, <3>4, <3>5, <3>6, AlterSent
  <2>5. CASE Event.kind # "other"
    <3>a. PICK after : after = hist[pos + 2][t]
      OBVIOUS
    <3>1. /\ Loaded(after) \in LocalTable /\ Loaded(after).cols = ToSet(ProjectSchema(cols))
          /\ Taken(e, s.view, s.lay) = [s.view EXCEPT ![t] = Loaded(after)]
          /\ s.cp <= pos
      BY <1>1, <1>t, <2>2, <2>5, <2>c, <2>e, <3>a, ColumnsTaken
    <3>t. PICK table : table = Loaded(after)
      OBVIOUS
    <3>2. /\ table \in LocalTable /\ table.cols = ToSet(ProjectSchema(cols))
          /\ Replaces(s.view, t, table, Taken(e, s.view, s.lay))
      BY <3>1, <3>t DEF Replaces
    <3>3. Advances(t, s.view[t], table)
      BY <3>a, <3>t DEF Advances
    <3>4. InTime(s, t, table)
      BY <1>2, <3>1 DEF States, InTime
    <3> QED BY <1>1, <1>t, <2>1, <2>2, <2>3, <2>e, <3>2, <3>3, <3>4, AlterSent
  <2> QED BY <2>4, <2>5
<1> QED BY <1>5, <1>6, <1>7

-----------------------------------------------------------------------------
\* A statement that changes columns or names is the next one after the reader has caught up.
LEMMA FreshStatement ==
  ASSUME Reliable, NEW kinds, Reading(kinds), kinds \cap (Harmless \cup {"row"}) = {},
         NEW s \in States, End(s)
  PROVE  Freshly(s) /\ Known(s) /\ Missing
<1>1. /\ Event.kind \in kinds /\ Event = log[pos + 1] /\ pos + 1 \in startCp + 1 .. Len(log)
      /\ reader = "streaming"
  BY ReadStatement
<1>2. ~ Calm(startCp)
  BY <1>1 DEF Calm
<1>3. Calmly(s) \/ Freshly(s)
  BY StatementFirst
<1> QED BY <1>1, <1>2, <1>3 DEF Calmly, Undisturbed, End

\* The columns such a statement's table has are still those when its schema is fetched.
LEMMA FetchedColumns ==
  ASSUME Reliable, NEW kinds, Reading(kinds), "row" \notin kinds, RowsOnly(pos + 1),
         NEW t \in Tables, hist[pos + 2][t] # None
  PROVE  /\ SchemaOf(t) # None /\ SchemaOf(t) \in Seq(Columns)
         /\ SchemaOf(t) = hist[pos + 2][t].cols
<1>1. /\ Len(log) \in Nat /\ pos \in Nat /\ pos + 1 \in 1 .. Len(log)
      /\ MySqlTyped /\ LogInv /\ ReaderTyped /\ ReaderInv
  BY ReadStatement DEF Reliable
<1>2. MySql[t] # None /\ SchemaOf(t) # None
  BY <1>1, FetchedSchema
<1>3. SchemaOf(t) \in Seq(Columns)
  BY <1>1, <1>2, SchemaOfType
<1>n. PICK n \in Nat : n = pos + 1
  BY <1>1
<1>4. /\ n + 1 \in n + 1 .. Len(log) + 1 /\ Len(log) + 1 \in n + 1 .. Len(log) + 1
      /\ MySql = hist[Len(log) + 1] /\ n + 1 = pos + 2
  BY <1>1, <1>n, HistoryEnds
<1>5. Calm(n)
  BY <1>n DEF RowsOnly, Calm
<1>6. hist[Len(log) + 1][t].cols = hist[n + 1][t].cols
  BY <1>1, <1>2, <1>4, <1>5, ColumnsKept
<1> QED BY <1>2, <1>3, <1>4, <1>6 DEF SchemaOf

LEMMA ProjectedSequence ==
  ASSUME NEW cols \in Seq(Columns)
  PROVE  ProjectSchema(cols) \in Seq(Columns) /\ ProjectSchema(cols) # None
<1>1. ProjectSchema(cols) \in Seq(AllowedColumns) /\ AllowedColumns \subseteq Columns
  BY ProjectSchemaType DEF Projected, AllowedColumns
<1>2. ProjectSchema(cols) \in Seq(Columns)
  BY <1>1, SeqWiden
<1> QED BY <1>2, SchemaAssumption

\* Reads a CREATE.
LEMMA ReadCreateExtends ==
  ASSUME Shape(Value), Reliable, ReadCreate, writer = "running", NEW s \in States, Good(s), End(s)
  PROVE  Extends(s)
<1> DEFINE kinds == {"create"}
<1>1. Reading(kinds) /\ "row" \notin kinds /\ kinds \cap (Harmless \cup {"row"}) = {}
  BY DEF ReadCreate, Harmless
<1>2. /\ Len(log) \in Nat /\ pos \in Nat /\ pos + 1 \in 1 .. Len(log) /\ startCp \in Nat
      /\ startCp <= pos /\ MySqlTyped /\ Event.kind \in kinds
      /\ Statement(Event, hist[pos + 1], hist[pos + 2]) /\ SoundDb(hist[pos + 2])
      /\ schemas \in [Tables -> Seq(Columns) \cup {None}]
  BY <1>1, ReadStatement DEF Reliable, ReaderTyped
<1>t. PICK t : t = Event.tables[1]
  OBVIOUS
<1>a. PICK after : after = hist[pos + 2][t]
  OBVIOUS
<1>3. /\ t \in Tables /\ Alike(hist[pos + 1], hist[pos + 2], {t}) /\ hist[pos + 1][t] = None
      /\ after # None /\ after.row = NoRow /\ Sound(after)
  <2>1. t \in Tables /\ OneStatement(Event, t, hist[pos + 1], hist[pos + 2])
    BY <1>2, <1>t DEF Statement
  <2>2. Event.kind = "create"
    BY <1>2
  <2> QED BY <1>2, <1>a, <2>1, <2>2 DEF OneStatement, SoundDb
<1>4. Refits
  BY ReadCreateReaderInv DEF Reliable
<1> HIDE DEF kinds
<1>5. Freshly(s) /\ Known(s) /\ Missing
  BY <1>1, FreshStatement
<1>6. CASE ~ TableAllowed(t)
  <2>1. Send(<<>>) /\ UNCHANGED schemas
    BY <1>6, <1>t DEF ReadCreate
  <2>2. \A u \in AllowedTables : schemas'[u] = schemas[u] /\ hist[pos + 2][u] = hist[pos + 1][u]
    BY <1>3, <1>6, <2>1 DEF Alike, AllowedTables
  <2> QED BY <1>1, <1>4, <2>1, <2>2, StatementUnseen
<1>7. CASE TableAllowed(t)
  <2>1. SchemaOf(t) # None /\ SchemaOf(t) \in Seq(Columns) /\ SchemaOf(t) = after.cols
    BY <1>1, <1>3, <1>5, <1>a, FetchedColumns DEF Freshly
  <2>c. PICK cols : cols = ProjectSchema(after.cols)
    OBVIOUS
  <2>e. PICK e : e = [op |-> "schema", table |-> t, cols |-> cols]
    OBVIOUS
  <2>2. /\ schemas' = [schemas EXCEPT ![t] = after.cols] /\ Send(<<e>>)
    BY <1>7, <1>t, <2>1, <2>c, <2>e DEF ReadCreate
  <2>3. Moves(kinds) /\ chan' = chan \o <<e>>
    BY <1>1, <2>2, SendGoesOn
  <2>4. t \in AllowedTables
    BY <1>3, <1>7 DEF AllowedTables
  <2>s. /\ s.view \in [Tables -> LocalTable \cup {None}] /\ s.cp \in Nat
        /\ s.lay \in [Tables -> Seq(Columns) \cup {None}]
    BY DEF States
  <2>5. cols \in Seq(Columns) /\ cols # None /\ after.cols # None
    BY <2>1, <2>c, ProjectedSequence
  <2>6. Loaded(after) \in LocalTable /\ Loaded(after) # None /\ Loaded(after).cols = ToSet(cols)
    BY <1>3, <2>c, LoadedIs
  <2>7. Completed(Created(s.view[t], cols), cols) = Loaded(after)
    <3>1. s.view[t] = None
      BY <1>3, <1>5, <2>4 DEF Freshly, Loaded
    <3>2. Completed(Created(None, cols), cols) = Loaded(after)
      BY <1>3, <2>c, CompletedNew
    <3> QED BY <3>1, <3>2
  <2>v. PICK table \in LocalTable \cup {None} : table = Loaded(after)
    BY <2>6
  <2>l. PICK lay \in [Tables -> Seq(Columns) \cup {None}] : lay = [s.lay EXCEPT ![t] = cols]
    BY <2>s, <2>5
  <2>q. PICK r : r = [view |-> [s.view EXCEPT ![t] = table], lay |-> lay, cp |-> s.cp]
    OBVIOUS
  <2>r. r \in States /\ r.view = [s.view EXCEPT ![t] = table] /\ r.lay = lay /\ r.cp = s.cp
    <3>1. [s.view EXCEPT ![t] = table] \in [Tables -> LocalTable \cup {None}]
      BY <2>s, <2>v
    <3> QED BY <2>l, <2>q, <2>s, <3>1 DEF States
  <2>8. /\ r.view[t] = Loaded(after) /\ \A u \in Tables \ {t} : r.view[u] = s.view[u]
        /\ r.lay[t] = cols /\ \A u \in Tables \ {t} : r.lay[u] = s.lay[u]
        /\ schemas'[t] = after.cols /\ \A u \in Tables \ {t} : schemas'[u] = schemas[u]
    BY <1>2, <1>3, <2>2, <2>l, <2>r, <2>s, <2>v
  <2>9. Applies(s, e, r)
    <3>1. e.op = "schema" /\ e.table = t /\ e.cols = cols
      BY <2>e
    <3>2. r.view = [s.view EXCEPT ![t] = Completed(Created(s.view[t], cols), cols)]
      BY <2>7, <2>r, <2>v
    <3>3. r.lay = InstallLayout(s.lay, t, cols) /\ r.cp = s.cp
      BY <2>l, <2>r DEF InstallLayout
    <3> QED BY <3>1, <3>2, <3>3 DEF Applies
  <2>10. \A u \in AllowedTables :
           /\ Advances(u, s.view[u], r.view[u])
           /\ schemas'[u] = None => hist[pos + 2][u] = None \/ DropAhead(u, pos + 1)
    <3>1. ASSUME NEW u \in AllowedTables \ {t}
          PROVE  /\ hist[pos + 2][u] = hist[pos + 1][u] /\ r.view[u] = s.view[u]
                 /\ schemas'[u] = schemas[u]
      BY <1>3, <2>8 DEF Alike, AllowedTables
    <3>2. ASSUME NEW u \in AllowedTables \ {t}
          PROVE  /\ Advances(u, s.view[u], r.view[u])
                 /\ schemas'[u] = None => hist[pos + 2][u] = None \/ DropAhead(u, pos + 1)
      BY <1>1, <1>5, <3>1, StillMissing DEF Advances
    <3>3. Advances(t, s.view[t], r.view[t])
      BY <1>a, <2>8 DEF Advances
    <3> QED BY <2>5, <2>8, <3>2, <3>3
  <2>11. Known(r)'
    <3>1. ASSUME NEW u \in AllowedTables \ {t}, schemas'[u] # None
          PROVE  /\ r.lay[u] = ProjectSchema(schemas'[u])
                 /\ r.view[u] # None /\ r.view[u].cols = ToSet(ProjectSchema(schemas'[u]))
      BY <1>5, <2>8, <3>1 DEF Known, AllowedTables
    <3>2. /\ r.lay[t] = ProjectSchema(schemas'[t])
          /\ r.view[t] # None /\ r.view[t].cols = ToSet(ProjectSchema(schemas'[t]))
      BY <2>6, <2>8, <2>c
    <3> QED BY <3>1, <3>2 DEF Known
  <2>12. End(r)' /\ Covered(r.view, pos + 1)
    <3>1. r.cp \in {s.cp, pos + 1}
      BY <2>r
    <3> QED BY <1>1, <1>4, <2>3, <2>10, <2>11, <2>r, <3>1, StatementEnd
  <2>13. Good(r)
    <3>1. s.cp <= pos + 1 /\ pos + 1 \in Nat
      BY <1>2, <1>5, <2>s DEF Freshly
    <3>2. Covered(r.view, s.cp)
      BY <1>2, <2>12, <2>s, <3>1, CoveredFrom
    <3> QED BY <2>r, <3>2 DEF Good
  <2>14. Link(s, e, r)
    BY <2>9, <2>13, <2>e, <2>r DEF Link
  <2> QED BY <2>3, <2>12, <2>14, <2>r, OneSent
<1> QED BY <1>6, <1>7

\* RENAME TABLE in the log.
LEMMA RenameReads ==
  ASSUME Reliable, Reading({"rename"}), NEW from, from = Event.tables[1], NEW to, to = Event.arg
  PROVE  /\ from \in Tables /\ to \in Tables /\ from # to /\ Event.kind = "rename"
         /\ Alike(hist[pos + 1], hist[pos + 2], {from, to})
         /\ (TableAllowed(from) <=> TableAllowed(to))
         /\ hist[pos + 1][from] # None /\ hist[pos + 1][to] = None
         /\ hist[pos + 2][from] = None /\ hist[pos + 2][to] = hist[pos + 1][from]
         /\ Sound(hist[pos + 1][from])
<1> DEFINE before == hist[pos + 1]
           after == hist[pos + 2]
<1>1. /\ Event.kind = "rename" /\ Statement(Event, before, after) /\ SoundDb(before)
      /\ pos + 1 \in 1 .. Len(log) /\ Event = log[pos + 1]
  BY ReadStatement
<1> HIDE DEF before, after
<1>2. from \in Tables /\ OneStatement(Event, from, before, after)
  BY <1>1 DEF Statement
<1>3. to \in Tables
  <2>1. Event \in LogEntries
    BY <1>1 DEF Reliable, MySqlTyped
  <2> QED BY <1>1, <2>1, EventFields
<1>4. /\ from # to /\ Alike(before, after, {from, to})
      /\ (TableAllowed(from) <=> TableAllowed(to))
      /\ before[from] # None /\ before[to] = None
      /\ after[from] = None /\ after[to] = before[from]
  BY <1>1, <1>2 DEF OneStatement
<1>5. Sound(before[from])
  BY <1>1, <1>2, <1>4 DEF SoundDb
<1> QED BY <1>1, <1>2, <1>3, <1>4, <1>5 DEF before, after

\* Reads a RENAME.
LEMMA ReadRenameExtends ==
  ASSUME Shape(Value), Reliable, ReadRename, writer = "running", NEW s \in States, Good(s), End(s)
  PROVE  Extends(s)
<1> DEFINE kinds == {"rename"}
<1>1. Reading(kinds) /\ "row" \notin kinds /\ kinds \cap (Harmless \cup {"row"}) = {}
  BY DEF ReadRename, Harmless
<1>2. /\ Len(log) \in Nat /\ pos \in Nat /\ pos + 1 \in 1 .. Len(log)
      /\ Fits(pos + 1) /\ schemas \in [Tables -> Seq(Columns) \cup {None}]
  BY <1>1, ReadStatement DEF Reliable, ReaderTyped
<1>f. PICK from : from = Event.tables[1]
  OBVIOUS
<1>t. PICK to : to = Event.arg
  OBVIOUS
<1>n. PICK n \in Nat : n = pos + 1
  BY <1>2
<1>m. PICK table : table = hist[pos + 1][from]
  OBVIOUS
<1>3. /\ from \in Tables /\ to \in Tables /\ from # to /\ Event.kind = "rename"
      /\ Alike(hist[pos + 1], hist[pos + 2], {from, to})
      /\ (TableAllowed(from) <=> TableAllowed(to))
      /\ table # None /\ hist[pos + 1][to] = None
      /\ hist[pos + 2][from] = None /\ hist[pos + 2][to] = table /\ Sound(table)
  BY <1>1, <1>f, <1>t, <1>m, RenameReads
<1>4. Refits
  BY ReadRenameReaderInv DEF Reliable
<1>5. Freshly(s) /\ Known(s) /\ Missing
  BY <1>1, FreshStatement
<1> HIDE DEF kinds
<1>6. CASE ~ TableAllowed(to)
  <2>1. Send(<<>>) /\ schemas' = [schemas EXCEPT ![from] = None]
    BY <1>6, <1>f, <1>t DEF ReadRename
  <2>2. \A u \in AllowedTables : schemas'[u] = schemas[u] /\ hist[pos + 2][u] = hist[pos + 1][u]
    BY <1>2, <1>3, <1>6, <2>1 DEF Alike, AllowedTables
  <2> QED BY <1>1, <1>4, <2>1, <2>2, StatementUnseen
<1>7. CASE TableAllowed(to)
  <2>c. PICK cols : cols = table.cols
    OBVIOUS
  <2>1. SchemaOf(to) # None /\ cols \in Seq(Columns) /\ SchemaOf(to) = cols /\ cols # None
    <3>1. hist[pos + 2][to] # None /\ hist[pos + 2][to].cols = cols
      BY <1>3, <2>c
    <3> QED BY <1>1, <1>3, <1>5, <3>1, FetchedColumns DEF Freshly
  <2>e. PICK e : e = DdlEvent(from, ProjectSchema(cols))
    OBVIOUS
  <2>2. /\ schemas' = [[schemas EXCEPT ![from] = None] EXCEPT ![to] = cols] /\ Send(<<e>>)
    BY <1>7, <1>f, <1>t, <2>1, <2>e DEF ReadRename
  <2>3. Moves(kinds) /\ chan' = chan \o <<e>>
    BY <1>1, <2>2, SendGoesOn
  <2>4. from \in AllowedTables /\ to \in AllowedTables
    BY <1>3, <1>7 DEF AllowedTables
  <2>s. /\ s.view \in [Tables -> LocalTable \cup {None}] /\ s.cp \in Nat
        /\ s.lay \in [Tables -> Seq(Columns) \cup {None}]
    BY DEF States
  <2>5. /\ schemas[from] = cols /\ s.lay[from] = ProjectSchema(cols)
        /\ s.view[from] = Loaded(table) /\ s.view[from] # None /\ s.view[to] = None
        /\ ProjectSchema(cols) # None
    <3>1. schemas[from] = cols
      BY <1>2, <1>3, <1>5, <1>m, <2>4, <2>c DEF Freshly, Fits
    <3>2. s.lay[from] = ProjectSchema(cols) /\ s.view[from] # None
      BY <1>5, <2>1, <2>4, <3>1 DEF Known
    <3>3. s.view[from] = Loaded(table) /\ s.view[to] = None
      BY <1>3, <1>5, <1>m, <2>4 DEF Freshly, Loaded
    <3> QED BY <2>1, <3>1, <3>2, <3>3, ProjectedSequence
  <2>6. Loaded(table).cols = ToSet(ProjectSchema(cols))
    BY <1>3, <2>c, LoadedIs
  <2>v. PICK view : view = [s.view EXCEPT ![from] = None, ![to] = s.view[from]]
    OBVIOUS
  <2>l. PICK lay : lay = [s.lay EXCEPT ![from] = None, ![to] = s.lay[from]]
    OBVIOUS
  <2>q. PICK r : r = [view |-> view, lay |-> lay, cp |-> n]
    OBVIOUS
  <2>w. view \in [Tables -> LocalTable \cup {None}]
    BY <1>3, <2>s, <2>v
  <2>r. r \in States /\ r.view = view /\ r.lay = lay /\ r.cp = n
    <3>1. lay \in [Tables -> Seq(Columns) \cup {None}]
      BY <1>3, <2>s, <2>l
    <3> QED BY <1>n, <2>q, <2>w, <3>1 DEF States
  <2>8. /\ r.view[from] = None /\ r.view[to] = Loaded(table)
        /\ r.lay[to] = ProjectSchema(cols)
        /\ schemas'[from] = None /\ schemas'[to] = cols
    BY <1>2, <1>3, <2>2, <2>5, <2>l, <2>r, <2>s, <2>v
  <2>9. \A u \in Tables \ {from, to} :
          r.view[u] = s.view[u] /\ r.lay[u] = s.lay[u] /\ schemas'[u] = schemas[u]
    BY <1>2, <1>3, <2>2, <2>l, <2>r, <2>s, <2>v
  <2>10. /\ e.op = "ddl" /\ e.kind = "rename" /\ e.table = from /\ e.arg = to
         /\ e.new = ProjectSchema(cols) /\ e.cp = n
    BY <1>3, <1>n, <1>t, <2>e, DdlEventFields
  <2>11. Applies(s, e, r)
    <3>1. Taken(e, s.view, s.lay) = view
      BY <2>5, <2>10, <2>v DEF Taken
    <3>2. view # None
      BY <2>w, SchemaAssumption
    <3>3. Refreshed(e, s.lay) = lay
      BY <2>5, <2>10, <2>l DEF Refreshed
    <3> QED BY <2>10, <2>r, <3>1, <3>2, <3>3 DEF Applies
  <2>12. \A u \in AllowedTables :
           /\ Advances(u, s.view[u], r.view[u])
           /\ schemas'[u] = None => hist[pos + 2][u] = None \/ DropAhead(u, pos + 1)
    <3>1. ASSUME NEW u \in AllowedTables \ {from, to}
          PROVE  /\ hist[pos + 2][u] = hist[pos + 1][u] /\ r.view[u] = s.view[u]
                 /\ schemas'[u] = schemas[u]
      BY <1>3, <2>9 DEF Alike, AllowedTables
    <3>2. ASSUME NEW u \in AllowedTables \ {from, to}
          PROVE  /\ Advances(u, s.view[u], r.view[u])
                 /\ schemas'[u] = None => hist[pos + 2][u] = None \/ DropAhead(u, pos + 1)
      BY <1>1, <1>5, <3>1, StillMissing DEF Advances
    <3>3. Advances(to, s.view[to], r.view[to]) /\ Advances(from, s.view[from], r.view[from])
      BY <1>3, <2>8 DEF Advances, Loaded
    <3>4. schemas'[to] # None /\ hist[pos + 2][from] = None
      BY <1>3, <2>1, <2>8
    <3> QED BY <3>2, <3>3, <3>4
  <2>13. Known(r)'
    <3>1. ASSUME NEW u \in AllowedTables \ {from, to}, schemas'[u] # None
          PROVE  /\ r.lay[u] = ProjectSchema(schemas'[u])
                 /\ r.view[u] # None /\ r.view[u].cols = ToSet(ProjectSchema(schemas'[u]))
      BY <1>5, <2>9, <3>1 DEF Known, AllowedTables
    <3>2. /\ r.lay[to] = ProjectSchema(schemas'[to])
          /\ r.view[to] # None /\ r.view[to].cols = ToSet(ProjectSchema(schemas'[to]))
      BY <2>5, <2>6, <2>8
    <3> QED BY <2>8, <3>1, <3>2 DEF Known
  <2>14. End(r)' /\ Covered(r.view, pos + 1)
    <3>1. r.cp \in {s.cp, pos + 1}
      BY <1>n, <2>r
    <3> QED BY <1>1, <1>4, <2>3, <2>12, <2>13, <2>r, <3>1, StatementEnd
  <2>15. s.cp <= pos + 1 \/ Covered(r.view, s.cp)
    BY <1>2, <1>5, <2>s DEF Freshly
  <2> QED BY <1>1, <1>n, <2>3, <2>10, <2>11, <2>14, <2>15, <2>r, StatementSent
<1> QED BY <1>6, <1>7

-----------------------------------------------------------------------------
\* The writer after the first k - 1 of the schemas of q; cols has the columns of each table.
LayAt(s, q, cols, k) ==
  [t \in Tables |-> IF \E j \in 1 .. k - 1 : q[j].table = t THEN cols[t] ELSE s.lay[t]]

\* Schemas that the tables of s have already.
Repeats(s, q, known, cols) ==
  /\ known \subseteq Tables
  /\ \A t \in known : cols[t] \in Seq(Columns) /\ Completed(Created(s.view[t], cols[t]), cols[t]) = s.view[t]
  /\ \A j \in 1 .. Len(q) : q[j].op = "schema" /\ q[j].table \in known /\ q[j].cols = cols[q[j].table]

\* The schemas of a session's start lead to the same tables, with layouts.
LEMMA SchemasReach ==
  ASSUME NEW E, NEW q \in Seq(E), NEW s \in States, Good(s), NEW known, NEW cols,
         Repeats(s, q, known, cols)
  PROVE  \E r \in States : /\ Reaches(s, q, r) /\ r.view = s.view /\ r.cp = s.cp
                           /\ r.lay = LayAt(s, q, cols, Len(q) + 1)
<1>1. Len(q) \in Nat /\ known \subseteq Tables
  BY DEF Repeats
<1>s. /\ s.view \in [Tables -> LocalTable \cup {None}] /\ s.cp \in Nat
      /\ s.lay \in [Tables -> Seq(Columns) \cup {None}]
      /\ s = [view |-> s.view, lay |-> s.lay, cp |-> s.cp]
  BY DEF States
<1> DEFINE run == [k \in 1 .. Len(q) + 1 |->
                     [view |-> s.view, lay |-> LayAt(s, q, cols, k), cp |-> s.cp]]
<1>2. ASSUME NEW k \in 1 .. Len(q) + 1
      PROVE  run[k] \in States
  <2>1. LayAt(s, q, cols, k) \in [Tables -> Seq(Columns) \cup {None}]
    <3>1. ASSUME NEW t \in Tables
          PROVE  (IF \E j \in 1 .. k - 1 : q[j].table = t THEN cols[t] ELSE s.lay[t])
                   \in Seq(Columns) \cup {None}
      <4>1. CASE \E j \in 1 .. k - 1 : q[j].table = t
        <5>1. PICK j \in 1 .. k - 1 : q[j].table = t
          BY <4>1
        <5>2. j \in 1 .. Len(q)
          BY <1>1
        <5>3. cols[t] \in Seq(Columns)
          BY <5>1, <5>2 DEF Repeats
        <5> QED BY <4>1, <5>3
      <4>2. CASE ~ \E j \in 1 .. k - 1 : q[j].table = t
        BY <1>s, <4>2
      <4> QED BY <4>1, <4>2
    <3> QED BY <3>1 DEF LayAt
  <2> QED BY <1>s, <2>1 DEF States
<1>3. run[1] = s
  <2>1. LayAt(s, q, cols, 1) = s.lay
    <3>1. ASSUME NEW t \in Tables
          PROVE  ~ \E j \in 1 .. 1 - 1 : q[j].table = t
      OBVIOUS
    <3>2. LayAt(s, q, cols, 1) = [t \in Tables |-> s.lay[t]]
      BY <3>1 DEF LayAt
    <3> QED BY <1>s, <3>2
  <2> QED BY <1>1, <1>s, <2>1
<1>4. ASSUME NEW k \in 1 .. Len(q)
      PROVE  Link(run[k], q[k], run[k + 1])
  <2>1. k \in 1 .. Len(q) + 1 /\ k + 1 \in 1 .. Len(q) + 1
    BY <1>1
  <2>2. /\ run[k].view = s.view /\ run[k].lay = LayAt(s, q, cols, k) /\ run[k].cp = s.cp
        /\ run[k + 1].view = s.view /\ run[k + 1].lay = LayAt(s, q, cols, k + 1)
        /\ run[k + 1].cp = s.cp
    BY <2>1
  <2>3. run[k] \in States /\ run[k + 1] \in States
    BY <1>2, <2>1
  <2> HIDE DEF run
  <2>t. PICK t : t = q[k].table
    OBVIOUS
  <2>4. /\ q[k].op = "schema" /\ t \in known /\ q[k].cols = cols[t] /\ t \in Tables
        /\ Completed(Created(s.view[t], cols[t]), cols[t]) = s.view[t]
    BY <1>1, <2>t DEF Repeats
  <2>5. LayAt(s, q, cols, k + 1) = [LayAt(s, q, cols, k) EXCEPT ![t] = cols[t]]
    <3>1. ASSUME NEW u \in Tables
          PROVE  (IF \E j \in 1 .. (k + 1) - 1 : q[j].table = u THEN cols[u] ELSE s.lay[u])
                   = IF u = t THEN cols[t]
                     ELSE IF \E j \in 1 .. k - 1 : q[j].table = u THEN cols[u] ELSE s.lay[u]
      <4>1. \A j : j \in 1 .. (k + 1) - 1 <=> j \in 1 .. k - 1 \/ j = k
        BY <1>1
      <4>2. (\E j \in 1 .. (k + 1) - 1 : q[j].table = u)
              <=> (\E j \in 1 .. k - 1 : q[j].table = u) \/ u = t
        BY <4>1, <2>t
      <4> QED BY <4>2
    <3>2. LayAt(s, q, cols, k + 1) = [u \in Tables |-> IF u = t THEN cols[t] ELSE LayAt(s, q, cols, k)[u]]
      BY <3>1 DEF LayAt
    <3>3. [LayAt(s, q, cols, k) EXCEPT ![t] = cols[t]]
            = [u \in Tables |-> IF u = t THEN cols[t] ELSE LayAt(s, q, cols, k)[u]]
      BY DEF LayAt
    <3> QED BY <3>2, <3>3
  <2>6. s.view = [s.view EXCEPT ![t] = Completed(Created(s.view[t], cols[t]), cols[t])]
    BY <1>s, <2>4
  <2>7. Applies(run[k], q[k], run[k + 1])
    BY <2>2, <2>4, <2>5, <2>6, <2>t DEF Applies, InstallLayout
  <2>8. Good(run[k + 1])
    BY <2>2 DEF Good
  <2> QED BY <2>3, <2>4, <2>7, <2>8 DEF Link
<1>5. run \in [1 .. Len(q) + 1 -> States]
  BY <1>2
<1>r. PICK r : r = run[Len(q) + 1]
  OBVIOUS
<1>6. /\ r \in States /\ r.view = s.view /\ r.cp = s.cp /\ r.lay = LayAt(s, q, cols, Len(q) + 1)
  <2>1. Len(q) + 1 \in 1 .. Len(q) + 1
    BY <1>1
  <2>2. r \in States
    BY <1>2, <1>r, <2>1
  <2>3. r = [view |-> s.view, lay |-> LayAt(s, q, cols, Len(q) + 1), cp |-> s.cp]
    BY <1>r, <2>1
  <2> QED BY <2>2, <2>3
<1> HIDE DEF run
<1>7. Reaches(s, q, r)
  BY <1>3, <1>4, <1>5, <1>r DEF Reaches, Leads
<1> QED BY <1>6, <1>7

\* What MySQL did not change leaves the runs alone.
LEMMA QuietCovers ==
  ASSUME UNCHANGED mysqlVars
  PROVE  /\ \A t, p : DropAhead(t, p) => DropAhead(t, p)'
         /\ \A view, p : Covered(view, p) => Covered(view, p)'
<1>1. log' = log /\ hist' = hist
  BY DEF mysqlVars
<1>2. ASSUME NEW t, NEW p, DropAhead(t, p)
      PROVE  DropAhead(t, p)'
  BY <1>1, <1>2 DEF DropAhead
<1>3. ASSUME NEW view, NEW p, Covered(view, p)
      PROVE  Covered(view, p)'
  <2>1. ASSUME NEW t \in AllowedTables
        PROVE  Current(t, view[t], p)'
    <3>1. PICK m \in 1 .. Len(log) + 1 : view[t] = Loaded(hist[m][t]) /\ (m > p \/ DropAhead(t, p))
      BY <1>3 DEF Covered, Current
    <3> QED BY <1>1, <1>2, <3>1 DEF Current
  <2> QED BY <2>1 DEF Covered
<1> QED BY <1>2, <1>3

LEMMA QuietLinks ==
  ASSUME UNCHANGED <<mysqlVars, startCp>>
  PROVE  /\ \A s : Good(s) => Good(s)'
         /\ \A a, e, b : Link(a, e, b) => Link(a, e, b)'
<1>1. UNCHANGED mysqlVars /\ log' = log /\ startCp' = startCp
  BY DEF mysqlVars
<1>2. ASSUME NEW s, Good(s)
      PROVE  Good(s)'
  BY <1>1, <1>2, QuietCovers DEF Good
<1>3. ASSUME NEW a, NEW e, NEW b, Link(a, e, b)
      PROVE  Link(a, e, b)'
  <2>1. /\ a \in States /\ b \in States /\ Good(b) /\ Applies(a, e, b)
        /\ e.op = "ddl" => Covered(b.view, a.cp)
    BY <1>3 DEF Link
  <2>2. Good(b)' /\ (e.op = "ddl" => Covered(b.view, a.cp)')
    BY <1>1, <1>2, <2>1, QuietCovers
  <2> QED BY <2>1, <2>2 DEF Link, Applies
<1> QED BY <1>2, <1>3

\* The schemas of a new session are those of the tables the writer has, or will have.
LEMMA SyncKnown ==
  ASSUME Reliable, reader = "connecting", NEW s \in States, Good(s),
         NEW t \in AllowedTables, SchemaOf(t) # None, NEW cols, cols = ProjectSchema(SchemaOf(t))
  PROVE  /\ cols \in Seq(Columns) /\ s.view[t] # None /\ s.view[t].cols = ToSet(cols)
         /\ Completed(Created(s.view[t], cols), cols) = s.view[t]
<1>1. /\ Len(log) \in Nat /\ startCp \in Nat /\ s.cp \in startCp .. Len(log)
      /\ Calm(startCp) /\ MySqlTyped /\ LogInv /\ Histories /\ t \in Tables
      /\ MySql = hist[Len(log) + 1]
  BY HistoryEnds DEF Reliable, ReaderTyped, ReaderInv, Good, AllowedTables
<1>2. MySql[t] # None /\ SchemaOf(t) = MySql[t].cols /\ SchemaOf(t) \in Seq(Columns)
  BY <1>1, SchemaOfType DEF SchemaOf
<1>3. cols \in Seq(Columns)
  BY <1>2, ProjectedSequence
<1>4. PICK m \in 1 .. Len(log) + 1 :
        s.view[t] = Loaded(hist[m][t]) /\ (m > s.cp \/ DropAhead(t, s.cp))
  BY DEF Good, Covered, Current
<1>5. ~ DropAhead(t, s.cp)
  <2>1. \A i \in s.cp + 1 .. Len(log) : i \in startCp + 1 .. Len(log)
    BY <1>1
  <2>2. Calm(s.cp) /\ s.cp \in Nat
    BY <1>1, <2>1 DEF Calm
  <2> QED BY <1>1, <1>2, <2>2, DroppedIsGone
<1>6. hist[m][t] # None /\ MySql[t].cols = hist[m][t].cols
  <2>1. m \in startCp + 1 .. Len(log) + 1 /\ Len(log) + 1 \in m .. Len(log) + 1
    BY <1>1, <1>4, <1>5
  <2>2. hist[Len(log) + 1][t] # None
    BY <1>1, <1>2
  <2>3. hist[m][t] # None /\ hist[Len(log) + 1][t].cols = hist[m][t].cols
    BY <1>1, <2>1, <2>2, ColumnsKept
  <2> QED BY <1>1, <2>3
<1>w. PICK table : table = hist[m][t]
  OBVIOUS
<1>7. Sound(table) /\ s.view[t] = Loaded(table) /\ cols = ProjectSchema(table.cols)
  BY <1>1, <1>2, <1>4, <1>5, <1>6, <1>w, HistorySound DEF SoundDb
<1>8. /\ Loaded(table) # None /\ Loaded(table).cols = Kept(table.cols)
      /\ ToSet(cols) = Kept(table.cols)
  BY <1>7, LoadedIs
<1>9. Completed(Created(Loaded(table), cols), cols) = Loaded(table)
  BY <1>7, <1>8, CompletedSame
<1> QED BY <1>3, <1>7, <1>8, <1>9

\* A table without one is about to be dropped, if it is there.
LEMMA SyncMissing ==
  ASSUME Reliable, reader = "connecting", NEW t \in AllowedTables, SchemaOf(t) = None,
         hist[pos + 1][t] # None
  PROVE  DropAhead(t, pos)
<1>1. /\ pos \in Nat /\ pos <= Len(log) /\ Len(log) \in Nat /\ Calm(pos) /\ MySqlTyped /\ LogInv
      /\ Histories /\ t \in Tables
  BY HistoryEnds DEF Reliable, ReaderTyped, ReaderInv, AllowedTables
<1>2. MySql[t] = None
  BY <1>1, MySqlTables, SchemaAssumption DEF SchemaOf
<1>n. PICK n \in Nat : n = pos + 1
  BY <1>1
<1>3. \E i \in n .. Len(log) : log[i].kind = "drop" /\ t \in ToSet(log[i].tables)
  <2>1. n \in pos + 1 .. Len(log) + 1 /\ hist[n][t] # None
    BY <1>1, <1>n
  <2> QED BY <1>1, <1>2, <2>1, GoneIsDropped
<1> QED BY <1>3, <1>n DEF DropAhead

\* Starts a session.
LEMMA SyncExtends ==
  ASSUME Reliable, Sync, writer = "running", NEW s \in States, Good(s), End(s)
  PROVE  Extends(s)
<1> DEFINE now == [t \in Tables |-> IF TableAllowed(t) THEN SchemaOf(t) ELSE None]
           known == {t \in Tables : now[t] # None}
           event == [t \in known |-> [op |-> "schema", table |-> t, cols |-> ProjectSchema(now[t])]]
           events == {[op |-> "schema", table |-> t, cols |-> ProjectSchema(now[t])] : t \in known}
<1>1. /\ reader = "connecting" /\ UNCHANGED <<mysqlVars, startCp, pos>>
      /\ schemas' = now /\ chan' = chan \o SetToSeq(events) /\ reader' = "streaming"
  BY DEF Sync
<1>2. /\ MySqlTyped /\ LogInv /\ ReaderTyped /\ ReaderInv /\ Histories
      /\ pos = startCp /\ startCp \in Nat
  BY <1>1 DEF Reliable, ReaderInv, ReaderTyped
<1>3. \A t \in known : t \in AllowedTables /\ now[t] = SchemaOf(t) /\ SchemaOf(t) # None
  BY DEF AllowedTables
<1>4. \A t \in AllowedTables : t \in Tables /\ now[t] = SchemaOf(t)
  BY DEF AllowedTables
<1>k. known = {t \in Tables : now[t] # None}
  OBVIOUS
<1> HIDE DEF now
<1>5. IsFiniteSet(events)
  <2>1. IsFiniteSet(known)
    BY SchemaAssumption, FS_Subset
  <2>2. event \in Surjection(known, events)
    BY DEF Surjection
  <2> QED BY <2>1, <2>2, FS_Surjection
<1>c. PICK cols : cols = [t \in known |-> ProjectSchema(now[t])]
  OBVIOUS
<1>6. \A e \in events : e.op = "schema" /\ e.table \in known /\ e.cols = cols[e.table]
  BY <1>c
<1>7. ASSUME NEW t \in known
      PROVE  \E e \in events : e.table = t
  <2>e. PICK e : e = [op |-> "schema", table |-> t, cols |-> ProjectSchema(now[t])]
    OBVIOUS
  <2>1. e \in events
    BY <2>e
  <2>2. e.table = t
    BY <2>e
  <2> QED BY <2>1, <2>2
<1> HIDE DEF known, event, events
<1>q. PICK q \in Seq(events) : q = SetToSeq(events)
  BY <1>5, SetToSeqElements
<1>8. Len(q) \in Nat /\ (\A j \in 1 .. Len(q) : q[j] \in events) /\ DOMAIN q = 1 .. Len(q)
  OBVIOUS
<1>9. ASSUME NEW t \in known
      PROVE  /\ cols[t] = ProjectSchema(SchemaOf(t)) /\ cols[t] \in Seq(Columns)
             /\ s.view[t] # None /\ s.view[t].cols = ToSet(cols[t])
             /\ Completed(Created(s.view[t], cols[t]), cols[t]) = s.view[t]
  <2>1. t \in AllowedTables /\ SchemaOf(t) # None /\ cols[t] = ProjectSchema(SchemaOf(t))
    BY <1>3, <1>c
  <2> QED BY <1>1, <2>1, SyncKnown
<1>10. Repeats(s, q, known, cols)
  <2>1. known \subseteq Tables
    BY <1>k
  <2> QED BY <1>6, <1>8, <1>9, <2>1 DEF Repeats
<1>11. PICK r \in States : /\ Reaches(s, q, r) /\ r.view = s.view /\ r.cp = s.cp
                           /\ r.lay = LayAt(s, q, cols, Len(q) + 1)
  BY <1>10, SchemasReach
<1>12. ASSUME NEW t \in known
       PROVE  r.lay[t] = cols[t]
  <2>1. PICK e \in events : e.table = t
    BY <1>7
  <2>2. PICK i \in DOMAIN q : q[i] = e
    BY <1>5, <1>q, SetToSeqOnto
  <2>3. i \in 1 .. (Len(q) + 1) - 1 /\ q[i].table = t /\ t \in Tables
    BY <1>8, <1>k, <2>1, <2>2
  <2> QED BY <1>11, <2>3 DEF LayAt
<1>13. End(r)'
  <2>1. Known(r)'
    <3>1. ASSUME NEW t \in AllowedTables, schemas'[t] # None
          PROVE  /\ r.lay[t] = ProjectSchema(schemas'[t])
                 /\ r.view[t] # None /\ r.view[t].cols = ToSet(ProjectSchema(schemas'[t]))
      <4>1. t \in known /\ schemas'[t] = SchemaOf(t)
        BY <1>1, <1>4, <1>k, <3>1
      <4> QED BY <1>9, <1>11, <1>12, <4>1
    <3> QED BY <3>1 DEF Known
  <2>2. Covered(r.view, pos)'
    <3>1. s.cp \in Nat /\ startCp <= s.cp
      BY <1>2 DEF Good, States
    <3>2. Covered(s.view, startCp)
      BY <1>2, <3>1, CoveredFrom DEF Good
    <3>3. Covered(r.view, startCp)'
      BY <1>1, <1>11, <3>2, QuietCovers
    <3> QED BY <1>1, <1>2, <3>3 DEF Covered, Current, DropAhead
  <2>3. Missing'
    <3>1. ASSUME NEW t \in AllowedTables, schemas'[t] = None, hist[pos + 1][t] # None
          PROVE  DropAhead(t, pos)
      <4>1. SchemaOf(t) = None
        BY <1>1, <1>4, <3>1
      <4> QED BY <1>1, <3>1, <4>1, SyncMissing
    <3> QED BY <1>1, <3>1 DEF Missing, DropAhead, mysqlVars
  <2>4. Calmly(r)'
    <3>1. Undisturbed'
      BY <1>1, <1>2, SyncReaderInv
    <3>2. Gentle(startCp) /\ TruncatesAfter(s.cp)
      BY <1>1 DEF End
    <3>3. Gentle(startCp)'
      BY <1>1, <3>2 DEF Gentle, Pending, mysqlVars
    <3>4. TruncatesAfter(r.cp)'
      BY <1>1, <1>11, <3>2 DEF TruncatesAfter, mysqlVars
    <3> QED BY <3>1, <3>3, <3>4 DEF Calmly
  <2> QED BY <1>1, <2>1, <2>2, <2>3, <2>4 DEF End
<1>14. chan' = chan \o q
  BY <1>1, <1>q
<1> QED BY <1>11, <1>13, <1>14 DEF Extends

-----------------------------------------------------------------------------
\* The store is covered by its checkpoint, but for the tables a schema was not applied to;
\* if there are none, nothing has been refused.
StoreInv ==
  /\ ckpt \in startCp .. Len(log)
  /\ \E view \in [Tables -> LocalTable \cup {None}] :
       Agree(view, store, damaged) /\ Covered(view, ckpt)
  /\ (damaged = {} => ~ refused) /\ (ddlCp # 0 => winCp = 0)

\* What the channel holds leads from h to r.
Runs(h, c, r) == h \in States /\ r \in States /\ Good(h) /\ Reaches(h, c, r) /\ End(r)

RunInv == writer = "running" => \E h, c, r : Like(h) /\ c = chan /\ Runs(h, c, r)

LEMMA QuietEnd ==
  ASSUME UNCHANGED <<mysqlVars, readerVars>>, NEW s, End(s)
  PROVE  End(s)'
<1>1. /\ log' = log /\ hist' = hist /\ startCp' = startCp /\ reader' = reader /\ pos' = pos
      /\ schemas' = schemas
  BY DEF mysqlVars, readerVars
<1>2. Gentle(startCp) = Gentle(startCp)' /\ TruncatesAfter(s.cp) = TruncatesAfter(s.cp)'
  BY <1>1 DEF Gentle, Pending, TruncatesAfter
<1>3. Known(s) = Known(s)' /\ Missing = Missing'
  BY <1>1 DEF Known, Missing, DropAhead
<1>4. Covered(s.view, pos) = Covered(s.view, pos)'
  BY <1>1 DEF Covered, Current, DropAhead
<1>5. Calmly(s) = Calmly(s)'
  BY <1>1, <1>2 DEF Calmly, Undisturbed, Calm, Fits
<1>6. ASSUME NEW d
      PROVE  Before(s, d) = Before(s, d)'
  BY <1>1 DEF Before, Awaited, Fits
<1> QED BY <1>1, <1>2, <1>3, <1>4, <1>5, <1>6 DEF End

LEMMA LikeSame ==
  ASSUME UNCHANGED <<storeVars, writerVars, damaged>>, NEW h
  PROVE  (Like(h) => Like(h)') /\ writer' = writer
<1>1. /\ store' = store /\ ckpt' = ckpt /\ layouts' = layouts /\ window' = window /\ winCp' = winCp
      /\ ddlCp' = ddlCp /\ damaged' = damaged /\ writer' = writer
  BY DEF storeVars, writerVars
<1>2. Flushed' = Flushed
  BY <1>1 DEF Flushed
<1> QED BY <1>1, <1>2 DEF Like, Agree

\* What the reader sends is added to the run.
LEMMA RunExtended ==
  ASSUME Shape(Value), RunInv, UNCHANGED <<mysqlVars, startCp, storeVars, writerVars, damaged>>,
         writer = "running" => \A s \in States : Good(s) /\ End(s) => Extends(s)
  PROVE  RunInv'
<1> SUFFICES ASSUME writer' = "running"
             PROVE  \E h, c, r : Like(h)' /\ c = chan' /\ Runs(h, c, r)'
  BY DEF RunInv
<1>1. writer = "running"
  BY LikeSame
<1>2. PICK h, c, r : Like(h) /\ c = chan /\ Runs(h, c, r)
  BY <1>1 DEF RunInv
<1>3. h \in States /\ r \in States /\ Good(h) /\ Reaches(h, c, r) /\ End(r)
  BY <1>2 DEF Runs
<1>4. c \in Seq(Events(Value, Len(log)))
  BY <1>2 DEF Shape, ChannelTyped
<1>5. Good(r)
  BY <1>3, <1>4, ReachesGood
<1>6. Extends(r)
  BY <1>1, <1>3, <1>5
<1>7. PICK E, q, x : q \in Seq(E) /\ chan' = chan \o q /\ Reaches(r, q, x) /\ x \in States /\ End(x)'
  BY <1>6 DEF Extends
<1> DEFINE T == Events(Value, Len(log)) \cup E
<1>8. c \in Seq(T) /\ q \in Seq(T)
  <2>1. Events(Value, Len(log)) \subseteq T /\ E \subseteq T
    OBVIOUS
  <2> HIDE DEF T
  <2> QED BY <1>4, <1>7, <2>1, SeqWiden
<1>w. PICK w : w = c \o q
  OBVIOUS
<1>9. Reaches(h, w, x)
  <2> HIDE DEF T
  <2>1. Reaches(h, c \o q, x)
    BY <1>3, <1>7, <1>8, ReachesFurther
  <2> QED BY <1>w, <2>1
<1>10. Good(h)' /\ Reaches(h, w, x)'
  <2>1. /\ \A s : Good(s) => Good(s)'
        /\ \A a, e, b : Link(a, e, b) => Link(a, e, b)'
    BY QuietLinks
  <2>2. Reaches(h, w, x)'
    BY <1>9, <2>1, ReachesStill
  <2> QED BY <1>3, <2>1, <2>2
<1>11. Runs(h, w, x)'
  BY <1>3, <1>7, <1>10 DEF Runs
<1>12. Like(h)'
  BY <1>2, LikeSame
<1> QED BY <1>2, <1>7, <1>11, <1>12, <1>w

\* The reader leaves the store alone.
LEMMA QuietStoreInv ==
  ASSUME StoreInv, UNCHANGED <<mysqlVars, startCp, storeVars, writerVars, refused, damaged>>
  PROVE  StoreInv'
<1>1. /\ log' = log /\ startCp' = startCp /\ store' = store /\ ckpt' = ckpt /\ refused' = refused
      /\ ddlCp' = ddlCp /\ winCp' = winCp /\ damaged' = damaged
  BY DEF mysqlVars, storeVars, writerVars
<1>2. PICK view \in [Tables -> LocalTable \cup {None}] :
        Agree(view, store, damaged) /\ Covered(view, ckpt)
  BY DEF StoreInv
<1>3. Covered(view, ckpt)'
  <2>1. PICK cp : cp = ckpt
    OBVIOUS
  <2>2. Covered(view, cp)'
    BY <1>2, <2>1, QuietCovers
  <2> QED BY <1>1, <2>1, <2>2 DEF Covered, Current, DropAhead
<1>4. Agree(view, store, damaged)'
  BY <1>1, <1>2 DEF Agree
<1> QED BY <1>1, <1>3, <1>4 DEF StoreInv

\* A session ends: what is read again is ahead of nothing that truncates.
LEMMA StreamErrorExtends ==
  ASSUME InOrder, StreamError, Shape(Value), NEW s \in States, End(s)
  PROVE  Extends(s)
<1>1. /\ UNCHANGED mysqlVars /\ startCp' = startCp /\ reader' = "connecting" /\ pos' = startCp
      /\ chan' = chan /\ log' = log
  BY DEF StreamError, mysqlVars
<1>2. Pending(startCp) \subseteq {"drop", "other"}
  BY DEF StreamError, Within, InOrder
<1>3. Gentle(startCp)'
  BY <1>1, <1>2 DEF Gentle, Pending
<1>4. TruncatesAfter(s.cp)'
  <2>1. ASSUME NEW i \in startCp + 1 .. Len(log), log[i].kind = "truncate"
        PROVE  FALSE
    <3>1. "truncate" \in Pending(startCp)
      BY <2>1 DEF Pending
    <3> QED BY <1>2, <3>1
  <2> QED BY <1>1, <2>1 DEF TruncatesAfter
<1>5. End(s)'
  BY <1>1, <1>3, <1>4 DEF End
<1>6. chan' = chan \o <<>>
  BY <1>1 DEF Shape, ChannelTyped
<1> QED BY <1>5, <1>6, NothingSent

-----------------------------------------------------------------------------
\* The writer leaves MySQL and the reader alone.
WriterQuiet == UNCHANGED <<mysqlVars, readerVars>>

LEMMA QuietRuns ==
  ASSUME WriterQuiet, NEW h, NEW c, NEW r, Runs(h, c, r)
  PROVE  Runs(h, c, r)'
<1>1. UNCHANGED <<mysqlVars, startCp>> /\ UNCHANGED <<mysqlVars, readerVars>>
  BY DEF WriterQuiet, readerVars
<1>2. h \in States /\ r \in States /\ Good(h) /\ Reaches(h, c, r) /\ End(r)
  BY DEF Runs
<1>3. /\ \A s : Good(s) => Good(s)'
      /\ \A a, e, b : Link(a, e, b) => Link(a, e, b)'
  BY <1>1, QuietLinks
<1>4. Good(h)' /\ Reaches(h, c, r)'
  BY <1>2, <1>3, ReachesStill
<1>5. End(r)'
  BY <1>1, <1>2, QuietEnd
<1> QED BY <1>2, <1>4, <1>5 DEF Runs

\* What the writer has, and what it makes of the next event.
LEMMA NextEvent ==
  ASSUME Shape(Value), RunInv, writer = "running", chan # <<>>
  PROVE  \E h, x, r : /\ Like(h) /\ Link(h, Head(chan), x) /\ Runs(x, Tail(chan), r)
                      /\ h \in States /\ Good(h)
<1>1. PICK h, c, r : Like(h) /\ c = chan /\ Runs(h, c, r)
  BY DEF RunInv
<1>2. c \in Seq(Events(Value, Len(log))) /\ c # <<>>
  BY <1>1 DEF Shape, ChannelTyped
<1>3. h \in States /\ r \in States /\ Good(h) /\ Reaches(h, c, r) /\ End(r)
  BY <1>1 DEF Runs
<1>4. PICK x : Link(h, Head(c), x) /\ Reaches(x, Tail(c), r)
  BY <1>2, <1>3, ReachesRest
<1>5. x \in States /\ Good(x)
  BY <1>4 DEF Link
<1>6. Runs(x, Tail(c), r)
  BY <1>3, <1>4, <1>5 DEF Runs
<1> QED BY <1>1, <1>3, <1>4, <1>6

\* The invariants after a step of the writer.
LEMMA WriterStore ==
  ASSUME WriterQuiet, NEW s \in States, NEW cp, cp \in startCp .. Len(log), Covered(s.view, cp),
         Agree(s.view, store', damaged'), ckpt' = cp, damaged' = {} => ~ refused',
         ddlCp' # 0 => winCp' = 0
  PROVE  StoreInv'
<1>1. log' = log /\ startCp' = startCp /\ UNCHANGED mysqlVars
  BY DEF WriterQuiet, mysqlVars, readerVars
<1>2. PICK view : view = s.view /\ view \in [Tables -> LocalTable \cup {None}]
  BY DEF States
<1>3. Covered(view, cp)'
  BY <1>1, <1>2, QuietCovers
<1>4. Covered(view, ckpt)'
  BY <1>3 DEF Covered, Current, DropAhead
<1>5. Agree(view, store, damaged)'
  BY <1>2 DEF Agree
<1> QED BY <1>1, <1>2, <1>4, <1>5 DEF StoreInv

\* What leads from what the writer has now, through what is in the channel now, is a run.
LEMMA WriterRun ==
  ASSUME WriterQuiet, NEW h, NEW c, NEW r, Runs(h, c, r), Like(h)', c = chan'
  PROVE  RunInv'
<1>1. Runs(h, c, r)'
  BY QuietRuns
<1> QED BY <1>1 DEF RunInv

LEMMA StateIs ==
  ASSUME NEW x \in States
  PROVE  /\ x.view \in [Tables -> LocalTable \cup {None}]
         /\ x.lay \in [Tables -> Seq(Columns) \cup {None}] /\ x.cp \in Nat
BY DEF States

\* The state behind a step that leaves nothing pending.
LEMMA LikeNext ==
  ASSUME NEW x, window' = EmptyWindow, winCp' = 0,
         Agree(x.view, store', damaged'), Agree(x.lay, layouts', damaged'),
         x.cp = IF ddlCp' # 0 THEN ddlCp' ELSE ckpt'
  PROVE  Like(x)'
<1>1. \A t \in Tables : Flushed'[t] = store'[t]
  BY DEF Flushed, EmptyWindow
<1>2. \A t \in Tables \ damaged' : x.view[t] = Flushed'[t] /\ x.lay[t] = layouts'[t]
  BY <1>1 DEF Agree
<1> QED BY <1>2 DEF Like, Agree

\* A flush: the writer has on disk what it had in its window.
LEMMA FlushBatchRuns ==
  ASSUME Shape(Value), StoreInv, RunInv, FlushBatch
  PROVE  StoreInv' /\ RunInv'
<1>1. /\ writer = "running" /\ ddlCp = 0 /\ winCp # 0
      /\ store' = Flushed /\ ckpt' = winCp /\ window' = EmptyWindow /\ winCp' = 0
      /\ layouts' = layouts /\ ddlCp' = 0 /\ chan' = chan /\ refused' = refused /\ damaged' = damaged
      /\ WriterQuiet
  BY DEF FlushBatch, FlushedCp, WriterQuiet
<1>2. PICK h, c, r : Like(h) /\ c = chan /\ Runs(h, c, r)
  BY <1>1 DEF RunInv
<1>3. h \in States /\ Good(h)
  BY <1>2 DEF Runs
<1>4. /\ Agree(h.view, store', damaged') /\ Agree(h.lay, layouts', damaged')
      /\ h.cp = winCp
  BY <1>1, <1>2 DEF Like
<1>5. Like(h)'
  BY <1>1, <1>4, LikeNext
<1>6. RunInv'
  BY <1>1, <1>2, <1>5, WriterRun
<1>7. StoreInv'
  <2>1. h.cp \in startCp .. Len(log) /\ Covered(h.view, h.cp)
    BY <1>3 DEF Good
  <2>2. ckpt' = h.cp /\ (damaged' = {} => ~ refused') /\ (ddlCp' # 0 => winCp' = 0)
    BY <1>1, <1>4 DEF StoreInv
  <2> QED BY <1>1, <1>3, <1>4, <2>1, <2>2, WriterStore
<1> QED BY <1>6, <1>7

\* A flush fails: the writer halts, and what it had stored stays.
LEMMA FlushFailsRuns ==
  ASSUME StoreInv, FlushFails
  PROVE  StoreInv' /\ RunInv'
<1>1. /\ UNCHANGED <<mysqlVars, startCp>> /\ store' = store /\ ckpt' = ckpt /\ log' = log
      /\ refused' = refused /\ damaged' = damaged /\ ddlCp' = ddlCp /\ winCp' = winCp
      /\ writer' = "halted"
  BY DEF FlushFails, mysqlVars, readerVars, storeVars
<1>2. PICK view \in [Tables -> LocalTable \cup {None}] :
        Agree(view, store, damaged) /\ Covered(view, ckpt)
  BY DEF StoreInv
<1>3. PICK cp : cp = ckpt
  OBVIOUS
<1>4. Covered(view, cp)'
  BY <1>1, <1>2, <1>3, QuietCovers
<1>5. Covered(view, ckpt)' /\ Agree(view, store, damaged)'
  BY <1>1, <1>2, <1>3, <1>4 DEF Covered, Current, DropAhead, Agree
<1>6. StoreInv'
  BY <1>1, <1>5 DEF StoreInv
<1> QED BY <1>1, <1>6 DEF RunInv

\* The writer takes the first link of the run, a schema.
LEMMA ReceiveSchemaRuns ==
  ASSUME Shape(Value), StoreInv, RunInv, ReceiveSchema
  PROVE  StoreInv' /\ RunInv'
<1>e. PICK e : e = Head(chan)
  OBVIOUS
<1>1. /\ writer = "running" /\ ddlCp = 0 /\ chan # <<>> /\ e.op = "schema"
      /\ SchemaEnds(e.table, e.cols)
      /\ ckpt' = FlushedCp /\ window' = EmptyWindow /\ winCp' = 0 /\ chan' = Tail(chan)
      /\ ddlCp' = 0 /\ refused' = refused /\ WriterQuiet
  BY <1>e, ReceiveSchemaEnds DEF Receiving, WriterQuiet
<1>2. PICK h, x, r : /\ Like(h) /\ Link(h, e, x) /\ Runs(x, Tail(chan), r)
                     /\ h \in States /\ Good(h)
  BY <1>1, <1>e, NextEvent
<1>3. Agree(h.view, Flushed, damaged) /\ Agree(h.lay, layouts, damaged) /\ h.cp = FlushedCp
  BY <1>1, <1>2 DEF Like, FlushedCp
<1>4. x \in States /\ Good(x) /\ Applies(h, e, x)
  BY <1>2 DEF Link
<1>5. /\ x.view = [h.view EXCEPT ![e.table] = Completed(Created(h.view[e.table], e.cols), e.cols)]
      /\ x.lay = [h.lay EXCEPT ![e.table] = e.cols] /\ x.cp = h.cp
  BY <1>1, <1>4 DEF Applies, InstallLayout
<1>6. e.table \in AllowedTables /\ e.table \in Tables /\ e.cols \in Projected
  <2>1. e \in Events(Value, Len(log))
    BY <1>1, <1>e DEF Shape, ChannelTyped
  <2>2. e \in SchemaEvents
    BY <1>1, <2>1 DEF Events, RowEvents, AlterEvents, DropEvents, RenameEvents
  <2> QED BY <2>2 DEF SchemaEvents, AllowedTables
<1>7. \A u \in Tables \ {e.table} :
        x.view[u] = h.view[u] /\ x.lay[u] = h.lay[u] /\ store'[u] = Flushed[u] /\ layouts'[u] = layouts[u]
  BY <1>1, <1>2, <1>5, <1>6, SchemaEffect, StateIs, ValueSets
<1>8. Agree(x.view, store', damaged') /\ Agree(x.lay, layouts', damaged')
  <2>1. CASE SchemaApplied(e.table, e.cols) /\ UNCHANGED damaged
    <3>1. /\ store' = [Flushed EXCEPT ![e.table] = Completed(Created(Flushed[e.table], e.cols), e.cols)]
          /\ layouts' = [layouts EXCEPT ![e.table] = e.cols]
      BY <2>1 DEF SchemaApplied, InstallLayout
    <3>2. /\ Flushed \in [Tables -> LocalTables(Value) \cup {None}]
          /\ layouts \in [Tables -> Projected \cup {None}]
      BY FlushedType, ValueSets DEF Shape, StoreTyped
    <3>3. /\ store'[e.table] = Completed(Created(Flushed[e.table], e.cols), e.cols)
          /\ layouts'[e.table] = e.cols
      BY <1>6, <3>1, <3>2
    <3>4. /\ x.view[e.table] = Completed(Created(h.view[e.table], e.cols), e.cols)
          /\ x.lay[e.table] = e.cols
      BY <1>2, <1>5, <1>6, StateIs
    <3>5. e.table \notin damaged => h.view[e.table] = Flushed[e.table]
      BY <1>3, <1>6 DEF Agree
    <3> QED BY <1>3, <1>7, <2>1, <3>3, <3>4, <3>5 DEF Agree
  <2>2. CASE damaged' = damaged \cup {e.table}
    BY <1>3, <1>7, <2>2 DEF Agree
  <2> QED BY <1>1, <2>1, <2>2 DEF SchemaEnds
<1>9. Like(x)'
  BY <1>1, <1>3, <1>5, <1>8, LikeNext
<1>10. RunInv'
  BY <1>1, <1>2, <1>9, WriterRun
<1>11. StoreInv'
  <2>1. x.cp \in startCp .. Len(log) /\ Covered(x.view, x.cp) /\ ckpt' = x.cp
    BY <1>1, <1>3, <1>4, <1>5 DEF Good
  <2>2. damaged' = {} => ~ refused'
    BY <1>1 DEF StoreInv, SchemaEnds
  <2> QED BY <1>1, <1>4, <1>8, <2>1, <2>2, WriterStore
<1> QED BY <1>10, <1>11

\* A DDL does the same to tables that are the same, and what it does to others spreads to
\* the table that one of them is renamed to, only.
LEMMA TakenAgrees ==
  ASSUME Shape(Value), NEW s \in States, NEW e \in Events(Value, Len(log)), e.op = "ddl",
         Agree(s.view, Flushed, damaged), Agree(s.lay, layouts, damaged),
         Taken(e, s.view, s.lay) # None, Taken(e, Flushed, layouts) # None
  PROVE  /\ Agree(Taken(e, s.view, s.lay), Taken(e, Flushed, layouts), Followed(damaged, e))
         /\ Agree(Refreshed(e, s.lay), Refreshed(e, layouts), Followed(damaged, e))
<1>v. PICK view, lay, tables, lays : view = s.view /\ lay = s.lay /\ tables = Flushed /\ lays = layouts
  OBVIOUS
<1>1. /\ view \in [Tables -> LocalTable \cup {None}] /\ lay \in [Tables -> Seq(Columns) \cup {None}]
      /\ tables \in [Tables -> LocalTables(Value) \cup {None}]
      /\ lays \in [Tables -> Projected \cup {None}]
  BY <1>v, StateIs, FlushedType, ValueSets DEF Shape, StoreTyped
<1>2. \A u \in Tables \ damaged : view[u] = tables[u] /\ lay[u] = lays[u]
  BY <1>v DEF Agree
<1>3. Taken(e, view, lay) # None /\ Taken(e, tables, lays) # None
  BY <1>v
<1>4. e \in AlterEvents(Len(log)) \cup DropEvents(Len(log)) \cup RenameEvents(Len(log))
  BY DEF Events, RowEvents, SchemaEvents
<1>t. PICK t : t = e.table
  OBVIOUS
<1>5. t \in Tables
  BY <1>4, <1>t DEF AlterEvents, DropEvents, RenameEvents, AllowedTables
<1>6. CASE e \in DropEvents(Len(log))
  <2>1. e.kind \in {"drop", "truncate"} /\ Followed(damaged, e) = damaged
    BY <1>6 DEF DropEvents, Followed
  <2>2. CASE e.kind = "drop"
    <3>1. /\ Taken(e, view, lay) = [view EXCEPT ![t] = None]
          /\ Taken(e, tables, lays) = [tables EXCEPT ![t] = None]
          /\ Refreshed(e, lay) = [lay EXCEPT ![t] = None]
          /\ Refreshed(e, lays) = [lays EXCEPT ![t] = None]
      BY <1>t, <2>2 DEF Taken, Refreshed
    <3> QED BY <1>1, <1>2, <1>5, <1>v, <2>1, <3>1 DEF Agree
  <2>3. CASE e.kind = "truncate"
    <3>1. /\ Taken(e, view, lay) = [view EXCEPT ![t].row = None]
          /\ Taken(e, tables, lays) = [tables EXCEPT ![t].row = None]
          /\ Refreshed(e, lay) = lay /\ Refreshed(e, lays) = lays
      BY <1>3, <1>t, <2>3 DEF Taken, Refreshed
    <3>2. /\ [view EXCEPT ![t].row = None] = [view EXCEPT ![t] = [view[t] EXCEPT !.row = None]]
          /\ [tables EXCEPT ![t].row = None] = [tables EXCEPT ![t] = [tables[t] EXCEPT !.row = None]]
      OBVIOUS
    <3>3. \A u \in Tables \ damaged :
            [view EXCEPT ![t] = [view[t] EXCEPT !.row = None]][u]
              = [tables EXCEPT ![t] = [tables[t] EXCEPT !.row = None]][u]
      BY <1>1, <1>2, <1>5
    <3> QED BY <1>2, <1>v, <2>1, <3>1, <3>2, <3>3 DEF Agree
  <2> QED BY <2>1, <2>2, <2>3
<1>7. CASE e \in RenameEvents(Len(log))
  <2>1. e.kind = "rename" /\ e.arg \in Tables
    BY <1>7 DEF RenameEvents, AllowedTables
  <2>2. Followed(damaged, e) = IF t \in damaged THEN damaged \cup {e.arg} ELSE damaged
    BY <1>t, <2>1 DEF Followed
  <2>3. /\ Taken(e, view, lay) = [view EXCEPT ![t] = None, ![e.arg] = view[t]]
        /\ Taken(e, tables, lays) = [tables EXCEPT ![t] = None, ![e.arg] = tables[t]]
    BY <1>3, <1>t, <2>1 DEF Taken
  <2>4. /\ Refreshed(e, lay) = IF lay[t] = None THEN lay
                               ELSE [lay EXCEPT ![t] = None, ![e.arg] = lay[t]]
        /\ Refreshed(e, lays) = IF lays[t] = None THEN lays
                                ELSE [lays EXCEPT ![t] = None, ![e.arg] = lays[t]]
    BY <1>t, <2>1 DEF Refreshed
  <2>5. ASSUME NEW u \in Tables \ Followed(damaged, e)
        PROVE  /\ Taken(e, view, lay)[u] = Taken(e, tables, lays)[u]
               /\ Refreshed(e, lay)[u] = Refreshed(e, lays)[u]
    <3>1. u \in Tables \ damaged /\ (t \in damaged => u # e.arg)
      BY <2>2
    <3>2. CASE t \notin damaged
      <4>1. view[t] = tables[t] /\ lay[t] = lays[t] /\ view[u] = tables[u] /\ lay[u] = lays[u]
        BY <1>2, <1>5, <3>1, <3>2
      <4>2. Taken(e, view, lay)[u] = Taken(e, tables, lays)[u]
        BY <1>1, <1>5, <2>1, <2>3, <3>1, <4>1
      <4>3. Refreshed(e, lay)[u] = Refreshed(e, lays)[u]
        BY <1>1, <1>5, <2>1, <2>4, <3>1, <4>1
      <4> QED BY <4>2, <4>3
    <3>3. CASE t \in damaged
      <4>1. u # t /\ u # e.arg /\ view[u] = tables[u] /\ lay[u] = lays[u]
        BY <1>2, <3>1, <3>3
      <4>2. Taken(e, view, lay)[u] = view[u] /\ Taken(e, tables, lays)[u] = tables[u]
        BY <1>1, <1>5, <2>1, <2>3, <3>1, <4>1
      <4>3. Refreshed(e, lay)[u] = lay[u] /\ Refreshed(e, lays)[u] = lays[u]
        BY <1>1, <1>5, <2>1, <2>4, <3>1, <4>1
      <4> QED BY <4>1, <4>2, <4>3
    <3> QED BY <3>2, <3>3
  <2> QED BY <1>v, <2>5 DEF Agree
<1>8. CASE e \in AlterEvents(Len(log))
  <2>1. e.kind \in Alters /\ Followed(damaged, e) = damaged
    BY <1>8 DEF AlterEvents, Followed, Alters
  <2>2. /\ Refreshed(e, lay) = [lay EXCEPT ![t] = e.new]
        /\ Refreshed(e, lays) = [lays EXCEPT ![t] = e.new]
    BY <1>t, <2>1 DEF Refreshed, InstallLayout, Alters
  <2>3. ASSUME NEW f, NEW g
        PROVE  Taken(e, f, g) = IF NoOperation(e, g[t]) THEN IF g[t] = None THEN None ELSE f
                                ELSE IF Altered(e, f[t], g[t]) = None THEN None
                                ELSE [f EXCEPT ![t] = Altered(e, f[t], g[t])]
    BY <1>t, <2>1 DEF Taken, Alters
  <2>4. ASSUME NEW u \in Tables \ damaged
        PROVE  Taken(e, view, lay)[u] = Taken(e, tables, lays)[u]
    <3>1. view[u] = tables[u]
      BY <1>2
    <3>2. CASE u = t
      <4>1. view[t] = tables[t] /\ lay[t] = lays[t]
        BY <1>2, <3>2
      <4>v. PICK altered : altered = Altered(e, tables[t], lays[t])
        OBVIOUS
      <4>2. /\ Taken(e, view, lay) = IF NoOperation(e, lays[t]) THEN view
                                     ELSE [view EXCEPT ![t] = altered]
            /\ Taken(e, tables, lays) = IF NoOperation(e, lays[t]) THEN tables
                                        ELSE [tables EXCEPT ![t] = altered]
        BY <1>3, <2>3, <4>1, <4>v
      <4> QED BY <1>1, <1>5, <3>1, <3>2, <4>2
    <3>3. CASE u # t
      <4>1. \/ Taken(e, view, lay) = view
            \/ \E a : Taken(e, view, lay) = [view EXCEPT ![t] = a]
        BY <1>3, <2>3
      <4>2. \/ Taken(e, tables, lays) = tables
            \/ \E a : Taken(e, tables, lays) = [tables EXCEPT ![t] = a]
        BY <1>3, <2>3
      <4>3. Taken(e, view, lay)[u] = view[u]
        BY <1>1, <3>3, <4>1
      <4>4. Taken(e, tables, lays)[u] = tables[u]
        BY <1>1, <3>3, <4>2
      <4> QED BY <3>1, <4>3, <4>4
    <3> QED BY <3>2, <3>3
  <2>5. \A u \in Tables \ damaged : Refreshed(e, lay)[u] = Refreshed(e, lays)[u]
    BY <1>1, <1>2, <1>5, <2>2
  <2> QED BY <1>v, <2>1, <2>4, <2>5 DEF Agree
<1> QED BY <1>4, <1>6, <1>7, <1>8

\* The first link is a DDL: the store takes it.
LEMMA ReceiveDdlRuns ==
  ASSUME Shape(Value), StoreInv, RunInv, ReceiveDdl
  PROVE  StoreInv' /\ RunInv'
<1>e. PICK e : e = Head(chan)
  OBVIOUS
<1>1. /\ writer = "running" /\ ddlCp = 0 /\ chan # <<>> /\ e.op = "ddl"
      /\ ckpt' = FlushedCp /\ window' = EmptyWindow /\ winCp' = 0 /\ chan' = Tail(chan)
      /\ WriterQuiet
  BY <1>e DEF ReceiveDdl, Receiving, WriterQuiet
<1>2. PICK h, x, r : /\ Like(h) /\ Link(h, e, x) /\ Runs(x, Tail(chan), r)
                     /\ h \in States /\ Good(h)
  BY <1>1, <1>e, NextEvent
<1>3. Agree(h.view, Flushed, damaged) /\ Agree(h.lay, layouts, damaged) /\ h.cp = FlushedCp
  BY <1>1, <1>2 DEF Like, FlushedCp
<1>4. /\ x \in States /\ Good(x) /\ Applies(h, e, x) /\ Covered(x.view, h.cp)
      /\ h.cp \in startCp .. Len(log) /\ Covered(h.view, h.cp)
  BY <1>1, <1>2 DEF Link, Good
<1>5. /\ Taken(e, h.view, h.lay) # None /\ x.view = Taken(e, h.view, h.lay)
      /\ x.lay = Refreshed(e, h.lay) /\ x.cp = e.cp
  BY <1>1, <1>4 DEF Applies
<1>6. \/ /\ Taken(e, Flushed, layouts) # None
         /\ store' = Taken(e, Flushed, layouts) /\ layouts' = Refreshed(e, layouts)
         /\ damaged' = Followed(damaged, e)
         /\ ddlCp' = e.cp /\ refused' = refused
      \/ /\ writer' = "halted" /\ refused' = (Taken(e, Flushed, layouts) = None)
         /\ store' = Flushed /\ ddlCp' = ddlCp /\ damaged' = damaged
  BY <1>e DEF ReceiveDdl
<1>7. e \in Events(Value, Len(log)) /\ e.cp # 0
  <2>1. e \in Events(Value, Len(log)) /\ Len(log) \in Nat
    <3>1. chan \in Seq(Events(Value, Len(log))) /\ Len(log) \in Nat
      BY MySqlTables DEF Shape, ChannelTyped
    <3> QED BY <1>1, <1>e, <3>1
  <2>2. e.cp \in 1 .. Len(log)
    BY <1>1, <2>1 DEF Events, RowEvents, SchemaEvents, AlterEvents, DropEvents, RenameEvents
  <2> QED BY <2>1, <2>2
<1>8. CASE /\ Taken(e, Flushed, layouts) # None
           /\ store' = Taken(e, Flushed, layouts) /\ layouts' = Refreshed(e, layouts)
           /\ damaged' = Followed(damaged, e)
           /\ ddlCp' = e.cp /\ refused' = refused
  <2>1. Agree(x.view, store', damaged') /\ Agree(x.lay, layouts', damaged')
    BY <1>1, <1>2, <1>3, <1>5, <1>7, <1>8, TakenAgrees
  <2>2. Like(x)'
    BY <1>1, <1>5, <1>7, <1>8, <2>1, LikeNext
  <2>3. RunInv'
    BY <1>1, <1>2, <2>2, WriterRun
  <2>4. StoreInv'
    <3>1. damaged' = {} => damaged = {}
      BY <1>8 DEF Followed
    <3>2. ckpt' = h.cp /\ (damaged' = {} => ~ refused') /\ (ddlCp' # 0 => winCp' = 0)
      BY <1>1, <1>3, <1>8, <3>1 DEF StoreInv
    <3> QED BY <1>1, <1>4, <2>1, <3>2, WriterStore
  <2> QED BY <2>3, <2>4
<1>9. CASE /\ writer' = "halted" /\ refused' = (Taken(e, Flushed, layouts) = None)
           /\ store' = Flushed /\ ddlCp' = ddlCp /\ damaged' = damaged
  <2>1. RunInv'
    BY <1>9 DEF RunInv
  <2>2. damaged = {} => Taken(e, Flushed, layouts) # None
    <3> SUFFICES ASSUME damaged = {}
                 PROVE  Taken(e, Flushed, layouts) # None
      OBVIOUS
    <3>1. /\ Flushed \in [Tables -> LocalTables(Value) \cup {None}]
          /\ layouts \in [Tables -> Projected \cup {None}]
      BY FlushedType, ValueSets DEF Shape, StoreTyped
    <3>2. /\ h.view \in [Tables -> LocalTable \cup {None}]
          /\ h.lay \in [Tables -> Seq(Columns) \cup {None}]
      BY <1>2, StateIs
    <3>v. PICK view, lay, tables, lays :
            view = h.view /\ lay = h.lay /\ tables = Flushed /\ lays = layouts
      OBVIOUS
    <3>3. \A u \in Tables : view[u] = tables[u] /\ lay[u] = lays[u]
      BY <1>3, <3>v DEF Agree
    <3>4. view = tables /\ lay = lays
      BY <3>1, <3>2, <3>3, <3>v
    <3> QED BY <1>5, <3>4, <3>v
  <2>3. StoreInv'
    <3>1. Agree(h.view, store', damaged')
      BY <1>3, <1>9
    <3>2. ckpt' = h.cp /\ (damaged' = {} => ~ refused') /\ (ddlCp' # 0 => winCp' = 0)
      BY <1>1, <1>3, <1>9, <2>2
    <3> QED BY <1>1, <1>2, <1>4, <3>1, <3>2, WriterStore
  <2> QED BY <2>1, <2>3
<1> QED BY <1>6, <1>8, <1>9

\* The checkpoint of a DDL is persisted, or the writer halts.
LEMMA PersistCheckpointRuns ==
  ASSUME Shape(Value), StoreInv, RunInv, PersistCheckpoint
  PROVE  StoreInv' /\ RunInv'
<1>1. /\ writer = "running" /\ ddlCp # 0 /\ ddlCp' = 0 /\ WriterQuiet
      /\ store' = store /\ chan' = chan /\ layouts' = layouts /\ window' = window /\ winCp' = winCp
      /\ refused' = refused /\ damaged' = damaged
      /\ ckpt' = ddlCp \/ (writer' = "halted" /\ ckpt' = ckpt)
  BY DEF PersistCheckpoint, WriterQuiet
<1>2. winCp = 0 /\ window = EmptyWindow /\ (damaged = {} => ~ refused)
  BY <1>1 DEF StoreInv, Shape, WindowTyped
<1>3. PICK h, c, r : Like(h) /\ c = chan /\ Runs(h, c, r)
  BY <1>1 DEF RunInv
<1>4. h \in States /\ Good(h)
  BY <1>3 DEF Runs
<1>5. Agree(h.view, store', damaged') /\ Agree(h.lay, layouts', damaged') /\ h.cp = ddlCp
  <2>1. \A t \in Tables : Flushed[t] = store[t]
    BY <1>2 DEF Flushed, EmptyWindow
  <2> QED BY <1>1, <1>2, <1>3, <2>1 DEF Like, Agree
<1>6. CASE ckpt' = ddlCp
  <2>1. Like(h)'
    BY <1>1, <1>2, <1>5, <1>6, LikeNext
  <2>2. RunInv'
    BY <1>1, <1>3, <2>1, WriterRun
  <2>3. StoreInv'
    <3>1. h.cp \in startCp .. Len(log) /\ Covered(h.view, h.cp)
      BY <1>4 DEF Good
    <3>2. ckpt' = h.cp /\ (damaged' = {} => ~ refused') /\ (ddlCp' # 0 => winCp' = 0)
      BY <1>1, <1>2, <1>5, <1>6
    <3> QED BY <1>1, <1>4, <1>5, <3>1, <3>2, WriterStore
  <2> QED BY <2>2, <2>3
<1>7. CASE writer' = "halted" /\ ckpt' = ckpt
  <2>1. RunInv'
    BY <1>7 DEF RunInv
  <2>2. StoreInv'
    <3>1. PICK view \in [Tables -> LocalTable \cup {None}] :
            Agree(view, store, damaged) /\ Covered(view, ckpt)
      BY DEF StoreInv
    <3>2. PICK s : s = [view |-> view, lay |-> [t \in Tables |-> None], cp |-> 0]
      OBVIOUS
    <3>3. s \in States /\ s.view = view
      BY <3>2 DEF States
    <3>4. PICK cp : cp = ckpt
      OBVIOUS
    <3>5. cp \in startCp .. Len(log) /\ Covered(s.view, cp) /\ Agree(s.view, store', damaged')
      BY <1>1, <3>1, <3>3, <3>4 DEF StoreInv
    <3>6. ckpt' = cp /\ (damaged' = {} => ~ refused') /\ (ddlCp' # 0 => winCp' = 0)
      BY <1>1, <1>2, <1>7, <3>4
    <3> QED BY <1>1, <3>3, <3>5, <3>6, WriterStore
  <2> QED BY <2>1, <2>2
<1> QED BY <1>1, <1>6, <1>7

-----------------------------------------------------------------------------
\* A row that is received is pending.

LEMMA RowPending ==
  ASSUME Shape(Value), NEW t \in Tables, NEW row \in Seq(Value),
         window' = [window EXCEPT ![t] = row], store' = store, layouts' = layouts
  PROVE  Flushed' = [Flushed EXCEPT ![t] = RowStored(Flushed[t], layouts[t], row)]
<1>1. /\ window \in [Tables -> Seq(Value) \cup {None}] /\ row # None
      /\ store \in [Tables -> LocalTables(Value) \cup {None}]
      /\ layouts[t] # None => store[t] # None
  BY SchemaAssumption DEF Shape, WindowTyped, StoreTyped
<1> DEFINE new(u) == IF window'[u] = None \/ layouts[u] = None THEN store[u]
                     ELSE [store[u] EXCEPT !.row =
                             IF window'[u] = NoRow THEN None
                             ELSE Bound(store[u].cols, layouts[u], window'[u])]
<1>2. Flushed' = [u \in Tables |-> new(u)]
  BY DEF Flushed
<1>3. ASSUME NEW u \in Tables \ {t}
      PROVE  new(u) = Flushed[u]
  <2>1. window'[u] = window[u]
    BY <1>1
  <2> QED BY <2>1 DEF Flushed
<1>4. new(t) = RowStored(Flushed[t], layouts[t], row)
  <2>1. window'[t] = row
    BY <1>1
  <2>2. CASE layouts[t] = None
    BY <2>1, <2>2 DEF Flushed, RowStored
  <2>3. CASE layouts[t] # None
    <3>s. PICK table : table = store[t]
      OBVIOUS
    <3>1. table = [cols |-> table.cols, row |-> table.row]
      BY <1>1, <2>3, <3>s, LocalFields
    <3>v. PICK new1 : new1 = IF row = NoRow THEN None ELSE Bound(table.cols, layouts[t], row)
      OBVIOUS
    <3>2. new(t) = [cols |-> table.cols, row |-> new1]
      <4>1. new(t) = [table EXCEPT !.row = new1]
        BY <1>1, <2>1, <2>3, <3>s, <3>v
      <4>2. [table EXCEPT !.row = new1] = [cols |-> table.cols, row |-> new1]
        BY <3>1
      <4> QED BY <4>1, <4>2
    <3>o. PICK old : Flushed[t] = [cols |-> table.cols, row |-> old]
      <4>1. CASE window[t] = None
        BY <3>1, <3>s, <4>1 DEF Flushed
      <4>2. CASE window[t] # None
        <5>o. PICK old : old = IF window[t] = NoRow THEN None ELSE Bound(table.cols, layouts[t], window[t])
          OBVIOUS
        <5>1. Flushed[t] = [table EXCEPT !.row = old]
          BY <2>3, <3>s, <4>2, <5>o DEF Flushed
        <5>2. [table EXCEPT !.row = old] = [cols |-> table.cols, row |-> old]
          BY <3>1
        <5> QED BY <5>1, <5>2
      <4> QED BY <4>1, <4>2
    <3>3. RowStored(Flushed[t], layouts[t], row) = [cols |-> table.cols, row |-> new1]
      <4>f. PICK f : f = Flushed[t]
        OBVIOUS
      <4>1. f = [cols |-> table.cols, row |-> old] /\ f.cols = table.cols
        BY <3>o, <4>f
      <4>2. RowStored(f, layouts[t], row) = [f EXCEPT !.row = new1]
        BY <2>3, <3>v, <4>1 DEF RowStored
      <4>3. [f EXCEPT !.row = new1] = [cols |-> table.cols, row |-> new1]
        BY <4>1
      <4> QED BY <4>2, <4>3, <4>f
    <3> QED BY <3>2, <3>3
  <2> QED BY <2>2, <2>3
<1> HIDE DEF new
<1>5. [Flushed EXCEPT ![t] = RowStored(Flushed[t], layouts[t], row)]
        = [u \in Tables |-> IF u = t THEN RowStored(Flushed[t], layouts[t], row) ELSE Flushed[u]]
  BY DEF Flushed
<1> QED BY <1>2, <1>3, <1>4, <1>5

\* The first link is a row.
LEMMA ReceiveRowRuns ==
  ASSUME Shape(Value), StoreInv, RunInv, ReceiveRow
  PROVE  StoreInv' /\ RunInv'
<1>e. PICK e : e = Head(chan)
  OBVIOUS
<1>1. /\ writer = "running" /\ ddlCp = 0 /\ chan # <<>> /\ e.op = "row"
      /\ window' = [window EXCEPT ![e.table] = e.row] /\ winCp' = e.cp /\ chan' = Tail(chan)
      /\ store' = store /\ ckpt' = ckpt /\ layouts' = layouts /\ ddlCp' = 0 /\ refused' = refused
      /\ damaged' = damaged /\ WriterQuiet
  BY <1>e DEF ReceiveRow, Receiving, WriterQuiet, storeVars
<1>2. PICK h, x, r : /\ Like(h) /\ Link(h, e, x) /\ Runs(x, Tail(chan), r)
                     /\ h \in States /\ Good(h)
  BY <1>1, <1>e, NextEvent
<1>3. Agree(h.view, Flushed, damaged) /\ Agree(h.lay, layouts, damaged)
  BY <1>2 DEF Like
<1>4. x \in States /\ Applies(h, e, x)
  BY <1>2 DEF Link
<1>5. e.table \in Tables /\ e.row \in Seq(Value) /\ e.cp # 0
  <2>1. e \in Events(Value, Len(log)) /\ Len(log) \in Nat
    <3>1. chan \in Seq(Events(Value, Len(log))) /\ Len(log) \in Nat
      BY MySqlTables DEF Shape, ChannelTyped
    <3> QED BY <1>1, <1>e, <3>1
  <2>2. e \in RowEvents(Value, Len(log))
    BY <1>1, <2>1 DEF Events, SchemaEvents, AlterEvents, DropEvents, RenameEvents
  <2> QED BY <2>1, <2>2 DEF RowEvents, AllowedTables
<1>6. /\ x.view = [h.view EXCEPT ![e.table] = RowStored(h.view[e.table], h.lay[e.table], e.row)]
      /\ x.lay = h.lay /\ x.cp = e.cp
  BY <1>1, <1>4 DEF Applies
<1>7. Flushed' = [Flushed EXCEPT ![e.table] = RowStored(Flushed[e.table], layouts[e.table], e.row)]
  BY <1>1, <1>5, RowPending
<1>8. Like(x)'
  <2>1. ASSUME NEW u \in Tables \ damaged
        PROVE  x.view[u] = Flushed'[u]
    <3>1. h.view[u] = Flushed[u] /\ h.lay[u] = layouts[u]
      BY <1>3, <2>1 DEF Agree
    <3>2. Flushed \in [Tables -> LocalTables(Value) \cup {None}]
      BY FlushedType, ValueSets
    <3>3. h.view \in [Tables -> LocalTable \cup {None}]
      BY <1>2, StateIs
    <3>4. CASE u = e.table
      BY <1>6, <1>7, <2>1, <3>1, <3>2, <3>3, <3>4
    <3>5. CASE u # e.table
      BY <1>6, <1>7, <2>1, <3>1, <3>2, <3>3, <3>5
    <3> QED BY <3>4, <3>5
  <2>2. Agree(x.lay, layouts', damaged')
    BY <1>1, <1>3, <1>6
  <2> QED BY <1>1, <1>5, <1>6, <2>1, <2>2 DEF Like, Agree
<1>9. RunInv'
  BY <1>1, <1>2, <1>8, WriterRun
<1>10. StoreInv'
  <2>1. UNCHANGED mysqlVars /\ startCp' = startCp /\ log' = log
    BY <1>1 DEF WriterQuiet, mysqlVars, readerVars
  <2>2. PICK view \in [Tables -> LocalTable \cup {None}] :
          Agree(view, store, damaged) /\ Covered(view, ckpt)
    BY DEF StoreInv
  <2>3. PICK cp : cp = ckpt
    OBVIOUS
  <2>4. Covered(view, cp)'
    BY <2>1, <2>2, <2>3, QuietCovers
  <2>5. Covered(view, ckpt)' /\ Agree(view, store, damaged)'
    BY <1>1, <2>2, <2>3, <2>4 DEF Covered, Current, DropAhead, Agree
  <2> QED BY <1>1, <2>1, <2>5 DEF StoreInv
<1> QED BY <1>9, <1>10

\* The process starts again.
LEMMA RestartRuns ==
  ASSUME InOrder, Shape(Value), StoreInv, Restart
  PROVE  StoreInv' /\ RunInv'
<1>1. /\ UNCHANGED mysqlVars /\ store' = store /\ ckpt' = ckpt /\ refused' = refused
      /\ damaged' = damaged
      /\ startCp' = ckpt /\ reader' = "connecting" /\ pos' = ckpt /\ chan' = <<>>
      /\ layouts' = [t \in Tables |-> None] /\ window' = EmptyWindow /\ winCp' = 0 /\ ddlCp' = 0
      /\ log' = log /\ hist' = hist
  BY DEF Restart, storeVars, mysqlVars
<1>2. Within(Pending(ckpt), Replayable)
  BY DEF Restart
<1>3. ckpt \in Nat /\ ckpt <= Len(log) /\ Len(log) \in Nat
  BY MySqlTables DEF Shape, WriterTyped
<1>v. PICK view \in [Tables -> LocalTable \cup {None}] :
        Agree(view, store, damaged) /\ Covered(view, ckpt)
  BY DEF StoreInv
<1>h. PICK h : h = [view |-> view, lay |-> [t \in Tables |-> None], cp |-> ckpt]
  OBVIOUS
<1>4. h \in States /\ h.view = view /\ h.lay = [t \in Tables |-> None] /\ h.cp = ckpt
  BY <1>3, <1>h DEF States
<1>5. Like(h)'
  <2>1. Agree(h.view, store', damaged') /\ Agree(h.lay, layouts', damaged')
    BY <1>1, <1>4, <1>v DEF Agree
  <2> QED BY <1>1, <1>4, <2>1, LikeNext
<1>6. Covered(h.view, h.cp)'
  <2>1. Covered(h.view, h.cp)
    BY <1>4, <1>v
  <2> QED BY <1>1, <2>1, QuietCovers
<1>7. Good(h)'
  BY <1>1, <1>3, <1>4, <1>6 DEF Good
<1>8. End(h)'
  <2>1. Gentle(startCp)'
    <3>1. ~ ({"truncate", "drop"} \subseteq Pending(ckpt))
      BY <1>2 DEF Within, InOrder
    <3> QED BY <1>1, <3>1 DEF Gentle, Pending
  <2>2. TruncatesAfter(h.cp)'
    BY <1>1, <1>3, <1>4 DEF TruncatesAfter
  <2> QED BY <1>1, <2>1, <2>2 DEF End
<1>c. PICK c : c = <<>>
  OBVIOUS
<1>9. Reaches(h, c, h)'
  <2> DEFINE run == [k \in 1 .. 1 |-> h]
  <2>1. Len(c) = 0
    BY <1>c
  <2>2. run \in [1 .. 0 + 1 -> States] /\ run[1] = h
    BY <1>4
  <2> HIDE DEF run
  <2>3. Leads(run, h, c, h)'
    BY <2>1, <2>2 DEF Leads
  <2> QED BY <2>3 DEF Reaches
<1>10. RunInv'
  <2>1. Runs(h, c, h)'
    BY <1>4, <1>7, <1>8, <1>9 DEF Runs
  <2> QED BY <1>1, <1>5, <1>c, <2>1 DEF RunInv
<1>11. StoreInv'
  <2>1. Covered(view, ckpt)'
    BY <1>1, <1>4, <1>6 DEF Covered, Current, DropAhead
  <2>2. Agree(view, store, damaged)'
    BY <1>1, <1>v DEF Agree
  <2>3. (damaged = {} => ~ refused)
    BY DEF StoreInv
  <2> QED BY <1>1, <1>3, <2>1, <2>2, <2>3 DEF StoreInv
<1> QED BY <1>10, <1>11

-----------------------------------------------------------------------------
\* The invariant.
Correct == Shape(Value) /\ LogInv /\ Histories /\ ReaderInv /\ StoreInv /\ RunInv

\* At the start the channel is empty, and the store is MySQL's.
LEMMA InitRuns ==
  ASSUME Init
  PROVE  StoreInv /\ RunInv
<1>1. /\ log = <<>> /\ hist = <<Initial>> /\ ckpt = 0 /\ startCp = 0 /\ reader = "connecting" /\ pos = 0
      /\ chan = <<>> /\ layouts = [t \in Tables |-> None] /\ window = EmptyWindow
      /\ winCp = 0 /\ ddlCp = 0 /\ refused = FALSE /\ damaged = {} /\ Len(log) = 0
      /\ store = [t \in Tables |-> IF TableAllowed(t) THEN Loaded(Initial[t]) ELSE None]
  BY DEF Init, EmptyWindow
<1>2. store \in [Tables -> LocalTable \cup {None}]
  BY InitShape, ValueSets DEF Shape, StoreTyped, LocalTables
<1>3. Covered(store, ckpt)
  <2>1. ASSUME NEW t \in AllowedTables
        PROVE  Current(t, store[t], ckpt)
    <3>1. 1 \in 1 .. Len(log) + 1 /\ store[t] = Loaded(hist[1][t]) /\ 1 > ckpt
      BY <1>1 DEF AllowedTables
    <3> QED BY <3>1 DEF Current
  <2> QED BY <2>1 DEF Covered
<1>4. StoreInv
  BY <1>1, <1>2, <1>3 DEF StoreInv, Agree
<1>h. PICK h : h = [view |-> store, lay |-> [t \in Tables |-> None], cp |-> 0]
  OBVIOUS
<1>5. h \in States /\ h.view = store /\ h.lay = [t \in Tables |-> None] /\ h.cp = 0
  BY <1>2, <1>h DEF States
<1>6. Like(h)
  <2>1. \A t \in Tables : Flushed[t] = store[t]
    BY <1>1 DEF Flushed, EmptyWindow
  <2> QED BY <1>1, <1>5, <2>1 DEF Like, Agree
<1>7. Good(h)
  BY <1>1, <1>3, <1>5 DEF Good
<1>8. End(h)
  <2>1. Pending(startCp) = {}
    BY <1>1 DEF Pending
  <2>2. TruncatesAfter(h.cp)
    BY <1>1 DEF TruncatesAfter
  <2> QED BY <1>1, <2>1, <2>2 DEF End, Gentle
<1>9. Runs(h, <<>>, h)
  BY <1>5, <1>7, <1>8, ReachesSelf DEF Runs
<1> QED BY <1>1, <1>4, <1>6, <1>9 DEF RunInv

LEMMA InitCorrect ==
  ASSUME Init
  PROVE  Correct
BY InitShape, ValueSets, InitReaderInv, InitialSound, InitRuns DEF Correct

\* MySQL goes on.
LEMMA ExecuteRuns ==
  ASSUME InOrder, Correct, Execute
  PROVE  Histories' /\ StoreInv' /\ RunInv'
<1>1. MySqlTyped /\ ReaderTyped /\ LogInv /\ Histories /\ ReaderInv
  BY DEF Correct, Shape
<1>2. PICK event, db : Executed(event, db)
  BY <1>1, ExecuteLogs
<1>3. Histories'
  BY <1>1, <1>2, ExecuteStatement, ExecuteHistories
<1>4. /\ Len(log) \in Nat /\ Len(log') = Len(log) + 1 /\ startCp \in Nat /\ ckpt \in Nat
      /\ UNCHANGED <<storeVars, writerVars, damaged>> /\ startCp' = startCp /\ chan' = chan
      /\ refused' = refused /\ damaged' = damaged
      /\ store' = store /\ ckpt' = ckpt /\ ddlCp' = ddlCp /\ winCp' = winCp
  BY <1>1, <1>2, HistoryEnds, LoggedHistory
     DEF Executed, Logged, readerVars, storeVars, writerVars, ReaderTyped, Correct, Shape, WriterTyped
<1>5. /\ \A view, p : p \in Nat /\ Covered(view, p) => Covered(view, p)'
      /\ \A s : Good(s) => Good(s)'
      /\ \A a, e, b : Link(a, e, b) => Link(a, e, b)'
  BY <1>1, <1>2, ExecuteCovers
<1>6. StoreInv'
  <2>1. PICK view \in [Tables -> LocalTable \cup {None}] :
          Agree(view, store, damaged) /\ Covered(view, ckpt)
    BY DEF StoreInv, Correct
  <2>2. PICK cp : cp = ckpt
    OBVIOUS
  <2>3. Covered(view, cp)'
    BY <1>4, <1>5, <2>1, <2>2
  <2>4. Covered(view, ckpt)' /\ Agree(view, store, damaged)'
    BY <1>4, <2>1, <2>2, <2>3 DEF Covered, Current, DropAhead, Agree
  <2>5. ckpt \in startCp .. Len(log) /\ (damaged = {} => ~ refused) /\ (ddlCp # 0 => winCp = 0)
    BY DEF Correct, StoreInv
  <2> QED BY <1>4, <2>4, <2>5 DEF StoreInv
<1>7. RunInv'
  <2> SUFFICES ASSUME writer' = "running"
               PROVE  \E h, c, r : Like(h)' /\ c = chan' /\ Runs(h, c, r)'
    BY DEF RunInv
  <2>1. writer = "running"
    BY <1>4, LikeSame
  <2>2. PICK h, c, r : Like(h) /\ c = chan /\ Runs(h, c, r)
    BY <2>1 DEF Correct, RunInv
  <2>3. h \in States /\ r \in States /\ Good(h) /\ Reaches(h, c, r) /\ End(r)
    BY <2>2 DEF Runs
  <2>4. c \in Seq(Events(Value, Len(log)))
    BY <2>2 DEF Correct, Shape, ChannelTyped
  <2>5. Good(r)
    BY <2>3, <2>4, ReachesGood
  <2>6. Good(h)' /\ Reaches(h, c, r)'
    BY <1>5, <2>3, ReachesStill
  <2>n. PICK n : n = Len(log) + 1
    OBVIOUS
  <2>7. End(r)'
    BY <1>1, <1>2, <2>3, <2>5, <2>n, ExecuteEnd
  <2>8. Runs(h, c, r)'
    BY <2>3, <2>6, <2>7 DEF Runs
  <2>9. Like(h)'
    BY <1>4, <2>2, LikeSame
  <2> QED BY <1>4, <2>2, <2>8, <2>9
<1> QED BY <1>3, <1>6, <1>7

\* The reader goes on.
LEMMA ReaderRuns ==
  ASSUME InOrder, Correct, Reader \/ StreamError
  PROVE  Histories' /\ StoreInv' /\ RunInv'
<1>1. Shape(Value) /\ Reliable /\ StoreInv /\ RunInv
  BY DEF Correct, Reliable, Shape
<1>2. UNCHANGED <<mysqlVars, startCp, storeVars, writerVars, refused, damaged>>
  <2>1. CASE Reader
    BY <2>1 DEF Reader, Sync, ReadRow, ReadAlter, ReadCreate, ReadDrop, ReadRename, Send
  <2>2. CASE StreamError
    BY <2>2 DEF StreamError
  <2> QED BY <2>1, <2>2
<1>3. ASSUME writer = "running", NEW s \in States, Good(s), End(s)
      PROVE  Extends(s)
  <2>1. CASE Sync
    BY <1>1, <1>3, <2>1, SyncExtends
  <2>2. CASE ReadRow
    BY <1>1, <1>3, <2>2, ReadRowExtends
  <2>3. CASE ReadAlter
    BY <1>1, <1>3, <2>3, ReadAlterExtends
  <2>4. CASE ReadCreate
    BY <1>1, <1>3, <2>4, ReadCreateExtends
  <2>5. CASE ReadDrop
    BY <1>1, <1>3, <2>5, ReadDropExtends
  <2>6. CASE ReadRename
    BY <1>1, <1>3, <2>6, ReadRenameExtends
  <2>7. CASE StreamError
    BY <1>1, <1>3, <2>7, StreamErrorExtends
  <2> QED BY <2>1, <2>2, <2>3, <2>4, <2>5, <2>6, <2>7 DEF Reader
<1>4. RunInv'
  BY <1>1, <1>2, <1>3, RunExtended
<1>5. StoreInv'
  BY <1>1, <1>2, QuietStoreInv
<1>6. Histories'
  BY <1>1, <1>2, QuietHistories DEF Reliable
<1> QED BY <1>4, <1>5, <1>6

\* The writer goes on.
LEMMA WriterRuns ==
  ASSUME Correct, Writer
  PROVE  Histories' /\ StoreInv' /\ RunInv'
<1>1. Shape(Value) /\ StoreInv /\ RunInv /\ Histories
  BY DEF Correct
<1>2. UNCHANGED mysqlVars
  BY DEF Writer, FlushBatch, FlushFails, ReceiveRow, ReceiveSchema, ReceiveDdl, PersistCheckpoint
<1>3. Histories'
  BY <1>1, <1>2, QuietHistories
<1>4. CASE FlushBatch
  BY <1>1, <1>3, <1>4, FlushBatchRuns
<1>5. CASE ReceiveRow
  BY <1>1, <1>3, <1>5, ReceiveRowRuns
<1>6. CASE ReceiveSchema
  BY <1>1, <1>3, <1>6, ReceiveSchemaRuns
<1>7. CASE ReceiveDdl
  BY <1>1, <1>3, <1>7, ReceiveDdlRuns
<1>8. CASE PersistCheckpoint
  BY <1>1, <1>3, <1>8, PersistCheckpointRuns
<1>9. CASE FlushFails
  BY <1>1, <1>3, <1>9, FlushFailsRuns
<1> QED BY <1>4, <1>5, <1>6, <1>7, <1>8, <1>9 DEF Writer

LEMMA QuietRun ==
  ASSUME Correct, UNCHANGED vars
  PROVE  Histories' /\ StoreInv' /\ RunInv'
<1>1. /\ UNCHANGED <<storeVars, writerVars, damaged>> /\ WriterQuiet /\ chan' = chan
      /\ UNCHANGED <<mysqlVars, startCp, storeVars, writerVars, refused, damaged>>
  BY DEF vars, WriterQuiet, readerVars
<1>2. StoreInv'
  BY <1>1, QuietStoreInv DEF Correct
<1>3. Histories'
  BY <1>1, QuietHistories DEF Correct
<1>4. RunInv'
  <2>1. writer' = writer
    BY <1>1, LikeSame
  <2>2. CASE writer = "running"
    <3>1. PICK h, c, r : Like(h) /\ c = chan /\ Runs(h, c, r)
      BY <2>2 DEF Correct, RunInv
    <3>2. Like(h)'
      BY <1>1, <3>1, LikeSame
    <3> QED BY <1>1, <3>1, <3>2, WriterRun
  <2>3. CASE writer # "running"
    BY <2>1, <2>3 DEF RunInv
  <2> QED BY <2>2, <2>3
<1> QED BY <1>2, <1>3, <1>4

\* The invariant is inductive.
LEMMA CorrectStep ==
  ASSUME InOrder, Correct, [Next]_vars
  PROVE  Correct'
<1>1. Shape(Value) /\ LogInv /\ ReaderInv /\ StoreInv
  BY DEF Correct
<1>2. Shape(Value)'
  BY <1>1, ShapeStep, RowReadTyped, ValueSets
<1>3. LogInv' /\ ReaderInv'
  BY <1>1, InOrderReads, ReaderInvStep
<1>4. Histories' /\ StoreInv' /\ RunInv'
  <2>1. CASE Restart
    <3>1. UNCHANGED mysqlVars
      BY <2>1 DEF Restart
    <3>2. Histories'
      BY <3>1, QuietHistories DEF Correct
    <3> QED BY <1>1, <2>1, <3>2, RestartRuns
  <2> QED BY <2>1, ExecuteRuns, ReaderRuns, WriterRuns, QuietRun DEF Next
<1> QED BY <1>2, <1>3, <1>4 DEF Correct

\* The invariant holds.
LEMMA CorrectHolds ==
  ASSUME InOrder
  PROVE  Spec => []Correct
<1>1. Init => Correct
  BY InitCorrect
<1>2. Correct /\ [Next]_vars => Correct'
  BY CorrectStep
<1> QED BY <1>1, <1>2, PTL DEF Spec

-----------------------------------------------------------------------------
\* What the invariant says of the store.

\* Nothing the checkpoint passes is missing.
LEMMA CorrectCovers ==
  ASSUME Correct
  PROVE  CheckpointCovered
<1>1. Len(hist) = Len(log) + 1 /\ Len(log) \in Nat /\ ckpt \in Nat
  BY HistoryEnds DEF Correct, Shape, MySqlTyped, WriterTyped
<1>2. ASSUME NEW t \in AllowedTables \ damaged
      PROVE  Reached(t)
  <2>1. Current(t, store[t], ckpt)
    BY DEF Correct, StoreInv, Covered, Agree, AllowedTables
  <2>2. PICK m \in 1 .. Len(log) + 1 : store[t] = Loaded(hist[m][t]) /\ (m > ckpt \/ DropAhead(t, ckpt))
    BY <2>1 DEF Current
  <2>3. CASE m > ckpt
    <3>1. m \in ckpt + 1 .. Len(hist)
      BY <1>1, <2>3
    <3> QED BY <2>2, <3>1 DEF Reached
  <2>4. CASE DropAhead(t, ckpt)
    BY <2>4 DEF DropAhead, Reached
  <2> QED BY <2>2, <2>3, <2>4
<1> QED BY <1>2 DEF CheckpointCovered, AllowedTables

\* What is stored is the image of a table MySQL had, cell by cell.
LEMMA CorrectBelongs ==
  ASSUME Correct
  PROVE  ValuesBelong
<1> SUFFICES ASSUME NEW t \in Tables \ damaged, store[t] # None, store[t].row # None,
                    NEW c \in store[t].cols, store[t].row[c] # Null
             PROVE  \E n \in DOMAIN hist : hist[n][t] # None /\
                      \E i \in DOMAIN hist[n][t].row :
                        hist[n][t].cols[i] = c /\ hist[n][t].row[i] = store[t].row[c]
  BY DEF ValuesBelong
<1>1. t \in AllowedTables /\ MySqlTyped /\ Histories
  BY DEF Correct, Shape, StoreTyped
<1>2. PICK m \in 1 .. Len(log) + 1 : store[t] = Loaded(hist[m][t])
  <2>1. Current(t, store[t], ckpt)
    BY <1>1 DEF Correct, StoreInv, Covered, Agree
  <2> QED BY <2>1 DEF Current
<1>t. PICK table : table = hist[m][t]
  OBVIOUS
<1>3. m \in DOMAIN hist /\ table # None /\ Sound(table)
  <2>1. SoundDb(hist[m])
    BY <1>1, HistorySound
  <2>2. table # None
    BY <1>2, <1>t DEF Loaded
  <2> QED BY <1>1, <1>t, <2>1, <2>2, HistoryEnds DEF SoundDb
<1>4. store[t] = Image(table)
  BY <1>2, <1>3, <1>t, LoadedIs
<1>5. table.row # NoRow /\ c \in Kept(table.cols) /\ store[t].row[c] = Cell(table, c)
  BY <1>4 DEF Image
<1>6. c \in ToSet(table.cols) /\ Cell(table, c) = table.row[Place(table.cols, c)]
  BY <1>5 DEF Kept, Cell
<1>7. Place(table.cols, c) \in DOMAIN table.cols /\ table.cols[Place(table.cols, c)] = c
  BY <1>6, PlaceOf
<1>8. DOMAIN table.row = DOMAIN table.cols
  <2>1. table.cols \in Seq(Columns) /\ table.row \in Seq(Value) /\ Len(table.row) \in {0, Len(table.cols)}
    BY <1>3, SoundFields
  <2>2. Len(table.row) # 0
    BY <1>5, <2>1 DEF NoRow
  <2> QED BY <2>1, <2>2
<1> QED BY <1>3, <1>5, <1>6, <1>7, <1>8, <1>t

\* When the channel and the window are empty, the run is empty and ends where MySQL is.
LEMMA CorrectExact ==
  ASSUME Correct
  PROVE  StoreExact
<1> SUFFICES ASSUME Quiet
             PROVE  \A t \in Tables \ damaged : store[t] = IF TableAllowed(t) THEN Loaded(MySql[t]) ELSE None
  BY DEF StoreExact
<1>1. /\ reader = "streaming" /\ pos = Len(log) /\ chan = <<>> /\ writer = "running" /\ winCp = 0
      /\ MySqlTyped
  BY DEF Quiet, Correct, Shape
<1>2. PICK h, c, r : Like(h) /\ c = chan /\ Runs(h, c, r)
  BY <1>1 DEF Correct, RunInv
<1>3. Reaches(h, <<>>, r) /\ End(r)
  BY <1>1, <1>2 DEF Runs
<1>4. r = h
  BY <1>3, ReachesBack
<1>5. Agree(r.view, store, damaged)
  <2>1. window = EmptyWindow
    BY <1>1 DEF Correct, Shape, WindowTyped
  <2>2. \A t \in Tables : Flushed[t] = store[t]
    BY <2>1 DEF Flushed, EmptyWindow
  <2> QED BY <1>2, <1>4, <2>2 DEF Like, Agree
<1>6. Covered(r.view, Len(log))
  BY <1>1, <1>3 DEF End
<1>7. Len(log) \in Nat /\ MySql = hist[Len(log) + 1]
  BY <1>1, HistoryEnds
<1>8. ASSUME NEW t \in AllowedTables \ damaged
      PROVE  store[t] = Loaded(MySql[t])
  <2>1. PICK m \in 1 .. Len(log) + 1 :
          store[t] = Loaded(hist[m][t]) /\ (m > Len(log) \/ DropAhead(t, Len(log)))
    BY <1>5, <1>6 DEF Covered, Current, Agree, AllowedTables
  <2>2. ~ DropAhead(t, Len(log))
    BY <1>7 DEF DropAhead
  <2>3. m = Len(log) + 1
    BY <1>7, <2>1, <2>2
  <2> QED BY <1>7, <2>1, <2>3
<1>9. \A t \in Tables \ AllowedTables : store[t] = None
  BY DEF Correct, Shape, StoreTyped
<1> QED BY <1>8, <1>9 DEF AllowedTables

-----------------------------------------------------------------------------
\* With MySQL in order, what the pipeline has read and written to the end is what MySQL
\* has: the tables, columns and rows the filter lets through (live.rs, writer.rs), of
\* every table whose schemas were all applied, whatever DuckDB refuses of the others'
\* (writer.rs:400-411), and whichever flush fails.
THEOREM StoreAlwaysExact ==
  ASSUME InOrder
  PROVE  Spec => []StoreExact
<1>1. Correct => StoreExact
  BY CorrectExact
<1>2. Spec => []Correct
  BY CorrectHolds
<1> QED BY <1>1, <1>2, PTL

\* With MySQL in order, the reader's binding of values to columns by position
\* (parse_row_vec) and the writer's by name (TableLayout::project) never put a value into
\* a column it was not written to, in any table whose schemas were all applied.
THEOREM ValuesAlwaysBelong ==
  ASSUME InOrder
  PROVE  Spec => []ValuesBelong
<1>1. Correct => ValuesBelong
  BY CorrectBelongs
<1>2. Spec => []Correct
  BY CorrectHolds
<1> QED BY <1>1, <1>2, PTL

\* With MySQL in order, the persisted checkpoint never passes an event of a table whose
\* schemas were all applied and that is not in the store, whatever DuckDB refuses of the
\* others' and whenever the process crashes between a DDL and its checkpoint.
THEOREM CheckpointAlwaysCovered ==
  ASSUME InOrder
  PROVE  Spec => []CheckpointCovered
<1>1. Correct => CheckpointCovered
  BY CorrectCovers
<1>2. Spec => []Correct
  BY CorrectHolds
<1> QED BY <1>1, <1>2, PTL

\* With MySQL in order, and as long as every schema was applied, the store takes every
\* DDL statement that reaches the writer.  Of those that a restart or a reconnect reads
\* again this is about TRUNCATE, DROP and ALTERs that leave the columns alone: others
\* are refused, and the writer halts (the run SchemaRestart).
THEOREM DdlAlwaysApplies ==
  ASSUME InOrder
  PROVE  Spec => []DdlApplies
<1>1. Correct => DdlApplies
  BY DEF Correct, StoreInv, DdlApplies
<1>2. Spec => []Correct
  BY CorrectHolds
<1> QED BY <1>1, <1>2, PTL

=============================================================================
