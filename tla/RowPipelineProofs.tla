-------------------------- MODULE RowPipelineProofs --------------------------
(***************************************************************************)
(* Proofs about the row pipeline, for any table, channel capacity, log     *)
(* length and number of crashes.  There are three invariants:              *)
(*                                                                         *)
(*   IInv       crash safety: the stored table is always the source table  *)
(*              at the stored checkpoint, and the pipeline implements the  *)
(*              abstract replica.  Assumes SimpleSource: one row per event *)
(*              and one event per statement, no reuse of a vacated key, no *)
(*              reconnects and no layout left uninstalled.                 *)
(*   Sound,     whatever the source, the stream and DuckDB do: type        *)
(*   Floor      correctness, no stored row that MySQL never held, and how  *)
(*              far a reconnect may set the checkpoint back.               *)
(*   ReplayInv  reconnects: replay repairs what it disturbs, whatever the  *)
(*              size of the batch and however often flushes fail.  Assumes *)
(*              UpsertSource: events of one row, a table of which nothing  *)
(*              is deleted or moved, every layout installed, and a process *)
(*              that started from a stored checkpoint.                     *)
(*                                                                         *)
(* Configurations of RowPipeline show that none of these can be dropped.   *)
(***************************************************************************)
EXTENDS RowPipeline, CoalescerProofs, QueueLemmas, FiniteSetTheorems, WellFoundedInduction

SimpleSource ==
  /\ MaxEventRows = 1
  /\ SplitStatements = FALSE
  /\ KeyReuse = FALSE
  /\ MaxStreamErrors = 0
  /\ MaxSchemaErrors = 0

-----------------------------------------------------------------------------
(* The log.                                                                *)

\* An event ends with the row that says so.
LEMMA EventEndSelf ==
  ASSUME Len(log) \in Nat, NEW i \in 1..Len(log), log[i].last
  PROVE  EventEnd(i) = i
<1>1. i \in i..Len(log) /\ \A m \in i..(i - 1) : FALSE
  OBVIOUS
<1>2. ASSUME NEW j \in i..Len(log), \A m \in i..(j - 1) : ~ log[m].last
      PROVE  j = i
  <2>1. SUFFICES ASSUME j # i PROVE FALSE
    OBVIOUS
  <2>2. i \in i..(j - 1)
    BY <2>1
  <2> QED BY <1>2, <2>2
<1> QED BY <1>1, <1>2 DEF EventEnd

\* With one row per event and one event per statement, every row ends its event
\* and has a table map of its own.
LEMMA LoggedEvent ==
  ASSUME MaxEventRows = 1, SplitStatements = FALSE,
         Len(log) \in Nat, \A i \in 1..Len(log) : log[i].last,
         NEW op \in RowOps, NEW last \in BOOLEAN, NEW own \in BOOLEAN,
         LogRow(op, last, own)
  PROVE  last /\ own
<1>1. OpenRows = {}
  <2>1. \A i \in 1..Len(log) : i \in i..Len(log)
    OBVIOUS
  <2> QED BY <2>1 DEF OpenRows, Logged
<1>2. Cardinality(OpenRows) = 0
  BY <1>1, FS_EmptySet
<1>3. last
  BY <1>2 DEF LogRow
<1>4. Len(log) > 0 => log[Len(log)].last
  OBVIOUS
<1>5. own
  BY <1>4 DEF LogRow
<1> QED BY <1>3, <1>5

\* What the server can log next.
LEMMA LoggedRow ==
  ASSUME SimpleSource, TypeOK, LogConsistent,
         NEW op \in RowOps, NEW last \in BOOLEAN, NEW own \in BOOLEAN,
         LogRow(op, last, own)
  PROVE  /\ last /\ own
         /\ Loggable(hist[Len(log)], op)
         /\ NoReuse(op, freed, moved)
<1>1. Len(log) \in Nat /\ \A i \in 1..Len(log) : log[i].last
  BY DEF TypeOK, LogConsistent
<1>2. last /\ own
  BY <1>1, LoggedEvent DEF SimpleSource
<1> QED BY <1>2 DEF LogRow, SimpleSource, Current

\* Keys vacated by a prefix of the log, one row further.
LEMMA VacatedPrefix ==
  ASSUME NEW l, NEW i \in Nat, l[i + 1].op \in RowOps
  PROVE  /\ FreedBy(l, i + 1) = FreedBy(l, i) \cup Vacated(l[i + 1].op)
         /\ MovedBy(l, i + 1) = MovedBy(l, i) \cup MovedAway(l[i + 1].op)
<1>1. \A j \in Int : j \in 1..(i + 1) <=> j \in 1..i \/ j = i + 1
  OBVIOUS
<1>2. Vacated(l[i + 1].op) \subseteq Keys /\ MovedAway(l[i + 1].op) \subseteq Keys
  BY OpFields DEF Vacated, MovedAway, MovesRow
<1> QED BY <1>1, <1>2 DEF FreedBy, MovedBy

LEMMA MovedPrefixFreed ==
  ASSUME NEW l, NEW i
  PROVE  MovedBy(l, i) \subseteq FreedBy(l, i)
BY DEF MovedBy, FreedBy, MovedAway, Vacated

\* Appending to the log changes nothing in it.
LEMMA LogRowFrame ==
  ASSUME TypeOK, NEW op \in RowOps, NEW last \in BOOLEAN, NEW own \in BOOLEAN,
         LogRow(op, last, own)
  PROVE  LET n == Len(log)
         IN  /\ n \in Nat
             /\ log' \in Seq(LogRows) /\ Len(log') = n + 1
             /\ log'[n + 1] = [op |-> op, last |-> last, own |-> own]
             /\ \A i \in 1..n : log'[i] = log[i]
             /\ hist' \in [0..(n + 1) -> Table]
             /\ hist'[n + 1] = ApplyOp(hist[n], op)
             /\ \A i \in 0..n : hist'[i] = hist[i]
             /\ \A i \in 0..n : FreedBy(log', i) = FreedBy(log, i)
                                /\ MovedBy(log', i) = MovedBy(log, i)
<1> DEFINE n == Len(log)
           row == [op |-> op, last |-> last, own |-> own]
<1>1. row \in LogRows /\ log \in Seq(LogRows) /\ n \in Nat
  BY DEF LogRows, TypeOK
<1>2. log' = Append(log, row)
  BY DEF LogRow
<1>3. /\ log' \in Seq(LogRows) /\ Len(log') = n + 1
      /\ log'[n + 1] = row /\ \A i \in 1..n : log'[i] = log[i]
  <2> HIDE DEF n, row
  <2>1. n = Len(log)
    BY DEF n
  <2>2. Append(log, row) \in Seq(LogRows) /\ Len(Append(log, row)) = n + 1
    BY <1>1, <2>1
  <2>3. Append(log, row)[n + 1] = row /\ \A i \in 1..n : Append(log, row)[i] = log[i]
    BY <1>1, <2>1
  <2> QED BY <1>2, <2>2, <2>3
<1>4. hist[n] \in Table /\ \A i \in 0..n : hist[i] \in Table
  <2>1. hist \in [0..n -> Table] /\ n \in 0..n
    BY <1>1 DEF TypeOK, Positions
  <2> QED BY <2>1
<1>5. ApplyOp(hist[n], op) \in Table
  BY <1>4, ApplyOpType
<1>6. hist' = [i \in 0..(n + 1) |-> IF i = n + 1 THEN ApplyOp(hist[n], op) ELSE hist[i]]
  BY DEF LogRow, Current
<1>7. \A i \in 0..(n + 1) : i # n + 1 => i \in 0..n
  BY <1>1
<1>8. hist' \in [0..(n + 1) -> Table]
  BY <1>4, <1>5, <1>6, <1>7
<1>9. hist'[n + 1] = ApplyOp(hist[n], op) /\ \A i \in 0..n : hist'[i] = hist[i]
  BY <1>1, <1>6
<1>10. ASSUME NEW i \in 0..n
       PROVE  FreedBy(log', i) = FreedBy(log, i) /\ MovedBy(log', i) = MovedBy(log, i)
  <2>1. \A j \in 1..i : j \in 1..n
    BY <1>1
  <2> QED BY <1>3, <2>1 DEF FreedBy, MovedBy
<1> HIDE DEF row
<1> QED BY <1>1, <1>3, <1>8, <1>9, <1>10 DEF row

-----------------------------------------------------------------------------
(* The window and the channel.                                             *)

\* What the invariant says of positions.
LEMMA AbsorbedPosition ==
  ASSUME TypeOK
  PROVE  /\ Len(log) \in Nat /\ Absorbed \in 0..Len(log) /\ ckpt \in 0..Len(log)
         /\ hist[Absorbed] \in Table /\ hist[ckpt] \in Table
         /\ entry \in Windows
<1>1. Len(log) \in Nat /\ Absorbed \in 0..Len(log) /\ ckpt \in 0..Len(log)
  BY DEF TypeOK, Positions, Absorbed
<1> QED BY <1>1 DEF TypeOK, Positions, Windows

\* Taking the head of the channel.
LEMMA ChannelTail ==
  ASSUME TypeOK, chan # << >>
  PROVE  /\ Head(chan) = chan[1] /\ Head(chan) \in Positions
         /\ Tail(chan) \in Seq(Positions)
         /\ Len(chan) \in Nat /\ Len(chan) > 0
         /\ Len(Tail(chan)) = Len(chan) - 1
         /\ \A i \in 1..(Len(chan) - 1) : Tail(chan)[i] = chan[i + 1]
BY DEF TypeOK

\* Once the head is a row it is the row after the last one absorbed; what
\* remains is in order, whatever the head was.
LEMMA HeadInOrder ==
  ASSUME TypeOK, ChannelInOrder, chan # << >>, writer = "running"
  PROVE  /\ reader \notin {"connecting", "syncing"}
         /\ sent \in Nat
         /\ \A i \in 1..(Len(chan) - 1) :
              Tail(chan)[i] = sent - Len(Tail(chan)) + i /\ Tail(chan)[i] # SchemaEvent
         /\ Head(chan) = SchemaEvent => sent = Absorbed + Len(Tail(chan))
         /\ Head(chan) # SchemaEvent =>
              Head(chan) = Absorbed + 1 /\ sent = Absorbed + 1 + Len(Tail(chan))
<1>1. reader \notin {"connecting", "syncing"} /\ sent \in Nat
  BY DEF ChannelInOrder, TypeOK, Positions
<1>2. /\ sent = Absorbed + RowsQueued
      /\ \A i \in 1..Len(chan) :
           IF chan[i] = SchemaEvent THEN i = 1 ELSE chan[i] = sent - Len(chan) + i
  BY <1>1 DEF ChannelInOrder
<1>3. Absorbed \in Nat
  BY AbsorbedPosition
<1>4. ASSUME NEW i \in 1..(Len(chan) - 1)
      PROVE  Tail(chan)[i] = sent - Len(Tail(chan)) + i /\ Tail(chan)[i] # SchemaEvent
  <2>1. Tail(chan)[i] = chan[i + 1] /\ i + 1 \in 1..Len(chan) /\ i + 1 # 1 /\ i \in Int
    BY ChannelTail
  <2>2. chan[i + 1] # SchemaEvent
    BY <1>2, <2>1
  <2>3. chan[i + 1] = sent - Len(chan) + (i + 1)
    BY <1>2, <2>1, <2>2
  <2>4. Len(chan) \in Nat /\ Len(Tail(chan)) = Len(chan) - 1
    BY ChannelTail
  <2> QED BY <1>1, <2>1, <2>2, <2>3, <2>4
<1>5. /\ Head(chan) = SchemaEvent => sent = Absorbed + Len(Tail(chan))
      /\ Head(chan) # SchemaEvent =>
           Head(chan) = Absorbed + 1 /\ sent = Absorbed + 1 + Len(Tail(chan))
  <2>1. 1 \in 1..Len(chan) /\ Len(chan) \in Nat /\ Len(Tail(chan)) = Len(chan) - 1
        /\ Head(chan) = chan[1]
    BY ChannelTail
  <2> QED BY <1>1, <1>2, <1>3, <2>1 DEF RowsQueued
<1> QED BY <1>1, <1>4, <1>5

\* What remains of the channel satisfies the channel invariant again, once the
\* head has been absorbed or the writer has halted.
LEMMA TailInOrder ==
  ASSUME TypeOK, ChannelInOrder, chan # << >>, writer = "running",
         chan' = Tail(chan), UNCHANGED readerVars,
         writer' = "running" =>
           Absorbed' = IF Head(chan) = SchemaEvent THEN Absorbed ELSE Absorbed + 1
  PROVE  ChannelInOrder'
<1>1. /\ reader \notin {"connecting", "syncing"} /\ sent \in Nat
      /\ \A i \in 1..Len(chan') :
           chan'[i] = sent' - Len(chan') + i /\ chan'[i] # SchemaEvent
  BY HeadInOrder, ChannelTail DEF readerVars
<1>2. RowsQueued' = Len(chan')
  <2>1. chan' # << >> => 1 \in 1..Len(chan')
    BY ChannelTail
  <2> QED BY <1>1, <2>1 DEF RowsQueued, SchemaEvent
<1>3. Absorbed \in Nat /\ Len(chan') \in Nat
  BY AbsorbedPosition, ChannelTail
<1>4. writer' = "running" => sent' = Absorbed' + RowsQueued'
  BY <1>2, <1>3, HeadInOrder DEF readerVars
<1> QED BY <1>1, <1>4 DEF ChannelInOrder, readerVars

\* A committed flush of a faithful window e that ends at position a.
LEMMA FlushCommitsExact ==
  ASSUME TypeOK, NEW e \in Windows, NEW o, NEW cp \in Positions \cup {NoCp},
         NEW a, a = IF cp = NoCp THEN ckpt ELSE cp,
         NEW F, NEW M, Represents(e, stored, hist[a], F, M),
         layout, FlushCommits(e, o, cp)
  PROVE  /\ stored' = hist[a] /\ ckpt' = a
         /\ entry' = NoEntries /\ order' = << >> /\ winCp' = NoCp /\ fails' = 0
         /\ a \in 0..Len(log) /\ Absorbed' = a
         /\ hist[a] \in Table
<1>1. a \in 0..Len(log)
  BY DEF TypeOK, Positions
<1>2. hist[a] \in Table /\ stored \in Table
  BY <1>1 DEF TypeOK, Positions
<1>3. stored' = hist[a]
  BY <1>2, FlushExact DEF FlushCommits, Flushed
<1>4. Absorbed' = a /\ ckpt' = a
  BY DEF FlushCommits, Absorbed
<1> QED BY <1>1, <1>2, <1>3, <1>4 DEF FlushCommits

-----------------------------------------------------------------------------
(* Every action preserves the inductive invariant.                         *)

LEMMA LogUnchanged ==
  ASSUME LogConsistent, UNCHANGED binlogVars
  PROVE  LogConsistent'
BY DEF LogConsistent, binlogVars

\* A window with rows in it, or a row at the head of the channel, has its layout.
LEMMA RowsHaveLayout ==
  ASSUME LayoutFirst, order # << >> \/ (chan # << >> /\ chan[1] # SchemaEvent)
  PROVE  layout
BY DEF LayoutFirst

\* A session sends the schema ahead of its rows, and the writer installs its layout
\* before it takes a row, whatever the source and the stream do.
LEMMA LayoutKept ==
  ASSUME MaxSchemaErrors = 0, TypeOK, LayoutFirst, Next
  PROVE  LayoutFirst'
<1>1. CASE Commit
  BY <1>1 DEF Commit, LayoutFirst, readerVars, writerVars
<1>2. CASE RecoverCheckpoint \/ StreamError \/ StreamEnds
  BY <1>2 DEF RecoverCheckpoint, StreamError, StreamEnds, LayoutFirst, writerVars
<1>3. CASE SkipEvent
  BY <1>3 DEF SkipEvent, LayoutFirst, writerVars
<1>4. CASE SyncSchema \/ ReadRow
  <2>1. UNCHANGED writerVars /\ (reader = "syncing" => SyncSchema) /\ reader \in {"syncing", "streaming"}
    BY <1>4 DEF SyncSchema, ReadRow
  <2>2. CASE SendFails
    BY <2>1, <2>2 DEF SendFails, LayoutFirst, writerVars
  <2>3. CASE \E v : Send(v) /\ (reader = "syncing" => v = SchemaEvent)
    <3>1. PICK v : Send(v) /\ (reader = "syncing" => v = SchemaEvent)
      BY <2>3
    <3>2. /\ chan' # << >>
          /\ IF chan = << >> THEN chan'[1] = v ELSE chan'[1] = chan[1]
      <4>1. chan \in Seq(Positions) /\ chan' = Append(chan, v)
        BY <3>1 DEF Send, TypeOK
      <4>2. chan # << >> => 1 \in 1..Len(chan)
        BY <4>1
      <4>3. Append(chan, v) # << >> /\ (chan = << >> => Append(chan, v)[1] = v)
            /\ \A i \in 1..Len(chan) : Append(chan, v)[i] = chan[i]
        BY <4>1
      <4> QED BY <4>1, <4>2, <4>3
    <3>3. writer = "running"
      BY <3>1 DEF Send
    <3> QED BY <2>1, <3>1, <3>2, <3>3 DEF LayoutFirst, writerVars
  <2> QED BY <1>4, <2>2, <2>3 DEF SyncSchema, ReadRow
<1>5. CASE WriterTick
  BY <1>5, RowsHaveLayout DEF WriterTick, LayoutFirst, layoutVars
<1>6. CASE WriterRow
  <2>1. chan # << >> /\ chan[1] # SchemaEvent
    BY <1>6, ChannelTail DEF WriterRow
  <2> QED BY <1>6, <2>1, RowsHaveLayout DEF WriterRow, LayoutFirst, layoutVars
<1>7. CASE WriterSchema
  <2>1. ~ (schemaErrors < MaxSchemaErrors)
    BY DEF TypeOK
  <2>2. layout'
    BY <1>7, <2>1, RowsHaveLayout DEF WriterSchema, InstallLayout, layoutVars
  <2> QED BY <2>2 DEF LayoutFirst
<1>8. CASE WriterClosed
  BY <1>8 DEF WriterClosed, LayoutFirst, layoutVars, readerVars
<1>9. CASE CrashRestart
  BY <1>9 DEF CrashRestart, LayoutFirst
<1> QED BY <1>1, <1>2, <1>3, <1>4, <1>5, <1>6, <1>7, <1>8, <1>9 DEF Next, Reader, Writer

LEMMA InitIInv == Init => IInv
<1> SUFFICES ASSUME Init PROVE IInv
  OBVIOUS
<1>1. log = << >> /\ Len(log) = 0 /\ freed = {} /\ moved = {}
  BY DEF Init, BinlogInit
<1>2. PICK t \in Table : hist = [i \in {0} |-> t]
  BY DEF Init, BinlogInit
<1>3. Positions = {0} /\ hist \in [Positions -> Table] /\ hist[0] = t
  BY <1>1, <1>2 DEF Positions
<1>4. LogConsistent
  <2>1. FreedBy(log, 0) = {} /\ MovedBy(log, 0) = {} /\ 1..0 = {}
    BY DEF FreedBy, MovedBy
  <2> QED BY <1>1, <2>1 DEF LogConsistent
<1>5. NoEntries \in Windows /\ Represents(NoEntries, t, t, FreedBy(log, 0), MovedBy(log, 0))
  BY EmptyRepresents
<1>6. TypeOK
  <2>1. stored \in Table /\ entry \in Windows /\ freed \subseteq Keys /\ moved \subseteq freed
    BY <1>1, <1>3, <1>5 DEF Init
  <2>2. log \in Seq(LogRows) /\ chan \in Seq(Positions) /\ order \in Seq(Keys) /\ Len(chan) = 0
    BY <1>1 DEF Init
  <2>3. /\ Len(chan) <= ChannelCapacity /\ flushErrors \in 0..MaxFlushErrors
        /\ schemaErrors \in 0..MaxSchemaErrors /\ crashes \in 0..MaxCrashes
    BY <2>2, PipelineAssumption DEF Init
  <2> QED BY <1>3, <2>1, <2>2, <2>3 DEF Init, TypeOK, Windows
<1>7. Absorbed = 0 /\ stored = t
  BY <1>2, <1>3 DEF Init, Absorbed
<1>8. ChannelInOrder /\ LayoutFirst
  BY DEF Init, ChannelInOrder, LayoutFirst
<1>9. WindowFaithful /\ DurablePrefix
  BY <1>3, <1>5, <1>7 DEF Init, WindowFaithful, DurablePrefix
<1> QED BY <1>4, <1>6, <1>8, <1>9 DEF IInv

LEMMA CommitIInv ==
  ASSUME SimpleSource, IInv, Commit
  PROVE  IInv'
<1> DEFINE n == Len(log)
<1>1. PICK op \in RowOps, last \in BOOLEAN, own \in BOOLEAN : LogRow(op, last, own)
  BY DEF Commit
<1>2. TypeOK /\ LogConsistent /\ ChannelInOrder /\ LayoutFirst /\ WindowFaithful /\ DurablePrefix
  BY DEF IInv
<1>3. UNCHANGED <<durableVars, readerVars, writerVars, chan, crashes>>
  BY DEF Commit
<1>4. /\ n \in Nat
      /\ log' \in Seq(LogRows) /\ Len(log') = n + 1
      /\ log'[n + 1] = [op |-> op, last |-> last, own |-> own]
      /\ \A i \in 1..n : log'[i] = log[i]
      /\ hist' \in [0..(n + 1) -> Table]
      /\ hist'[n + 1] = ApplyOp(hist[n], op)
      /\ \A i \in 0..n : hist'[i] = hist[i]
      /\ \A i \in 0..n : FreedBy(log', i) = FreedBy(log, i) /\ MovedBy(log', i) = MovedBy(log, i)
  BY <1>1, <1>2, LogRowFrame
<1>5. last /\ own /\ Loggable(hist[n], op) /\ NoReuse(op, freed, moved)
  BY <1>1, <1>2, LoggedRow
<1>6. freed' = freed \cup Vacated(op) /\ moved' = moved \cup MovedAway(op)
  BY <1>1 DEF LogRow
<1>7. log'[n + 1].op = op /\ log'[n + 1].last = last /\ log'[n + 1].own = own
  BY <1>4
<1>8. n \in 0..n /\ n + 1 - 1 = n
  BY <1>4
<1>9. /\ FreedBy(log', n + 1) = FreedBy(log, n) \cup Vacated(op)
      /\ MovedBy(log', n + 1) = MovedBy(log, n) \cup MovedAway(op)
  <2>1. log'[n + 1].op \in RowOps /\ n \in Nat
    BY <1>4, <1>7
  <2>2. /\ FreedBy(log', n + 1) = FreedBy(log', n) \cup Vacated(log'[n + 1].op)
        /\ MovedBy(log', n + 1) = MovedBy(log', n) \cup MovedAway(log'[n + 1].op)
    <3> HIDE DEF n
    <3> QED BY <2>1, VacatedPrefix
  <2> QED BY <1>4, <1>7, <1>8, <2>2
<1>10. Vacated(op) \subseteq Keys /\ MovedAway(op) \subseteq Vacated(op)
  BY OpFields DEF Vacated, MovedAway, MovesRow
<1> HIDE DEF n
<1>11. LogConsistent'
  <2> DEFINE Row(i) ==
        /\ log'[i].last /\ log'[i].own
        /\ Loggable(hist'[i - 1], log'[i].op)
        /\ NoReuse(log'[i].op, FreedBy(log', i - 1), MovedBy(log', i - 1))
        /\ hist'[i] = ApplyOp(hist'[i - 1], log'[i].op)
  <2>1. freed = FreedBy(log, n) /\ moved = MovedBy(log, n)
    BY <1>2 DEF LogConsistent, n
  <2>2. Row(n + 1)
    BY <1>4, <1>5, <1>7, <1>8, <2>1
  <2>3. ASSUME NEW i \in 1..n
        PROVE  Row(i)
    <3>1. i - 1 \in 0..n /\ i \in 0..n
      BY <1>4
    <3>2. /\ log[i].last /\ log[i].own
          /\ Loggable(hist[i - 1], log[i].op)
          /\ NoReuse(log[i].op, FreedBy(log, i - 1), MovedBy(log, i - 1))
          /\ hist[i] = ApplyOp(hist[i - 1], log[i].op)
      BY <1>2 DEF LogConsistent, n
    <3> QED BY <1>4, <3>1, <3>2
  <2>4. \A i \in 1..(n + 1) : i = n + 1 \/ i \in 1..n
    BY <1>4
  <2>5. \A i \in 1..Len(log') : Row(i)
    BY <1>4, <2>2, <2>3, <2>4
  <2>6. freed' = FreedBy(log', Len(log')) /\ moved' = MovedBy(log', Len(log'))
    BY <1>4, <1>6, <1>9, <2>1
  <2> QED BY <2>5, <2>6 DEF LogConsistent
<1>12. \A i \in 0..n : i \in 0..(n + 1)
  BY <1>4
<1>13. TypeOK'
  <2>1. Positions \subseteq Positions' /\ Positions' = 0..(n + 1)
    BY <1>4, <1>12 DEF Positions, n
  <2>2. hist' \in [Positions' -> Table] /\ log' \in Seq(LogRows)
    BY <1>4, <2>1
  <2>3. freed' \subseteq Keys /\ moved' \subseteq freed'
    BY <1>2, <1>6, <1>10 DEF TypeOK
  <2>4. chan \in Seq(Positions')
    BY <1>2, <2>1, SeqWiden DEF TypeOK
  <2>5. /\ ckpt \in Positions' /\ sent \in Positions'
        /\ initialCp \in Positions' \cup {NoCp} /\ winCp \in Positions' \cup {NoCp}
    BY <1>2, <2>1 DEF TypeOK
  <2> QED BY <1>2, <1>3, <2>2, <2>3, <2>4, <2>5
          DEF TypeOK, durableVars, readerVars, writerVars
<1>14. Absorbed' = Absorbed /\ Absorbed \in 0..n /\ ckpt \in 0..n
  BY <1>2, <1>3, AbsorbedPosition DEF Absorbed, durableVars, writerVars, n
<1>15. ChannelInOrder'
  BY <1>2, <1>3, <1>14 DEF ChannelInOrder, RowsQueued, durableVars, readerVars, writerVars
<1>16. WindowFaithful' /\ DurablePrefix'
  BY <1>2, <1>3, <1>4, <1>14 DEF WindowFaithful, DurablePrefix, durableVars, writerVars
<1> QED BY <1>2, <1>11, <1>13, <1>15, <1>16, LayoutKept DEF IInv, Next, SimpleSource

LEMMA RecoverCheckpointIInv ==
  ASSUME SimpleSource, IInv, RecoverCheckpoint
  PROVE  IInv'
<1>1. TypeOK /\ LogConsistent /\ ChannelInOrder /\ LayoutFirst /\ WindowFaithful /\ DurablePrefix
  BY DEF IInv
<1>2. UNCHANGED <<binlogVars, durableVars, attempt, initialCp, chan, writerVars, crashes>>
  BY DEF RecoverCheckpoint
<1>3. sent' = ckpt
  BY <1>1 DEF RecoverCheckpoint, ChannelInOrder
<1>4. TypeOK'
  BY <1>1, <1>2, <1>3 DEF RecoverCheckpoint, TypeOK, Positions, binlogVars, durableVars, writerVars
<1>5. chan = << >> /\ entry = NoEntries /\ order = << >> /\ winCp = NoCp /\ reader' = "syncing"
  BY <1>1 DEF RecoverCheckpoint, ChannelInOrder
<1>6. Absorbed' = ckpt /\ RowsQueued' = 0 /\ ckpt \in Nat
  BY <1>2, <1>5, AbsorbedPosition, <1>1 DEF Absorbed, RowsQueued, durableVars, writerVars
<1>7. ChannelInOrder'
  BY <1>2, <1>3, <1>5, <1>6 DEF ChannelInOrder, durableVars, writerVars
<1>8. WindowFaithful' /\ DurablePrefix'
  BY <1>1, <1>2 DEF WindowFaithful, DurablePrefix, Absorbed, binlogVars, durableVars, writerVars
<1> QED BY <1>1, <1>2, <1>4, <1>7, <1>8, LogUnchanged, LayoutKept
        DEF IInv, Next, Reader, SimpleSource

LEMMA SyncSchemaIInv ==
  ASSUME SimpleSource, IInv, SyncSchema
  PROVE  IInv'
<1>1. TypeOK /\ LogConsistent /\ ChannelInOrder /\ LayoutFirst /\ WindowFaithful /\ DurablePrefix
  BY DEF IInv
<1>2. UNCHANGED <<binlogVars, durableVars, attempt, initialCp, writerVars, crashes, sent>>
  BY DEF SyncSchema, SendFails
<1>3. chan = << >> /\ entry = NoEntries /\ order = << >> /\ winCp = NoCp
  BY <1>1 DEF SyncSchema, ChannelInOrder
<1>4. sent \in Nat /\ Len(log) \in Nat
  BY <1>1 DEF TypeOK, Positions
<1>5. WindowFaithful' /\ DurablePrefix'
  BY <1>1, <1>2 DEF WindowFaithful, DurablePrefix, Absorbed, binlogVars, durableVars, writerVars
<1>8. LayoutFirst'
  BY <1>1, LayoutKept DEF Next, Reader, SimpleSource
<1>6. CASE Send(SchemaEvent) /\ reader' = "streaming" /\ UNCHANGED tableMapped
  <2>1. chan' = << SchemaEvent >>
    BY <1>3, <1>6 DEF Send
  <2>2. chan' \in Seq(Positions) /\ Len(chan') = 1 /\ chan'[1] = SchemaEvent
    BY <1>4, <2>1 DEF Positions, SchemaEvent
  <2>3. TypeOK'
    BY <1>1, <1>2, <1>6, <2>2, PipelineAssumption
       DEF TypeOK, Positions, binlogVars, durableVars, writerVars
  <2>4. RowsQueued = 0 /\ RowsQueued' = 0
    BY <1>3, <2>1, <2>2 DEF RowsQueued
  <2>5. ChannelInOrder'
    BY <1>1, <1>2, <1>6, <2>2, <2>4
       DEF ChannelInOrder, SyncSchema, Absorbed, durableVars, writerVars
  <2> QED BY <1>1, <1>2, <1>5, <1>8, <2>3, <2>5, LogUnchanged DEF IInv
<1>7. CASE SendFails
  <2>1. TypeOK'
    BY <1>1, <1>2, <1>7 DEF SendFails, TypeOK, Positions, binlogVars, durableVars, writerVars
  <2>2. ChannelInOrder'
    BY <1>1, <1>2, <1>3, <1>7 DEF SendFails, ChannelInOrder, durableVars, writerVars
  <2> QED BY <1>1, <1>2, <1>5, <1>8, <2>1, <2>2, LogUnchanged DEF IInv
<1> QED BY <1>6, <1>7 DEF SyncSchema

LEMMA ReadRowIInv ==
  ASSUME SimpleSource, IInv, ReadRow
  PROVE  IInv'
<1>1. TypeOK /\ LogConsistent /\ ChannelInOrder /\ LayoutFirst /\ WindowFaithful /\ DurablePrefix
  BY DEF IInv
<1>2. UNCHANGED <<binlogVars, durableVars, attempt, initialCp, writerVars, crashes>>
  BY DEF ReadRow
<1>3. sent \in Nat /\ Len(log) \in Nat /\ sent + 1 \in 1..Len(log) /\ reader = "streaming"
  BY <1>1 DEF ReadRow, Logged, TypeOK, Positions
<1>4. WindowFaithful' /\ DurablePrefix'
  BY <1>1, <1>2 DEF WindowFaithful, DurablePrefix, Absorbed, binlogVars, durableVars, writerVars
<1>7. LayoutFirst'
  BY <1>1, LayoutKept DEF Next, Reader, SimpleSource
<1>5. CASE Send(sent + 1) /\ sent' = sent + 1 /\ tableMapped' = TRUE /\ UNCHANGED reader
  <2>1. /\ chan' \in Seq(Positions) /\ Len(chan') = Len(chan) + 1 /\ Len(chan) \in Nat
        /\ chan'[Len(chan) + 1] = sent + 1
        /\ \A i \in 1..Len(chan) : chan'[i] = chan[i]
        /\ Len(chan') <= ChannelCapacity
    <3>1. chan \in Seq(Positions) /\ sent + 1 \in Positions /\ chan' = Append(chan, sent + 1)
      BY <1>1, <1>3, <1>5 DEF Send, TypeOK, Positions
    <3>2. Len(chan) < ChannelCapacity /\ Len(chan) \in Nat /\ ChannelCapacity \in Nat
      BY <1>5, <3>1, PipelineAssumption DEF Send
    <3> QED BY <3>1, <3>2
  <2>2. TypeOK'
    <3>1. sent' \in Positions /\ Positions' = Positions
      BY <1>2, <1>3, <1>5 DEF Positions, binlogVars
    <3> QED BY <1>1, <1>2, <1>5, <2>1, <3>1
            DEF TypeOK, binlogVars, durableVars, writerVars
  <2>3. RowsQueued' = RowsQueued + 1 /\ RowsQueued \in Nat
    <3>1. CASE chan = << >>
      <4>1. Len(chan) = 0 /\ chan'[1] = sent + 1 /\ Len(chan') = 1
        BY <2>1, <3>1
      <4> QED BY <1>3, <3>1, <4>1 DEF RowsQueued, SchemaEvent
    <3>2. CASE chan # << >>
      <4>1. Len(chan) > 0 /\ chan'[1] = chan[1] /\ chan' # << >>
        BY <1>1, <2>1, <3>2 DEF TypeOK
      <4> QED BY <2>1, <3>2, <4>1 DEF RowsQueued
    <3> QED BY <3>1, <3>2
  <2>4. Absorbed' = Absorbed /\ Absorbed \in Nat
    BY <1>1, <1>2, AbsorbedPosition DEF Absorbed, durableVars, writerVars
  <2>5. ASSUME NEW i \in 1..Len(chan')
        PROVE  IF chan'[i] = SchemaEvent THEN i = 1 ELSE chan'[i] = sent' - Len(chan') + i
    <3>1. CASE i = Len(chan) + 1
      BY <1>3, <1>5, <2>1, <3>1 DEF SchemaEvent
    <3>2. CASE i \in 1..Len(chan)
      <4>1. IF chan[i] = SchemaEvent THEN i = 1 ELSE chan[i] = sent - Len(chan) + i
        BY <1>1, <3>2 DEF ChannelInOrder
      <4> QED BY <1>3, <1>5, <2>1, <3>2, <4>1
    <3> QED BY <2>1, <3>1, <3>2
  <2>6. writer' = "running" => sent' = Absorbed' + RowsQueued'
    BY <1>1, <1>2, <1>3, <1>5, <2>3, <2>4 DEF ChannelInOrder, writerVars
  <2>7. ChannelInOrder'
    BY <1>3, <1>5, <2>5, <2>6 DEF ChannelInOrder
  <2> QED BY <1>1, <1>2, <1>4, <1>7, <2>2, <2>7, LogUnchanged DEF IInv
<1>6. CASE SendFails
  <2>1. TypeOK'
    BY <1>1, <1>2, <1>6 DEF SendFails, TypeOK, Positions, binlogVars, durableVars, writerVars
  <2>2. ChannelInOrder'
    BY <1>1, <1>2, <1>6 DEF SendFails, ChannelInOrder, durableVars, writerVars
  <2> QED BY <1>1, <1>2, <1>4, <1>7, <2>1, <2>2, LogUnchanged DEF IInv
<1> QED BY <1>5, <1>6 DEF ReadRow

\* With one row per event, events of their own and no stream errors, the other
\* reader steps never happen.
LEMMA NoOtherReaderStep ==
  ASSUME SimpleSource, IInv
  PROVE  ~ SkipEvent /\ ~ StreamError /\ ~ StreamEnds
<1>1. TypeOK /\ LogConsistent
  BY DEF IInv
<1>2. ~ SkipEvent
  BY <1>1 DEF SkipEvent, Logged, LogConsistent
<1>3. ~ (attempt < MaxStreamErrors)
  BY <1>1 DEF TypeOK, SimpleSource
<1> QED BY <1>2, <1>3 DEF StreamError, StreamEnds

-----------------------------------------------------------------------------
\* What a step of the writer leaves, when it holds the faithful window e that
\* ends at position a: it keeps it, commits it or halts.
LEMMA WriterStep ==
  ASSUME TypeOK, DurablePrefix, writer = "running",
         NEW e \in Windows, NEW o \in Seq(Keys), NEW cp \in Positions \cup {NoCp},
         NEW a, a = IF cp = NoCp THEN ckpt ELSE cp, ckpt <= a,
         Represents(e, stored, hist[a], FreedBy(log, a), MovedBy(log, a)),
         UNCHANGED <<binlogVars, readerVars, crashes>>,
         layout' \in BOOLEAN, schemaErrors' \in 0..MaxSchemaErrors,
         chan' \in Seq(Positions), Len(chan') <= ChannelCapacity,
         \/ layout /\ FlushCommits(e, o, cp)
         \/ FlushFails(e, o, cp)
         \/ FlushFailsClosed
         \/ /\ entry' = e /\ order' = o /\ winCp' = cp
            /\ UNCHANGED <<durableVars, writer, fails, flushErrors>>
  PROVE  TypeOK' /\ WindowFaithful' /\ DurablePrefix' /\ (writer' = "running" => Absorbed' = a)
<1>1. Len(log) \in Nat /\ a \in 0..Len(log) /\ ckpt \in 0..Len(log) /\ Positions = 0..Len(log)
  BY AbsorbedPosition DEF Positions
<1>2. /\ Positions' = Positions /\ log' = log /\ hist' = hist /\ crashes' = crashes
      /\ reader' = reader /\ sent' = sent /\ tableMapped' = tableMapped
      /\ attempt' = attempt /\ initialCp' = initialCp /\ freed' = freed /\ moved' = moved
  BY DEF binlogVars, readerVars, Positions
<1>3. NoCp \notin Positions /\ << >> \in Seq(Keys) /\ 0 \in Nat
  BY <1>1, PipelineAssumption
<1>4. flushErrors < MaxFlushErrors => flushErrors + 1 \in 0..MaxFlushErrors /\ fails + 1 \in Nat
  BY PipelineAssumption DEF TypeOK
<1>5. CASE layout /\ FlushCommits(e, o, cp)
  <2>1. /\ stored' = hist[a] /\ ckpt' = a
        /\ entry' = NoEntries /\ order' = << >> /\ winCp' = NoCp /\ fails' = 0
        /\ Absorbed' = a
        /\ hist[a] \in Table
    BY <1>5, FlushCommitsExact
  <2>2. writer' = writer /\ flushErrors' = flushErrors
    BY <1>5 DEF FlushCommits
  <2>3. /\ NoEntries \in Windows
        /\ Represents(NoEntries, hist[a], hist[a], FreedBy(log', a), MovedBy(log', a))
    BY <2>1, EmptyRepresents
  <2>4. TypeOK'
    BY <1>1, <1>2, <1>3, <2>1, <2>2, <2>3 DEF TypeOK, Windows
  <2> QED BY <1>2, <2>1, <2>3, <2>4 DEF WindowFaithful, DurablePrefix
<1>6. CASE \/ FlushFails(e, o, cp) /\ writer' # "halted"
           \/ /\ entry' = e /\ order' = o /\ winCp' = cp
              /\ UNCHANGED <<durableVars, writer, fails, flushErrors>>
  <2>1. /\ entry' = e /\ order' = o /\ winCp' = cp /\ stored' = stored /\ ckpt' = ckpt
        /\ writer' = writer /\ fails' \in Nat /\ flushErrors' \in 0..MaxFlushErrors
    BY <1>4, <1>6 DEF FlushFails, Halt, durableVars, TypeOK
  <2>2. TypeOK'
    BY <1>2, <2>1 DEF TypeOK, Windows
  <2>3. Absorbed' = a
    BY <2>1 DEF Absorbed
  <2>4. winCp' # NoCp => ckpt' <= winCp'
    BY <2>1
  <2> QED BY <1>2, <2>1, <2>2, <2>3, <2>4 DEF WindowFaithful, DurablePrefix
<1>7. CASE (FlushFails(e, o, cp) /\ writer' = "halted") \/ FlushFailsClosed
  <2>1. /\ entry' = NoEntries /\ order' = << >> /\ winCp' = NoCp
        /\ stored' = stored /\ ckpt' = ckpt /\ writer' = "halted"
        /\ fails' \in Nat /\ flushErrors' \in 0..MaxFlushErrors
    BY <1>4, <1>7 DEF FlushFails, FlushFailsClosed, Halt, durableVars, TypeOK
  <2>2. Absorbed' = ckpt /\ stored' = hist'[ckpt]
    BY <1>2, <2>1 DEF Absorbed, DurablePrefix
  <2>3. stored' \in Table
    BY <2>1 DEF TypeOK
  <2>4. /\ NoEntries \in Windows
        /\ Represents(NoEntries, stored', stored', FreedBy(log', ckpt), MovedBy(log', ckpt))
    BY <2>3, EmptyRepresents
  <2>5. TypeOK'
    BY <1>2, <1>3, <2>1, <2>3, <2>4 DEF TypeOK, Windows
  <2> QED BY <2>1, <2>2, <2>4, <2>5 DEF WindowFaithful, DurablePrefix
<1> QED BY <1>5, <1>6, <1>7

\* The window in hand, as the hypotheses of WriterStep want it.
LEMMA WindowInHand ==
  ASSUME IInv
  PROVE  /\ entry \in Windows /\ order \in Seq(Keys) /\ winCp \in Positions \cup {NoCp}
         /\ Absorbed = IF winCp = NoCp THEN ckpt ELSE winCp
         /\ ckpt <= Absorbed
         /\ Represents(entry, stored, hist[Absorbed],
                       FreedBy(log, Absorbed), MovedBy(log, Absorbed))
<1>1. ckpt \in Nat
  BY AbsorbedPosition DEF IInv
<1> QED BY <1>1 DEF IInv, TypeOK, WindowFaithful, Windows, Absorbed

LEMMA WriterTickIInv ==
  ASSUME SimpleSource, IInv, WriterTick
  PROVE  IInv'
<1>1. TypeOK /\ LogConsistent /\ ChannelInOrder /\ LayoutFirst /\ WindowFaithful /\ DurablePrefix
  BY DEF IInv
<1>2. /\ UNCHANGED <<binlogVars, readerVars, crashes>> /\ chan' = chan /\ writer = "running"
      /\ layout' = layout /\ schemaErrors' = schemaErrors /\ layout
  BY <1>1, RowsHaveLayout DEF WriterTick, layoutVars
<1>3. /\ chan' \in Seq(Positions) /\ Len(chan') <= ChannelCapacity
      /\ layout' \in BOOLEAN /\ schemaErrors' \in 0..MaxSchemaErrors
  BY <1>1, <1>2 DEF TypeOK
<1>4. TypeOK' /\ WindowFaithful' /\ DurablePrefix' /\ (writer' = "running" => Absorbed' = Absorbed)
  BY <1>1, <1>2, <1>3, WindowInHand, WriterStep DEF WriterTick
<1>5. ChannelInOrder'
  <2>1. reader \notin {"connecting", "syncing"}
    BY <1>1 DEF WriterTick, ChannelInOrder
  <2> QED BY <1>1, <1>2, <1>4, <2>1 DEF ChannelInOrder, RowsQueued, readerVars
<1>6. LayoutFirst'
  BY <1>1, LayoutKept DEF Next, Writer, SimpleSource
<1> QED BY <1>1, <1>2, <1>4, <1>5, <1>6, LogUnchanged DEF IInv

LEMMA WriterRowIInv ==
  ASSUME SimpleSource, IInv, WriterRow
  PROVE  IInv'
<1> DEFINE h == Head(chan)
           e == PushEntry(entry, log[h].op)
           o == PushOrder(entry, order, log[h].op)
<1>1. TypeOK /\ LogConsistent /\ ChannelInOrder /\ LayoutFirst /\ WindowFaithful /\ DurablePrefix
  BY DEF IInv
<1>2. /\ UNCHANGED <<binlogVars, readerVars, crashes>>
      /\ chan' = Tail(chan) /\ chan # << >> /\ writer = "running" /\ h # SchemaEvent
      /\ layout' = layout /\ schemaErrors' = schemaErrors
  BY DEF WriterRow, layoutVars
<1>3. h = Absorbed + 1 /\ h \in Positions
  BY <1>1, <1>2, HeadInOrder, ChannelTail
<1>4. Len(log) \in Nat /\ Absorbed \in Nat /\ h \in 1..Len(log) /\ h - 1 = Absorbed
  BY <1>1, <1>3, AbsorbedPosition DEF Positions
<1>5. log[h].op \in RowOps /\ h \in Positions
  <2> HIDE DEF h
  <2>1. log[h] \in LogRows
    BY <1>1, <1>4 DEF TypeOK
  <2> QED BY <1>3, <2>1 DEF LogRows
<1>6. RowCheckpoint(h) = h
  BY <1>1, <1>4, EventEndSelf DEF RowCheckpoint, LogConsistent
<1>7. /\ Loggable(hist[Absorbed], log[h].op)
      /\ NoReuse(log[h].op, FreedBy(log, Absorbed), MovedBy(log, Absorbed))
      /\ hist[h] = ApplyOp(hist[Absorbed], log[h].op)
  BY <1>1, <1>4 DEF LogConsistent
<1>8. e \in Windows /\ o \in Seq(Keys)
  BY <1>5, WindowInHand, PushType, PushOrderType
<1>9. Represents(e, stored, hist[h], FreedBy(log, h), MovedBy(log, h))
  <2>1. stored \in Table /\ hist[Absorbed] \in Table
    BY <1>1, AbsorbedPosition DEF TypeOK
  <2>2. MovedBy(log, Absorbed) \subseteq FreedBy(log, Absorbed)
    BY MovedPrefixFreed
  <2>3. Represents(e, stored, ApplyOp(hist[Absorbed], log[h].op),
                   FreedBy(log, Absorbed) \cup Vacated(log[h].op),
                   MovedBy(log, Absorbed) \cup MovedAway(log[h].op))
    BY <1>5, <1>7, <2>1, <2>2, WindowInHand, PushRepresents
  <2>4. /\ FreedBy(log, h) = FreedBy(log, Absorbed) \cup Vacated(log[h].op)
        /\ MovedBy(log, h) = MovedBy(log, Absorbed) \cup MovedAway(log[h].op)
    BY <1>3, <1>4, <1>5, VacatedPrefix
  <2> QED BY <1>7, <2>3, <2>4
<1>10. /\ h \in Positions \cup {NoCp} /\ ckpt <= h
       /\ h = IF h = NoCp THEN ckpt ELSE h
  <2>1. ckpt <= Absorbed /\ ckpt \in Nat
    BY <1>1, WindowInHand, AbsorbedPosition
  <2> QED BY <1>4, <1>5, <2>1, PipelineAssumption
<1>11. \/ FlushCommits(e, o, h)
       \/ FlushFails(e, o, h)
       \/ FlushFailsClosed
       \/ /\ entry' = e /\ order' = o /\ winCp' = h
          /\ UNCHANGED <<durableVars, writer, fails, flushErrors>>
  <2> HIDE DEF e, o, h
  <2>1. IF Len(o) >= BatchSize
        THEN FlushCommits(e, o, h) \/ FlushFails(e, o, h)
        ELSE /\ entry' = e /\ order' = o /\ winCp' = h
             /\ UNCHANGED <<durableVars, writer, fails, flushErrors>>
    BY <1>6 DEF WriterRow, e, o, h
  <2> QED BY <2>1
<1>12. /\ chan' \in Seq(Positions) /\ Len(chan') <= ChannelCapacity
       /\ layout' \in BOOLEAN /\ schemaErrors' \in 0..MaxSchemaErrors
  <2>1. Len(chan) \in Nat /\ ChannelCapacity \in Nat /\ Len(chan) <= ChannelCapacity
    BY <1>1, PipelineAssumption DEF TypeOK
  <2>2. layout' \in BOOLEAN /\ schemaErrors' \in 0..MaxSchemaErrors
    BY <1>1, <1>2 DEF TypeOK
  <2> QED BY <1>1, <1>2, <2>1, <2>2, ChannelTail
<1>15. layout /\ LayoutFirst'
  <2>1. chan[1] # SchemaEvent
    BY <1>1, <1>2, ChannelTail
  <2>2. LayoutFirst'
    BY <1>1, LayoutKept DEF Next, Writer, SimpleSource
  <2> QED BY <1>1, <1>2, <2>1, <2>2, RowsHaveLayout
<1> HIDE DEF e, o, h
<1>13. TypeOK' /\ WindowFaithful' /\ DurablePrefix' /\ (writer' = "running" => Absorbed' = h)
  BY <1>1, <1>2, <1>8, <1>9, <1>10, <1>11, <1>12, <1>15, WriterStep
<1>14. ChannelInOrder'
  BY <1>1, <1>2, <1>3, <1>13, TailInOrder DEF h
<1> QED BY <1>1, <1>2, <1>13, <1>14, <1>15, LogUnchanged DEF IInv

LEMMA WriterSchemaIInv ==
  ASSUME SimpleSource, IInv, WriterSchema
  PROVE  IInv'
<1>1. TypeOK /\ LogConsistent /\ ChannelInOrder /\ LayoutFirst /\ WindowFaithful /\ DurablePrefix
  BY DEF IInv
<1>2. /\ UNCHANGED <<binlogVars, readerVars, crashes>>
      /\ chan' = Tail(chan) /\ chan # << >> /\ writer = "running" /\ Head(chan) = SchemaEvent
  BY DEF WriterSchema
<1>3. chan' \in Seq(Positions) /\ Len(chan') <= ChannelCapacity
  <2>1. Len(chan) \in Nat /\ ChannelCapacity \in Nat /\ Len(chan) <= ChannelCapacity
    BY <1>1, PipelineAssumption DEF TypeOK
  <2> QED BY <1>1, <1>2, <2>1, ChannelTail
<1>4. \/ layout /\ FlushCommits(entry, order, winCp)
      \/ FlushFailsClosed
      \/ /\ entry' = entry /\ order' = order /\ winCp' = winCp
         /\ UNCHANGED <<durableVars, writer, fails, flushErrors>>
  BY <1>1, RowsHaveLayout DEF WriterSchema, windowVars
<1>5. layout' \in BOOLEAN /\ schemaErrors' \in 0..MaxSchemaErrors
  <2>1. ~ (schemaErrors < MaxSchemaErrors) /\ layout \in BOOLEAN
        /\ schemaErrors \in 0..MaxSchemaErrors
    BY <1>1 DEF TypeOK, SimpleSource
  <2>2. CASE InstallLayout
    BY <2>1, <2>2 DEF InstallLayout
  <2>3. CASE UNCHANGED layoutVars
    BY <2>1, <2>3 DEF layoutVars
  <2> QED BY <2>2, <2>3 DEF WriterSchema
<1>6. TypeOK' /\ WindowFaithful' /\ DurablePrefix' /\ (writer' = "running" => Absorbed' = Absorbed)
  BY <1>1, <1>2, <1>3, <1>4, <1>5, WindowInHand, WriterStep
<1>7. ChannelInOrder'
  BY <1>1, <1>2, <1>6, TailInOrder
<1>8. LayoutFirst'
  BY <1>1, LayoutKept DEF Next, Writer, SimpleSource
<1> QED BY <1>1, <1>2, <1>6, <1>7, <1>8, LogUnchanged DEF IInv

LEMMA WriterClosedIInv ==
  ASSUME SimpleSource, IInv, WriterClosed
  PROVE  IInv'
<1>1. TypeOK /\ LogConsistent /\ ChannelInOrder /\ LayoutFirst /\ WindowFaithful /\ DurablePrefix
  BY DEF IInv
<1>2. /\ UNCHANGED <<binlogVars, readerVars, chan, fails, crashes>>
      /\ writer' = "done" /\ entry' = NoEntries /\ order' = << >> /\ winCp' = NoCp
      /\ reader = "stopped" /\ chan = << >> /\ layout' = layout /\ schemaErrors' = schemaErrors
  BY DEF WriterClosed, layoutVars
<1>3. /\ log' = log /\ hist' = hist /\ Positions' = Positions /\ reader' = reader
      /\ chan' = chan /\ sent' = sent
  BY <1>2 DEF binlogVars, readerVars, Positions
<1>4. ckpt' \in Positions /\ stored' = hist[ckpt'] /\ flushErrors' \in 0..MaxFlushErrors
  <2>1. CASE UNCHANGED durableVars
    <3>1. flushErrors < MaxFlushErrors => flushErrors + 1 \in 0..MaxFlushErrors
      BY <1>1, PipelineAssumption DEF TypeOK
    <3>2. \/ UNCHANGED flushErrors
          \/ flushErrors < MaxFlushErrors /\ flushErrors' = flushErrors + 1
          \/ UNCHANGED <<durableVars, flushErrors>>
      BY DEF WriterClosed
    <3> QED BY <1>1, <2>1, <3>1, <3>2 DEF DurablePrefix, TypeOK, durableVars
  <2>2. CASE /\ order # << >>
             /\ stored' = Flushed(entry, order)
             /\ ckpt' = IF winCp = NoCp THEN ckpt ELSE winCp
             /\ UNCHANGED flushErrors
    <3>1. ckpt' = Absorbed /\ Absorbed \in Positions /\ hist[Absorbed] \in Table /\ stored \in Table
      BY <1>1, <2>2, AbsorbedPosition DEF Absorbed, Positions, TypeOK
    <3>2. stored' = hist[Absorbed]
      BY <1>1, <2>2, <3>1, RowsHaveLayout, WindowInHand, FlushExact DEF Flushed
    <3> QED BY <1>1, <2>2, <3>1, <3>2 DEF TypeOK
  <2> QED BY <2>1, <2>2 DEF WriterClosed
<1>5. stored' \in Table /\ Absorbed' = ckpt'
  BY <1>1, <1>2, <1>4 DEF TypeOK, Absorbed
<1>6. /\ NoEntries \in Windows
      /\ Represents(NoEntries, stored', stored', FreedBy(log', ckpt'), MovedBy(log', ckpt'))
  BY <1>5, EmptyRepresents
<1>7. << >> \in Seq(Keys)
  OBVIOUS
<1>8. TypeOK'
  BY <1>1, <1>2, <1>3, <1>4, <1>5, <1>6, <1>7 DEF TypeOK, Windows, binlogVars, readerVars
<1>9. WindowFaithful' /\ DurablePrefix'
  BY <1>2, <1>3, <1>4, <1>5, <1>6 DEF WindowFaithful, DurablePrefix
<1>10. ChannelInOrder'
  BY <1>1, <1>2, <1>3 DEF ChannelInOrder
<1>11. LayoutFirst'
  BY <1>1, LayoutKept DEF Next, Writer, SimpleSource
<1> QED BY <1>1, <1>2, <1>8, <1>9, <1>10, <1>11, LogUnchanged DEF IInv

LEMMA CrashRestartIInv ==
  ASSUME SimpleSource, IInv, CrashRestart
  PROVE  IInv'
<1>1. TypeOK /\ LogConsistent /\ ChannelInOrder /\ LayoutFirst /\ WindowFaithful /\ DurablePrefix
  BY DEF IInv
<1>2. /\ UNCHANGED <<binlogVars, durableVars, flushErrors>>
      /\ log' = log /\ hist' = hist /\ ckpt' = ckpt /\ stored' = stored /\ Positions' = Positions
  BY DEF CrashRestart, binlogVars, durableVars, Positions
<1>3. Len(log) \in Nat /\ 0 \in Positions /\ ckpt \in Positions /\ stored \in Table
  BY <1>1 DEF TypeOK, Positions
<1>4. NoEntries \in Windows /\ Represents(NoEntries, stored, stored, FreedBy(log, ckpt), MovedBy(log, ckpt))
  BY <1>3, EmptyRepresents
<1>5. /\ << >> \in Seq(Keys) /\ << >> \in Seq(Positions) /\ Len(<< >>) <= ChannelCapacity
      /\ crashes' \in 0..MaxCrashes
  BY <1>1, PipelineAssumption DEF CrashRestart, TypeOK
<1>6. TypeOK'
  BY <1>1, <1>2, <1>3, <1>4, <1>5 DEF CrashRestart, TypeOK, Windows, binlogVars
<1>7. Absorbed' = ckpt
  BY <1>2 DEF CrashRestart, Absorbed
<1>8. WindowFaithful' /\ DurablePrefix'
  BY <1>1, <1>2, <1>4, <1>7 DEF CrashRestart, WindowFaithful, DurablePrefix
<1>9. ChannelInOrder'
  BY <1>2 DEF CrashRestart, ChannelInOrder
<1>10. LayoutFirst'
  BY <1>1, LayoutKept DEF Next, SimpleSource
<1> QED BY <1>1, <1>2, <1>6, <1>8, <1>9, <1>10, LogUnchanged DEF IInv

LEMMA NextIInv ==
  ASSUME SimpleSource
  PROVE  IInv /\ [Next]_vars => IInv'
<1> SUFFICES ASSUME IInv, [Next]_vars PROVE IInv'
  OBVIOUS
<1>1. CASE Reader \/ StreamError \/ StreamEnds
  BY <1>1, RecoverCheckpointIInv, SyncSchemaIInv, ReadRowIInv, NoOtherReaderStep DEF Reader
<1>2. CASE Writer
  BY <1>2, WriterTickIInv, WriterRowIInv, WriterSchemaIInv, WriterClosedIInv DEF Writer
<1>3. CASE UNCHANGED vars
  BY <1>3 DEF vars, IInv, TypeOK, Positions, LogConsistent, ChannelInOrder, LayoutFirst, RowsQueued,
              WindowFaithful, Absorbed, DurablePrefix
<1> QED BY <1>1, <1>2, <1>3, CommitIInv, CrashRestartIInv DEF Next

-----------------------------------------------------------------------------
(* The theorems.                                                           *)

\* The inductive invariant, in particular type correctness.
THEOREM Invariance ==
  ASSUME SimpleSource
  PROVE  Spec => []IInv
<1> QED BY InitIInv, NextIInv, PTL DEF Spec

\* Whatever was in flight when the process died or a flush failed, the stored
\* table is the source table at the stored checkpoint (writer.rs:621-877).
THEOREM DurableAlwaysPrefix ==
  ASSUME SimpleSource
  PROVE  Spec => []DurablePrefix
<1>1. IInv => DurablePrefix
  BY DEF IInv
<1> QED BY <1>1, Invariance, PTL

\* No row is lost on the way: through failed flushes, flushing the window would
\* bring the stored table to the last row received (writer.rs:299-461).
THEOREM PendingAlwaysExact ==
  ASSUME SimpleSource
  PROVE  Spec => []PendingExact
<1>1. IInv => PendingExact
  <2> SUFFICES ASSUME IInv PROVE PendingExact
    OBVIOUS
  <2>1. stored \in Table /\ hist[Absorbed] \in Table
    BY AbsorbedPosition DEF IInv, TypeOK
  <2> QED BY <2>1, WindowInHand, FlushExact DEF PendingExact
<1> QED BY <1>1, Invariance, PTL

\* Apart from the server's own steps, a step only moves the checkpoint forward.
LEMMA StepForward ==
  ASSUME SimpleSource, IInv, [Next]_vars
  PROVE  \/ Commit
         \/ log' = log /\ hist' = hist /\ ckpt \in Nat /\ ckpt' >= ckpt
<1>1. TypeOK /\ LogConsistent /\ ChannelInOrder /\ WindowFaithful
  BY DEF IInv
<1>2. ckpt \in Nat /\ ckpt <= Absorbed /\ Absorbed \in Nat
  BY <1>1, AbsorbedPosition, WindowInHand
<1>3. CASE UNCHANGED durableVars /\ UNCHANGED binlogVars
  BY <1>2, <1>3 DEF durableVars, binlogVars
<1>4. CASE RecoverCheckpoint \/ SyncSchema \/ ReadRow \/ CrashRestart \/ UNCHANGED vars
  <2>1. UNCHANGED durableVars /\ UNCHANGED binlogVars
    BY <1>4 DEF RecoverCheckpoint, SyncSchema, ReadRow, CrashRestart, vars, durableVars, binlogVars
  <2> QED BY <1>3, <2>1
<1>5. CASE WriterTick \/ WriterSchema \/ WriterClosed
  <2>1. UNCHANGED binlogVars
    BY <1>5 DEF WriterTick, WriterSchema, WriterClosed
  <2>2. UNCHANGED durableVars \/ ckpt' = IF winCp = NoCp THEN ckpt ELSE winCp
    BY <1>5 DEF WriterTick, WriterSchema, WriterClosed, FlushCommits, FlushFails,
                FlushFailsClosed, durableVars
  <2> QED BY <1>2, <1>3, <2>1, <2>2 DEF Absorbed, binlogVars
<1>6. CASE WriterRow
  <2>1. UNCHANGED binlogVars
    BY <1>6 DEF WriterRow
  <2>2. Head(chan) = Absorbed + 1 /\ Head(chan) \in Positions /\ Len(log) \in Nat
    BY <1>1, <1>6, HeadInOrder, ChannelTail, AbsorbedPosition DEF WriterRow
  <2>3. Head(chan) \in 1..Len(log)
    BY <1>2, <2>2 DEF Positions
  <2>4. RowCheckpoint(Head(chan)) = Absorbed + 1
    BY <1>1, <2>2, <2>3, EventEndSelf DEF RowCheckpoint, LogConsistent
  <2>5. UNCHANGED durableVars
        \/ ckpt' = IF RowCheckpoint(Head(chan)) = NoCp THEN ckpt ELSE RowCheckpoint(Head(chan))
    BY <1>6 DEF WriterRow, FlushCommits, FlushFails
  <2> QED BY <1>2, <1>3, <2>1, <2>4, <2>5 DEF binlogVars
<1> QED BY <1>4, <1>5, <1>6, NoOtherReaderStep DEF Next, Reader, Writer

\* The pipeline implements the abstract replica: a reader of the DuckDB file
\* sees the source as it was at the stored checkpoint, and only ever later
\* states of it.
THEOREM PipelineImplementsReplica ==
  ASSUME SimpleSource
  PROVE  Spec => ImplementsReplica
<1>1. Init => AbstractReplica!Init
  <2> SUFFICES ASSUME Init PROVE AbstractReplica!Init
    OBVIOUS
  <2>1. Len(log) = 0
    BY DEF Init, BinlogInit
  <2> QED BY <2>1 DEF Init, BinlogInit, AbstractReplica!Init
<1>2. IInv /\ IInv' /\ [Next]_vars => [AbstractReplica!Next]_(AbstractReplica!vars)
  <2> SUFFICES ASSUME IInv, IInv', [Next]_vars
               PROVE  [AbstractReplica!Next]_(AbstractReplica!vars)
    OBVIOUS
  <2>1. stored = hist[ckpt] /\ stored' = hist'[ckpt'] /\ Len(log) \in Nat
        /\ ckpt \in 0..Len(log) /\ ckpt' \in 0..Len(log')
    BY AbsorbedPosition DEF IInv, DurablePrefix, TypeOK, Positions
  <2>2. CASE Commit
    <3>1. PICK op \in RowOps, last \in BOOLEAN, own \in BOOLEAN : LogRow(op, last, own)
      BY <2>2 DEF Commit
    <3>2. Len(log') = Len(log) + 1 /\ hist[Len(log)] \in Table
      <4>1. TypeOK
        BY DEF IInv
      <4>2. Len(log') = Len(log) + 1
        BY <3>1, <4>1, LogRowFrame
      <4>3. Len(log) \in Positions
        BY <2>1 DEF Positions
      <4> QED BY <4>1, <4>2, <4>3 DEF TypeOK
    <3>3. ApplyOp(hist[Len(log)], op) \in Table
      BY <3>2, ApplyOpType
    <3>4. hist' = [i \in 0..(Len(log) + 1) |->
                     IF i = Len(log) + 1 THEN ApplyOp(hist[Len(log)], op) ELSE hist[i]]
      BY <3>1 DEF LogRow, Current
    <3>5. stored' = stored /\ ckpt' = ckpt
      BY <2>2 DEF Commit, durableVars
    <3>6. AbstractReplica!Change
      BY <3>2, <3>3, <3>4, <3>5 DEF AbstractReplica!Change
    <3> QED BY <3>6 DEF AbstractReplica!Next
  <2>3. CASE log' = log /\ hist' = hist /\ ckpt' >= ckpt
    <3>1. CASE ckpt' = ckpt
      BY <2>1, <2>3, <3>1 DEF AbstractReplica!vars
    <3>2. CASE ckpt' # ckpt
      <4>1. ckpt' \in (ckpt + 1)..Len(log) /\ stored' = hist[ckpt']
        BY <2>1, <2>3, <3>2
      <4>2. AbstractReplica!CatchUp
        BY <2>3, <4>1 DEF AbstractReplica!CatchUp
      <4> QED BY <4>2 DEF AbstractReplica!Next
    <3> QED BY <3>1, <3>2
  <2> QED BY <2>2, <2>3, StepForward
<1> QED BY <1>1, <1>2, Invariance, PTL DEF Spec, ImplementsReplica, AbstractReplica!Spec

-----------------------------------------------------------------------------
(* Whatever the source and the stream do: events of several rows, split    *)
(* statements, keys used again and reconnects.                             *)

\* The last row of a complete event exists and ends it.
LEMMA EventEndLast ==
  ASSUME Len(log) \in Nat, NEW i \in 1..Len(log), Logged(i)
  PROVE  EventEnd(i) \in i..Len(log) /\ log[EventEnd(i)].last
<1> DEFINE Ends == {j \in i..Len(log) : log[j].last}
           R == OpToRel(<, Nat)
<1>1. Ends \subseteq Nat /\ Ends # {}
  BY DEF Logged
<1>2. PICK j \in Ends : \A m \in Ends : ~ (<<m, j>> \in R)
  <2> HIDE DEF Ends, R
  <2>1. IsWellFoundedOn(R, Nat)
    BY NatLessThanWellFounded DEF R
  <2> QED BY <1>1, <2>1, WFMin
<1>3. \A m \in Ends : ~ (m < j)
  BY <1>1, <1>2, Zenon DEF OpToRel
<1>4. j \in i..Len(log) /\ log[j].last /\ \A m \in i..(j - 1) : ~ log[m].last
  <2>1. \A m \in i..(j - 1) : m \in i..Len(log) /\ m < j
    BY <1>1
  <2> QED BY <1>3, <2>1
<1> HIDE DEF Ends
<1> QED BY <1>4 DEF EventEnd

\* The log replayed from the first state is the history, ...
LogReplayed ==
  \A i \in 1..Len(log) : hist[i] = ApplyOp(hist[i - 1], log[i].op)

\* ... the channel holds rows of complete events, ...
QueueLogged ==
  \A i \in 1..Len(chan) : chan[i] # SchemaEvent => Logged(chan[i])

\* ... and whatever is pending or stored is a value its key had at some position.
HistoryValues ==
  {p \in Keys \X (Vals \cup {Absent}) : \E i \in Positions : hist[i][p[1]] = p[2]}

Sound ==
  /\ TypeOK
  /\ LogReplayed
  /\ QueueLogged
  /\ DrawsOn(entry, HistoryValues)
  /\ RowsFromBinlog

\* A value of a table in the history, and a row of the history.
LEMMA HistoryValue ==
  ASSUME TypeOK, NEW i \in Positions, NEW k \in Keys
  PROVE  <<k, hist[i][k]>> \in HistoryValues
<1>1. hist[i][k] \in Vals \cup {Absent}
  BY DEF TypeOK, Table
<1> QED BY <1>1 DEF HistoryValues

LEMMA StoredValues ==
  ASSUME TypeOK
  PROVE  RowsFromBinlog <=> \A k \in Keys : <<k, stored[k]>> \in HistoryValues
<1>1. \A k \in Keys : stored[k] \in Vals \cup {Absent}
  BY DEF TypeOK, Table
<1> QED BY <1>1 DEF RowsFromBinlog, HistoryValues

LEMMA InitSound == Init => Sound
<1> SUFFICES ASSUME Init PROVE Sound
  OBVIOUS
<1>1. /\ log = << >> /\ Len(log) = 0 /\ Positions = {0}
      /\ freed = {} /\ moved = {} /\ log \in Seq(LogRows)
  BY DEF Init, BinlogInit, Positions
<1>2. hist \in [Positions -> Table] /\ stored = hist[0] /\ stored \in Table
  BY <1>1 DEF Init, BinlogInit
<1>3. /\ NoEntries \in [Keys -> Entries] /\ << >> \in Seq(Keys) /\ << >> \in Seq(Positions)
      /\ Len(<< >>) <= ChannelCapacity
  <2>1. NoEntries \in [Keys -> Entries]
    BY EmptyRepresents, <1>2 DEF Windows
  <2>2. << >> \in Seq(Keys) /\ << >> \in Seq(Positions) /\ Len(<< >>) <= ChannelCapacity
    BY PipelineAssumption
  <2> QED BY <2>1, <2>2
<1>4. TypeOK
  <2>1. ckpt \in Positions /\ sent \in Positions /\ initialCp \in Positions \cup {NoCp}
    BY <1>1 DEF Init
  <2>2. fails \in Nat /\ attempt \in Nat /\ flushErrors \in 0..MaxFlushErrors
        /\ schemaErrors \in 0..MaxSchemaErrors /\ crashes \in 0..MaxCrashes
    BY PipelineAssumption DEF Init
  <2> QED BY <1>1, <1>2, <1>3, <2>1, <2>2 DEF TypeOK, Init
<1>5. RowsFromBinlog
  BY <1>1, <1>2 DEF RowsFromBinlog
<1> QED BY <1>1, <1>4, <1>5, EmptyDraws DEF Sound, LogReplayed, QueueLogged, Init

LEMMA CommitType ==
  ASSUME TypeOK, Commit
  PROVE  TypeOK'
<1> DEFINE n == Len(log)
<1>1. PICK op \in RowOps, last \in BOOLEAN, own \in BOOLEAN : LogRow(op, last, own)
  BY DEF Commit
<1>2. UNCHANGED <<durableVars, readerVars, writerVars, chan, crashes>>
  BY DEF Commit
<1>3. n \in Nat /\ log' \in Seq(LogRows) /\ Len(log') = n + 1 /\ hist' \in [0..(n + 1) -> Table]
  BY <1>1, LogRowFrame
<1>4. Vacated(op) \subseteq Keys /\ MovedAway(op) \subseteq Vacated(op)
  BY OpFields DEF Vacated, MovedAway, MovesRow
<1>5. freed' \subseteq Keys /\ moved' \subseteq freed'
  BY <1>1, <1>4 DEF LogRow, TypeOK
<1>6. Positions = 0..n /\ Positions' = 0..(n + 1) /\ Positions \subseteq Positions'
  BY <1>3 DEF Positions
<1>7. chan \in Seq(Positions')
  BY <1>6, SeqWiden DEF TypeOK
<1> QED BY <1>2, <1>3, <1>5, <1>6, <1>7 DEF TypeOK, durableVars, readerVars, writerVars

LEMMA CommitSound ==
  ASSUME Sound, Commit
  PROVE  Sound'
<1> DEFINE n == Len(log)
<1>1. PICK op \in RowOps, last \in BOOLEAN, own \in BOOLEAN : LogRow(op, last, own)
  BY DEF Commit
<1>2. TypeOK /\ TypeOK'
  BY CommitType DEF Sound
<1>3. stored' = stored /\ entry' = entry /\ chan' = chan
  BY DEF Commit, durableVars, writerVars
<1>4. /\ n \in Nat /\ Len(log') = n + 1
      /\ log'[n + 1] = [op |-> op, last |-> last, own |-> own]
      /\ \A i \in 1..n : log'[i] = log[i]
      /\ hist'[n + 1] = ApplyOp(hist[n], op)
      /\ \A i \in 0..n : hist'[i] = hist[i]
  BY <1>1, <1>2, LogRowFrame
<1> HIDE DEF n
<1>5. LogReplayed'
  <2>1. ASSUME NEW i \in 1..(n + 1)
        PROVE  hist'[i] = ApplyOp(hist'[i - 1], log'[i].op)
    <3>1. CASE i = n + 1
      <4>1. log'[n + 1].op = op /\ n + 1 - 1 = n /\ n \in 0..n
        BY <1>4
      <4> QED BY <1>4, <3>1, <4>1
    <3>2. CASE i # n + 1
      <4>1. i \in 1..n /\ i \in 0..n /\ i - 1 \in 0..n
        BY <1>4, <3>2
      <4>2. hist[i] = ApplyOp(hist[i - 1], log[i].op)
        BY <4>1 DEF Sound, LogReplayed, n
      <4> QED BY <1>4, <4>1, <4>2
    <3> QED BY <3>1, <3>2
  <2> QED BY <1>4, <2>1 DEF LogReplayed
<1>6. QueueLogged'
  <2>1. ASSUME NEW i, Logged(i)
        PROVE  Logged(i)'
    <3>1. i \in 1..n /\ \E j \in i..n : log[j].last
      BY <2>1 DEF Logged, n
    <3>2. i \in 1..(n + 1) /\ \A j \in i..n : j \in i..(n + 1) /\ j \in 1..n
      BY <1>4, <3>1
    <3> QED BY <1>4, <3>1, <3>2 DEF Logged
  <2> QED BY <1>3, <2>1 DEF Sound, QueueLogged
<1>7. HistoryValues \subseteq HistoryValues'
  <2>1. \A i \in Positions : i \in Positions' /\ hist'[i] = hist[i]
    BY <1>4 DEF Positions, n
  <2> QED BY <2>1 DEF HistoryValues
<1>8. DrawsOn(entry, HistoryValues)'
  BY <1>3, <1>7 DEF Sound, DrawsOn
<1>9. RowsFromBinlog'
  <2>1. \A k \in Keys : <<k, stored[k]>> \in HistoryValues
    BY <1>2, StoredValues DEF Sound
  <2>2. \A k \in Keys : <<k, stored'[k]>> \in HistoryValues'
    BY <1>3, <1>7, <2>1
  <2>3. (RowsFromBinlog <=> \A k \in Keys : <<k, stored[k]>> \in HistoryValues)'
    BY <1>2, StoredValues, PTL
  <2> QED BY <2>2, <2>3
<1> QED BY <1>2, <1>5, <1>6, <1>8, <1>9 DEF Sound

\* A step of the reader: what it leaves alone, and what it sends.
LEMMA ReaderStep ==
  ASSUME TypeOK, Reader \/ StreamError \/ StreamEnds
  PROVE  /\ UNCHANGED <<binlogVars, durableVars, initialCp, writerVars, crashes>>
         /\ TypeOK'
         /\ \/ chan' = chan
            \/ chan' = Append(chan, SchemaEvent)
            \/ chan' = Append(chan, sent + 1) /\ Logged(sent + 1)
<1>1. UNCHANGED <<binlogVars, durableVars, initialCp, writerVars, crashes>>
  BY DEF Reader, RecoverCheckpoint, SyncSchema, ReadRow, SkipEvent, StreamError, StreamEnds
<1>2. /\ Positions' = Positions /\ Len(log) \in Nat /\ sent \in Nat
      /\ 0 \in Positions /\ SchemaEvent \in Positions
  BY <1>1 DEF binlogVars, Positions, TypeOK, SchemaEvent
<1>3. ASSUME NEW event \in Positions, Send(event)
      PROVE  chan' \in Seq(Positions) /\ Len(chan') <= ChannelCapacity
  <2>1. /\ chan \in Seq(Positions) /\ chan' = Append(chan, event)
        /\ Len(chan) < ChannelCapacity /\ ChannelCapacity \in Nat
    BY <1>3, PipelineAssumption DEF Send, TypeOK
  <2> QED BY <2>1
<1>4. Logged(sent + 1) => sent + 1 \in Positions
  BY <1>2 DEF Logged, Positions
<1>5. /\ reader' \in {"connecting", "syncing", "streaming", "stopped"}
      /\ sent' \in Positions /\ tableMapped' \in BOOLEAN /\ attempt' \in Nat
      /\ chan' \in Seq(Positions) /\ Len(chan') <= ChannelCapacity
      /\ \/ chan' = chan
         \/ chan' = Append(chan, SchemaEvent)
         \/ chan' = Append(chan, sent + 1) /\ Logged(sent + 1)
  <2>1. CASE RecoverCheckpoint
    BY <2>1 DEF RecoverCheckpoint, TypeOK
  <2>2. CASE SyncSchema
    BY <1>2, <1>3, <2>2 DEF SyncSchema, Send, SendFails, TypeOK
  <2>3. CASE ReadRow
    BY <1>3, <1>4, <2>3 DEF ReadRow, Send, SendFails, TypeOK
  <2>4. CASE SkipEvent
    <3>1. EventEnd(sent + 1) \in (sent + 1)..Len(log)
      BY <1>2, <2>4, EventEndLast DEF SkipEvent, Logged
    <3>2. EventEnd(sent + 1) \in Positions
      BY <1>2, <3>1 DEF Positions
    <3> QED BY <2>4, <3>2 DEF SkipEvent, TypeOK
  <2>5. CASE StreamError \/ StreamEnds
    BY <2>5 DEF StreamError, StreamEnds, TypeOK
  <2> QED BY <2>1, <2>2, <2>3, <2>4, <2>5 DEF Reader
<1> QED BY <1>1, <1>2, <1>5 DEF TypeOK, binlogVars, durableVars, writerVars

LEMMA ReaderSound ==
  ASSUME Sound, Reader \/ StreamError \/ StreamEnds
  PROVE  Sound'
<1>1. /\ TypeOK' /\ UNCHANGED <<binlogVars, durableVars, writerVars>>
      /\ \/ chan' = chan
         \/ chan' = Append(chan, SchemaEvent)
         \/ chan' = Append(chan, sent + 1) /\ Logged(sent + 1)
  BY ReaderStep DEF Sound
<1>2. LogReplayed' /\ DrawsOn(entry, HistoryValues)' /\ RowsFromBinlog'
  BY <1>1 DEF Sound, LogReplayed, DrawsOn, HistoryValues, RowsFromBinlog, Positions,
              binlogVars, durableVars, writerVars
<1>3. QueueLogged'
  <2>1. chan \in Seq(Positions) /\ \A i : Logged(i)' <=> Logged(i)
    BY <1>1 DEF Sound, TypeOK, Logged, binlogVars
  <2>2. ASSUME NEW v, chan' = Append(chan, v), v # SchemaEvent => Logged(v),
               NEW i \in 1..Len(chan'), chan'[i] # SchemaEvent
        PROVE  Logged(chan'[i])
    <3>1. Len(chan) \in Nat /\ Len(chan') = Len(chan) + 1 /\ chan'[Len(chan) + 1] = v
          /\ \A j \in 1..Len(chan) : chan'[j] = chan[j]
      BY <2>1, <2>2
    <3>2. i = Len(chan) + 1 \/ i \in 1..Len(chan)
      BY <3>1
    <3> QED BY <2>2, <3>1, <3>2 DEF Sound, QueueLogged
  <2> QED BY <1>1, <2>1, <2>2 DEF Sound, QueueLogged
<1> QED BY <1>1, <1>2, <1>3 DEF Sound

\* A step of the writer with window e, o, cp in hand: it commits it, keeps it, or
\* drops it.
LEMMA WindowStep ==
  ASSUME Sound, NEW e \in Windows, NEW o \in Seq(Keys), NEW cp \in Positions \cup {NoCp},
         DrawsOn(e, HistoryValues),
         UNCHANGED <<binlogVars, readerVars, crashes>>,
         layout' \in BOOLEAN, schemaErrors' \in 0..MaxSchemaErrors,
         chan' = chan \/ (chan # << >> /\ chan' = Tail(chan)),
         \/ FlushCommits(e, o, cp)
         \/ FlushFails(e, o, cp)
         \/ FlushFailsClosed
         \/ /\ entry' = e /\ order' = o /\ winCp' = cp
            /\ UNCHANGED <<durableVars, writer, fails, flushErrors>>
  PROVE  Sound'
<1>1. /\ Positions' = Positions /\ HistoryValues' = HistoryValues
      /\ \A i : Logged(i)' <=> Logged(i)
  BY DEF binlogVars, Positions, HistoryValues, Logged
<1>2. NoEntries \in Windows /\ DrawsOn(NoEntries, HistoryValues) /\ << >> \in Seq(Keys)
  <2>1. stored \in Table
    BY DEF Sound, TypeOK
  <2> QED BY <2>1, EmptyRepresents, EmptyDraws
<1>3. /\ chan' \in Seq(Positions) /\ Len(chan') <= ChannelCapacity /\ QueueLogged'
  <2>1. CASE chan' = chan
    BY <1>1, <2>1 DEF Sound, TypeOK, QueueLogged
  <2>2. CASE chan # << >> /\ chan' = Tail(chan)
    <3>1. /\ chan' \in Seq(Positions) /\ Len(chan) \in Nat /\ Len(chan') = Len(chan) - 1
          /\ \A i \in 1..(Len(chan) - 1) : chan'[i] = chan[i + 1]
      <4>1. TypeOK /\ chan # << >> /\ chan' = Tail(chan)
        BY <2>2 DEF Sound
      <4> QED BY <4>1, ChannelTail
    <3>2. QueueLogged'
      <4>1. \A i \in 1..(Len(chan) - 1) : i + 1 \in 1..Len(chan)
        BY <3>1
      <4> QED BY <1>1, <3>1, <4>1 DEF Sound, QueueLogged
    <3>3. Len(chan) <= ChannelCapacity /\ ChannelCapacity \in Nat
      BY PipelineAssumption DEF Sound, TypeOK
    <3> QED BY <3>1, <3>2, <3>3
  <2> QED BY <2>1, <2>2
<1>4. /\ writer' \in {"running", "halted", "done"} /\ fails' \in Nat
      /\ flushErrors' \in 0..MaxFlushErrors
      /\ entry' \in Windows /\ order' \in Seq(Keys) /\ winCp' \in Positions \cup {NoCp}
      /\ DrawsOn(entry', HistoryValues)
  <2>1. /\ flushErrors < MaxFlushErrors => flushErrors + 1 \in 0..MaxFlushErrors
        /\ fails + 1 \in Nat /\ fails \in Nat /\ flushErrors \in 0..MaxFlushErrors
        /\ writer \in {"running", "halted", "done"} /\ 0 \in Nat
    BY PipelineAssumption DEF Sound, TypeOK
  <2>2. CASE FlushCommits(e, o, cp)
    BY <1>2, <2>1, <2>2 DEF FlushCommits
  <2>3. CASE FlushFails(e, o, cp)
    BY <1>2, <2>1, <2>3 DEF FlushFails, Halt
  <2>4. CASE FlushFailsClosed
    BY <1>2, <2>1, <2>4 DEF FlushFailsClosed, Halt
  <2>5. CASE /\ entry' = e /\ order' = o /\ winCp' = cp
             /\ UNCHANGED <<durableVars, writer, fails, flushErrors>>
    BY <2>1, <2>5
  <2> QED BY <2>2, <2>3, <2>4, <2>5
<1>5. /\ stored' \in Table /\ ckpt' \in Positions
      /\ \A k \in Keys : <<k, stored'[k]>> \in HistoryValues
  <2>1. stored \in Table /\ ckpt \in Positions /\ \A k \in Keys : <<k, stored[k]>> \in HistoryValues
    BY StoredValues DEF Sound, TypeOK
  <2>2. CASE FlushCommits(e, o, cp)
    <3>1. stored' \in {FlushResult(stored, e, o), stored} /\ ckpt' \in Positions
      BY <2>1, <2>2 DEF FlushCommits, Flushed
    <3> QED BY <2>1, <3>1, FlushType, FlushDraws
  <2>3. CASE UNCHANGED durableVars
    BY <2>1, <2>3 DEF durableVars
  <2> QED BY <2>2, <2>3 DEF FlushFails, FlushFailsClosed
<1>6. TypeOK'
  BY <1>1, <1>3, <1>4, <1>5 DEF Sound, TypeOK, Windows, binlogVars, readerVars
<1>7. RowsFromBinlog'
  <2>1. (RowsFromBinlog <=> \A k \in Keys : <<k, stored[k]>> \in HistoryValues)'
    BY <1>6, StoredValues, PTL
  <2> QED BY <1>1, <1>5, <2>1
<1>8. LogReplayed'
  BY DEF Sound, LogReplayed, binlogVars
<1>9. DrawsOn(entry, HistoryValues)'
  BY <1>1, <1>4 DEF DrawsOn
<1> QED BY <1>3, <1>6, <1>7, <1>8, <1>9 DEF Sound

LEMMA WriterSound ==
  ASSUME Sound, Writer
  PROVE  Sound'
<1>1. /\ TypeOK /\ DrawsOn(entry, HistoryValues) /\ entry \in Windows /\ order \in Seq(Keys)
      /\ winCp \in Positions \cup {NoCp}
  BY AbsorbedPosition DEF Sound, TypeOK
<1>2. /\ UNCHANGED <<binlogVars, readerVars, crashes>>
      /\ layout' \in BOOLEAN /\ schemaErrors' \in 0..MaxSchemaErrors
  <2>1. layout \in BOOLEAN /\ schemaErrors \in 0..MaxSchemaErrors
    BY <1>1 DEF TypeOK
  <2>2. InstallLayout => layout' \in BOOLEAN /\ schemaErrors' \in 0..MaxSchemaErrors
    <3>1. InstallLayout => layout' \in BOOLEAN
      BY <2>1 DEF InstallLayout
    <3>2. InstallLayout => \/ schemaErrors' = schemaErrors
                           \/ schemaErrors < MaxSchemaErrors /\ schemaErrors' = schemaErrors + 1
      BY DEF InstallLayout
    <3>3. \A n \in 0..MaxSchemaErrors : n < MaxSchemaErrors => n + 1 \in 0..MaxSchemaErrors
      BY PipelineAssumption
    <3> QED BY <2>1, <3>1, <3>2, <3>3
  <2>3. UNCHANGED layoutVars \/ InstallLayout
    BY DEF Writer, WriterTick, WriterRow, WriterSchema, WriterClosed
  <2>4. UNCHANGED <<binlogVars, readerVars, crashes>>
    BY DEF Writer, WriterTick, WriterRow, WriterSchema, WriterClosed
  <2> QED BY <2>1, <2>2, <2>3, <2>4 DEF layoutVars
<1>3. CASE WriterTick
  <2>1. chan' = chan /\ (FlushCommits(entry, order, winCp) \/ FlushFails(entry, order, winCp))
    BY <1>3 DEF WriterTick
  <2> QED BY <1>1, <1>2, <2>1, WindowStep
<1>4. CASE WriterRow
  <2> DEFINE h == Head(chan)
             e == PushEntry(entry, log[h].op)
             o == PushOrder(entry, order, log[h].op)
             cp == RowCheckpoint(h)
  <2>1. chan # << >> /\ chan' = Tail(chan) /\ h # SchemaEvent
    BY <1>4 DEF WriterRow
  <2>2. h \in 1..Len(log) /\ Logged(h) /\ Len(log) \in Nat
    <3>1. h = chan[1] /\ 1 \in 1..Len(chan) /\ Len(log) \in Nat
      BY <1>1, <2>1, ChannelTail DEF TypeOK
    <3>2. Logged(chan[1])
      BY <2>1, <3>1 DEF Sound, QueueLogged
    <3> HIDE DEF h
    <3> QED BY <3>1, <3>2 DEF Logged
  <2>3. cp \in Positions \cup {NoCp}
    <3> HIDE DEF h
    <3>1. EventEnd(h) \in h..Len(log)
      BY <2>2, EventEndLast
    <3> QED BY <2>2, <3>1 DEF RowCheckpoint, Positions
  <2> HIDE DEF h
  <2>4. log[h].op \in RowOps
    <3>1. log[h] \in LogRows
      BY <1>1, <2>2 DEF TypeOK
    <3> QED BY <3>1 DEF LogRows
  <2>5. e \in Windows /\ o \in Seq(Keys)
    BY <1>1, <2>4, PushType, PushOrderType
  <2>6. DrawsOn(e, HistoryValues)
    <3>1. h \in Positions /\ h - 1 \in Positions /\ hist[h] = ApplyOp(hist[h - 1], log[h].op)
      BY <2>2 DEF Sound, LogReplayed, Positions
    <3> DEFINE op == log[h].op
    <3>2. op \in RowOps /\ op.key \in Keys
      BY <2>4, OpFields
    <3> HIDE DEF op
    <3>3. hist[h][op.key] = op.val
      BY <3>1, <3>2 DEF ApplyOp, op
    <3>4. op.before \in Keys \ {op.key} => hist[h][op.before] = Absent
      BY <3>1, <3>2 DEF ApplyOp, op
    <3>5. /\ <<op.key, op.val>> \in HistoryValues
          /\ op.before \in Keys \ {op.key} => <<op.before, Absent>> \in HistoryValues
      <4>1. \A k \in Keys : <<k, hist[h][k]>> \in HistoryValues
        BY <1>1, <3>1, HistoryValue
      <4> QED BY <3>2, <3>3, <3>4, <4>1
    <3> QED BY <1>1, <3>2, <3>5, PushDraws DEF op
  <2>7. \/ FlushCommits(e, o, cp)
        \/ FlushFails(e, o, cp)
        \/ /\ entry' = e /\ order' = o /\ winCp' = cp
           /\ UNCHANGED <<durableVars, writer, fails, flushErrors>>
    <3>1. IF Len(o) >= BatchSize
          THEN FlushCommits(e, o, cp) \/ FlushFails(e, o, cp)
          ELSE /\ entry' = e /\ order' = o /\ winCp' = cp
               /\ UNCHANGED <<durableVars, writer, fails, flushErrors>>
      BY <1>4 DEF WriterRow, h
    <3> HIDE DEF e, o, cp
    <3> QED BY <3>1
  <2> HIDE DEF e, o, cp
  <2> QED BY <1>2, <2>1, <2>3, <2>5, <2>6, <2>7, WindowStep
<1>5. CASE WriterSchema
  <2>1. chan # << >> /\ chan' = Tail(chan)
    BY <1>5 DEF WriterSchema
  <2>2. \/ FlushCommits(entry, order, winCp)
        \/ FlushFailsClosed
        \/ /\ entry' = entry /\ order' = order /\ winCp' = winCp
           /\ UNCHANGED <<durableVars, writer, fails, flushErrors>>
    BY <1>5 DEF WriterSchema, windowVars
  <2> QED BY <1>1, <1>2, <2>1, <2>2, WindowStep
<1>6. CASE WriterClosed
  <2>1. /\ chan' = chan /\ fails' = fails /\ writer' = "done"
        /\ entry' = NoEntries /\ order' = << >> /\ winCp' = NoCp
    BY <1>6 DEF WriterClosed
  <2>2. /\ Positions' = Positions /\ HistoryValues' = HistoryValues
        /\ \A i : Logged(i)' <=> Logged(i)
    BY <1>2 DEF binlogVars, Positions, HistoryValues, Logged
  <2>3. stored \in Table /\ ckpt \in Positions /\ \A k \in Keys : <<k, stored[k]>> \in HistoryValues
    BY <1>1, StoredValues DEF Sound, TypeOK
  <2>4. /\ stored' \in Table /\ ckpt' \in Positions
        /\ \A k \in Keys : <<k, stored'[k]>> \in HistoryValues
    <3>1. CASE stored' \in {FlushResult(stored, entry, order), stored}
      <4>1. ckpt' \in Positions
        BY <1>1, <1>6, <2>3 DEF WriterClosed, durableVars
      <4> QED BY <1>1, <2>3, <3>1, <4>1, FlushType, FlushDraws
    <3>2. CASE UNCHANGED durableVars
      BY <2>3, <3>2 DEF durableVars
    <3> QED BY <1>6, <3>1, <3>2 DEF WriterClosed, Flushed
  <2>5. flushErrors' \in 0..MaxFlushErrors
    BY <1>1, <1>6, PipelineAssumption DEF WriterClosed, TypeOK
  <2>6. NoEntries \in Windows /\ DrawsOn(NoEntries, HistoryValues) /\ << >> \in Seq(Keys)
    BY <2>3, EmptyRepresents, EmptyDraws
  <2>7. TypeOK'
    BY <1>1, <1>2, <2>1, <2>2, <2>4, <2>5, <2>6 DEF TypeOK, Windows, binlogVars, readerVars
  <2>8. RowsFromBinlog'
    <3>1. (RowsFromBinlog <=> \A k \in Keys : <<k, stored[k]>> \in HistoryValues)'
      BY <2>7, StoredValues, PTL
    <3> QED BY <2>2, <2>4, <3>1
  <2>9. LogReplayed' /\ QueueLogged' /\ DrawsOn(entry, HistoryValues)'
    BY <1>2, <2>1, <2>2, <2>6 DEF Sound, LogReplayed, QueueLogged, DrawsOn, binlogVars
  <2> QED BY <2>7, <2>8, <2>9 DEF Sound
<1> QED BY <1>3, <1>4, <1>5, <1>6 DEF Writer

LEMMA CrashRestartSound ==
  ASSUME Sound, CrashRestart
  PROVE  Sound'
<1>1. /\ log' = log /\ hist' = hist /\ freed' = freed /\ moved' = moved /\ ckpt' = ckpt
      /\ stored' = stored /\ flushErrors' = flushErrors /\ schemaErrors' = schemaErrors
      /\ Positions' = Positions
      /\ HistoryValues' = HistoryValues /\ chan' = << >> /\ entry' = NoEntries
  BY DEF CrashRestart, binlogVars, durableVars, Positions, HistoryValues
<1>2. 0 \in Positions /\ ckpt \in Positions /\ stored \in Table
  BY DEF Sound, TypeOK, Positions
<1>3. /\ NoEntries \in Windows /\ DrawsOn(NoEntries, HistoryValues)
      /\ << >> \in Seq(Keys) /\ << >> \in Seq(Positions) /\ Len(<< >>) <= ChannelCapacity
      /\ crashes' \in 0..MaxCrashes
  <2>1. NoEntries \in Windows /\ DrawsOn(NoEntries, HistoryValues)
    BY <1>2, EmptyRepresents, EmptyDraws
  <2>2. crashes' \in 0..MaxCrashes
    BY PipelineAssumption DEF CrashRestart, Sound, TypeOK
  <2>3. << >> \in Seq(Keys) /\ << >> \in Seq(Positions) /\ Len(<< >>) <= ChannelCapacity
    BY PipelineAssumption
  <2> QED BY <2>1, <2>2, <2>3
<1>4. TypeOK'
  BY <1>1, <1>2, <1>3 DEF CrashRestart, Sound, TypeOK, Windows
<1> QED BY <1>1, <1>3, <1>4
        DEF Sound, LogReplayed, QueueLogged, DrawsOn, RowsFromBinlog

LEMMA NextSound == Sound /\ [Next]_vars => Sound'
<1> SUFFICES ASSUME Sound, [Next]_vars PROVE Sound'
  OBVIOUS
<1>1. CASE UNCHANGED vars
  <2>1. TypeOK' /\ LogReplayed' /\ RowsFromBinlog'
    BY <1>1 DEF vars, Sound, TypeOK, Positions, LogReplayed, RowsFromBinlog
  <2>2. QueueLogged'
    BY <1>1 DEF vars, Sound, QueueLogged, Logged
  <2>3. HistoryValues' = HistoryValues
    BY <1>1 DEF vars, Positions, HistoryValues
  <2>4. DrawsOn(entry, HistoryValues)'
    BY <1>1, <2>3 DEF vars, Sound, DrawsOn
  <2> QED BY <2>1, <2>2, <2>4 DEF Sound
<1> QED BY <1>1, CommitSound, ReaderSound, WriterSound, CrashRestartSound DEF Next

\* Type correctness, whatever the source and the stream do: the channel keeps to
\* its capacity, and every position a task holds is one MySQL has written.
THEOREM TypeCorrect == Spec => []TypeOK
<1>1. Sound => TypeOK
  BY DEF Sound
<1> QED BY <1>1, InitSound, NextSound, PTL DEF Spec

\* Whatever is replayed, merged, retried or dropped, a row of the DuckDB file is a
\* row MySQL held at some position: the coalescer makes up no values
\* (coalescer.rs:135-395, writer.rs:621-877).
THEOREM StoredRowsFromBinlog == Spec => []RowsFromBinlog
<1>1. Sound => RowsFromBinlog
  BY DEF Sound
<1> QED BY <1>1, InitSound, NextSound, PTL DEF Spec

-----------------------------------------------------------------------------
(* How far back a reconnect can take the store.                            *)

\* The position the process was started with is a floor under everything it
\* has stored, absorbed, queued or read.
Floor ==
  initialCp # NoCp =>
    /\ initialCp <= ckpt
    /\ winCp # NoCp => initialCp <= winCp
    /\ \A i \in 1..Len(chan) : chan[i] # SchemaEvent => initialCp < chan[i]
    /\ reader # "connecting" => initialCp <= sent

\* The history and the stored table, typed.
LEMMA TypedPositions ==
  ASSUME Sound
  PROVE  /\ Len(log) \in Nat /\ ckpt \in 0..Len(log) /\ sent \in 0..Len(log) /\ Positions = 0..Len(log)
         /\ chan \in Seq(Nat) /\ Len(chan) \in Nat /\ Absorbed \in 0..Len(log)
         /\ initialCp \in Nat \cup {NoCp} /\ winCp \in Nat \cup {NoCp} /\ NoCp \notin Nat
         /\ stored \in Table /\ Current \in Table
<1>1. Len(log) \in Nat /\ chan \in Seq(Positions) /\ Positions = 0..Len(log)
  BY DEF Sound, TypeOK, Positions
<1>2. chan \in Seq(Nat) /\ Len(chan) \in Nat
  BY <1>1, SeqWiden
<1>3. ckpt \in 0..Len(log) /\ sent \in 0..Len(log) /\ Absorbed \in 0..Len(log)
  BY <1>1 DEF Sound, TypeOK, Absorbed
<1>4. initialCp \in Nat \cup {NoCp} /\ winCp \in Nat \cup {NoCp} /\ NoCp \notin Nat
  BY <1>1, PipelineAssumption DEF Sound, TypeOK
<1>5. stored \in Table /\ Current \in Table
  BY <1>1 DEF Sound, TypeOK, Current
<1> QED BY <1>1, <1>2, <1>3, <1>4, <1>5

\* The rows in the channel are rows of complete events of the log.
LEMMA QueuedRow ==
  ASSUME Sound, NEW i \in 1..Len(chan)
  PROVE  /\ Len(log) \in Nat /\ Len(chan) \in Nat /\ chan \in Seq(Nat) /\ chan[i] \in Nat
         /\ chan[i] # SchemaEvent => chan[i] \in 1..Len(log) /\ Logged(chan[i])
BY TypedPositions DEF Sound, QueueLogged, Logged

\* The head of the channel, and what its row carries.
LEMMA HeadRow ==
  ASSUME Sound, chan # << >>, Head(chan) # SchemaEvent
  PROVE  LET h == Head(chan)
         IN  /\ 1 \in 1..Len(chan) /\ h = chan[1] /\ h \in 1..Len(log)
             /\ RowCheckpoint(h) \in h..Len(log) /\ RowCheckpoint(h) # NoCp
             /\ log[h].op \in RowOps
<1> DEFINE h == Head(chan)
<1>1. TypeOK
  BY DEF Sound
<1>2. h = chan[1] /\ 1 \in 1..Len(chan)
  BY <1>1, ChannelTail
<1>3. h \in 1..Len(log) /\ Logged(h) /\ Len(log) \in Nat
  BY <1>2, QueuedRow
<1> HIDE DEF h
<1>4. EventEnd(h) \in h..Len(log)
  BY <1>3, EventEndLast
<1>5. RowCheckpoint(h) # NoCp
  BY <1>3, <1>4, PipelineAssumption DEF RowCheckpoint
<1>6. log[h] \in LogRows
  BY <1>1, <1>3 DEF TypeOK
<1> QED BY <1>2, <1>3, <1>4, <1>5, <1>6 DEF h, LogRows, RowCheckpoint

\* Whatever the writer does, the checkpoint it leaves, in the store or in its
\* window, is the old one, the window's or that of the row it took.
LEMMA WriterCheckpoint ==
  ASSUME Writer
  PROVE  LET takes == chan # << >> /\ Head(chan) # SchemaEvent /\ chan' = Tail(chan)
         IN  /\ \/ ckpt' \in {ckpt, Absorbed}
                \/ takes /\ ckpt' = RowCheckpoint(Head(chan))
             /\ \/ winCp' \in {NoCp, winCp}
                \/ takes /\ winCp' = RowCheckpoint(Head(chan))
             /\ chan' = chan \/ (chan # << >> /\ chan' = Tail(chan))
             /\ UNCHANGED readerVars
<1>1. CASE WriterTick
  <2>1. chan' = chan /\ UNCHANGED readerVars
    BY <1>1 DEF WriterTick
  <2>2. FlushCommits(entry, order, winCp) \/ FlushFails(entry, order, winCp)
    BY <1>1 DEF WriterTick
  <2>3. ckpt' \in {ckpt, Absorbed} /\ winCp' \in {NoCp, winCp}
    BY <2>2 DEF FlushCommits, FlushFails, Halt, Absorbed, durableVars
  <2> QED BY <2>1, <2>3
<1>2. CASE WriterRow
  <2> DEFINE cp == RowCheckpoint(Head(chan))
             e == PushEntry(entry, log[Head(chan)].op)
             o == PushOrder(entry, order, log[Head(chan)].op)
  <2>1. chan # << >> /\ Head(chan) # SchemaEvent /\ chan' = Tail(chan) /\ UNCHANGED readerVars
    BY <1>2 DEF WriterRow
  <2>2. \/ FlushCommits(e, o, cp) \/ FlushFails(e, o, cp)
        \/ winCp' = cp /\ UNCHANGED durableVars
    BY <1>2 DEF WriterRow
  <2> HIDE DEF cp, e, o
  <2>3. ckpt' \in {ckpt, cp} /\ winCp' \in {NoCp, cp}
    BY <2>2 DEF FlushCommits, FlushFails, Halt, durableVars
  <2> QED BY <2>1, <2>3 DEF cp
<1>3. CASE WriterSchema
  <2>1. chan # << >> /\ chan' = Tail(chan) /\ UNCHANGED readerVars
    BY <1>3 DEF WriterSchema
  <2>2. \/ FlushCommits(entry, order, winCp) \/ FlushFailsClosed
        \/ UNCHANGED durableVars /\ UNCHANGED windowVars
    BY <1>3 DEF WriterSchema
  <2>3. ckpt' \in {ckpt, Absorbed} /\ winCp' \in {NoCp, winCp}
    BY <2>2 DEF FlushCommits, FlushFailsClosed, Halt, Absorbed, durableVars, windowVars
  <2> QED BY <2>1, <2>3
<1>4. CASE WriterClosed
  BY <1>4 DEF WriterClosed, Absorbed, durableVars
<1> QED BY <1>1, <1>2, <1>3, <1>4 DEF Writer

LEMMA InitFloor == Init => Floor
BY PipelineAssumption DEF Init, Floor

\* A step of the reader sends the row after the last it read, or starts over at
\* the floor.
LEMMA ReaderFloor ==
  ASSUME Sound, Floor, Reader \/ StreamError \/ StreamEnds
  PROVE  Floor'
<1>1. /\ UNCHANGED <<durableVars, initialCp, writerVars>>
      /\ \/ chan' = chan
         \/ chan' = Append(chan, SchemaEvent)
         \/ chan' = Append(chan, sent + 1)
  BY ReaderStep DEF Sound
<1>2. SUFFICES ASSUME initialCp # NoCp PROVE Floor'
  BY <1>1 DEF Floor
<1>3. /\ initialCp \in Nat /\ sent \in Nat /\ chan \in Seq(Nat) /\ Len(chan) \in Nat
      /\ \A i \in 1..Len(chan) : chan[i] \in Nat
  BY <1>2, TypedPositions, QueuedRow
<1>4. CASE RecoverCheckpoint
  BY <1>1, <1>2, <1>3, <1>4 DEF RecoverCheckpoint, Floor, durableVars, writerVars
<1>5. CASE ~ RecoverCheckpoint
  <2>1. reader # "connecting" /\ initialCp <= sent
    BY <1>2, <1>5 DEF Reader, SyncSchema, ReadRow, SkipEvent, StreamError, StreamEnds, Floor
  <2>2. sent' \in Nat /\ sent <= sent'
    <3>1. CASE SkipEvent
      <4>1. EventEnd(sent + 1) \in (sent + 1)..Len(log) /\ Len(log) \in Nat
        BY <1>3, <3>1, EventEndLast, TypedPositions DEF SkipEvent, Logged
      <4> QED BY <1>3, <3>1, <4>1 DEF SkipEvent
    <3>2. CASE ~ SkipEvent
      <4>1. sent' \in {sent, sent + 1}
        BY <1>5, <3>2 DEF Reader, SyncSchema, ReadRow, SendFails, StreamError, StreamEnds
      <4> QED BY <1>3, <4>1
    <3> QED BY <3>1, <3>2
  <2>3. ASSUME NEW i \in 1..Len(chan'), chan'[i] # SchemaEvent
        PROVE  initialCp < chan'[i]
    <3>1. ASSUME NEW v \in Nat, chan' = Append(chan, v), v # SchemaEvent => initialCp < v
          PROVE  initialCp < chan'[i]
      <4>1. IF i = Len(chan) + 1 THEN chan'[i] = v ELSE i \in 1..Len(chan) /\ chan'[i] = chan[i]
        BY <1>3, <3>1, AppendElements
      <4> QED BY <1>2, <2>3, <3>1, <4>1 DEF Floor
    <3>2. SchemaEvent \in Nat /\ sent + 1 \in Nat /\ initialCp < sent + 1
      BY <1>3, <2>1 DEF SchemaEvent
    <3> QED BY <1>1, <1>2, <2>3, <3>1, <3>2 DEF Floor
  <2> QED BY <1>1, <1>2, <1>3, <2>1, <2>2, <2>3 DEF Floor, durableVars, writerVars
<1> QED BY <1>4, <1>5

LEMMA WriterFloor ==
  ASSUME Sound, Floor, Writer
  PROVE  Floor'
<1>1. initialCp' = initialCp /\ reader' = reader /\ sent' = sent
  BY WriterCheckpoint DEF readerVars
<1>2. SUFFICES ASSUME initialCp # NoCp PROVE Floor'
  BY <1>1 DEF Floor
<1>3. /\ initialCp \in Nat /\ ckpt \in Nat /\ winCp \in Nat \cup {NoCp} /\ Len(log) \in Nat
      /\ initialCp <= ckpt /\ initialCp <= Absorbed
  BY <1>2, TypedPositions DEF Floor, Absorbed
<1>4. ASSUME chan # << >>, Head(chan) # SchemaEvent
      PROVE  initialCp <= RowCheckpoint(Head(chan))
  <2>1. /\ 1 \in 1..Len(chan) /\ Head(chan) = chan[1] /\ Head(chan) \in 1..Len(log)
        /\ RowCheckpoint(Head(chan)) \in Head(chan)..Len(log)
    BY <1>4, HeadRow
  <2>2. initialCp < Head(chan)
    BY <1>2, <1>4, <2>1 DEF Floor
  <2> QED BY <1>3, <2>1, <2>2
<1>5. initialCp <= ckpt' /\ (winCp' # NoCp => initialCp <= winCp')
  BY <1>2, <1>3, <1>4, WriterCheckpoint DEF Floor
<1>6. \A i \in 1..Len(chan') : chan'[i] # SchemaEvent => initialCp < chan'[i]
  <2>1. CASE chan # << >> /\ chan' = Tail(chan)
    <3>1. /\ Len(chan) \in Nat /\ Len(chan') = Len(chan) - 1
          /\ \A i \in 1..(Len(chan) - 1) : chan'[i] = chan[i + 1]
      <4>1. TypeOK
        BY DEF Sound
      <4> QED BY <2>1, <4>1, ChannelTail
    <3>2. \A i \in 1..(Len(chan) - 1) : i + 1 \in 1..Len(chan)
      BY <3>1
    <3> QED BY <1>2, <3>1, <3>2 DEF Floor
  <2> QED BY <1>2, <2>1, WriterCheckpoint DEF Floor
<1> QED BY <1>1, <1>2, <1>5, <1>6 DEF Floor

LEMMA NextFloor == Sound /\ Floor /\ [Next]_vars => Floor'
<1> SUFFICES ASSUME Sound, Floor, [Next]_vars PROVE Floor'
  OBVIOUS
<1>1. CASE Commit \/ UNCHANGED vars
  BY <1>1 DEF Commit, vars, Floor, durableVars, readerVars, writerVars
<1>2. CASE CrashRestart
  <2>1. /\ ckpt' = ckpt /\ initialCp' = ckpt /\ winCp' = NoCp /\ chan' = << >>
        /\ reader' = "connecting"
    BY <1>2 DEF CrashRestart, durableVars
  <2>2. ckpt \in Nat /\ Len(chan') = 0
    BY <2>1, TypedPositions
  <2> QED BY <2>1, <2>2 DEF Floor
<1> QED BY <1>1, <1>2, ReaderFloor, WriterFloor DEF Next

\* A stream that reconnects starts over at the checkpoint the process was started
\* with, and rows already stored are stored again, but nothing takes the store
\* behind that checkpoint: not what a failed session left in the channel, not a
\* window kept through failed flushes (live.rs:190-196).
THEOREM RollbackAlwaysBounded == Spec => []RollbackBounded
<1>1. Floor => RollbackBounded
  BY DEF Floor, RollbackBounded
<1> QED BY <1>1, InitSound, NextSound, InitFloor, NextFloor, PTL DEF Spec

-----------------------------------------------------------------------------
(* Reconnects: rows are sent again that are stored or queued already.      *)

\* What replay needs of the source: events of one row with table maps of their
\* own, and inserts and updates in place only.  The window may be of any size,
\* flushes may fail and streams be broken and taken up again, any number of times.
UpsertSource ==
  /\ MaxEventRows = 1
  /\ SplitStatements = FALSE
  /\ Vacating = FALSE
  /\ MaxSchemaErrors = 0

EventsOfOne ==
  \A i \in 1..Len(log) : log[i].last /\ log[i].own /\ Vacated(log[i].op) = {}

TouchedAfter(i, k) == \E m \in (i + 1)..Len(log) : Touches(m, k)

\* A key that has changed since position i is touched by a later row, ...
LogTells ==
  \A i \in Positions : \A k \in Keys : hist[i][k] # Current[k] => TouchedAfter(i, k)

\* ... so is a key whose stored value is not the one MySQL holds now, ...
Repairable ==
  \A k \in Keys : stored[k] # Current[k] => TouchedAfter(ckpt, k)

\* ... and a key whose value is not after the window has been flushed.
PendingRepairable ==
  \A k \in Keys :
    FlushResult(stored, entry, order)[k] # Current[k] => TouchedAfter(Absorbed, k)

\* Once the first n events of a queue have been absorbed, the last row absorbed,
\* c before them, is p or a later one.
Reaches(q, c, n, p) ==
  \/ p <= c /\ \A j \in 1..n : q[j] = SchemaEvent
  \/ \E m \in 1..n : /\ q[m] # SchemaEvent /\ p <= q[m]
                     /\ \A j \in (m + 1)..n : q[j] = SchemaEvent

\* No row is absorbed unless the one before it was the last to be, or a later one.
NoGaps ==
  \A i \in 1..Len(chan) :
    chan[i] # SchemaEvent => Reaches(chan, Absorbed, i - 1, chan[i] - 1)

ReadAhead == Reaches(chan, Absorbed, Len(chan), sent)

ReplayInv ==
  /\ Sound
  /\ Floor /\ initialCp # NoCp
  /\ LayoutFirst
  /\ EventsOfOne
  /\ Upserts(entry, order)
  /\ LogTells
  /\ Repairable
  /\ PendingRepairable
  /\ writer = "running" => NoGaps /\ ReadAhead

\* The head of a queue is stored.
LEMMA ReachesTail ==
  ASSUME NEW q \in Seq(Nat), q # << >>, NEW c \in Nat, NEW n \in 1..Len(q), NEW p \in Int,
         Reaches(q, c, n, p)
  PROVE  Reaches(Tail(q), IF Head(q) = SchemaEvent THEN c ELSE Head(q), n - 1, p)
<1> DEFINE t == Tail(q)
           d == IF Head(q) = SchemaEvent THEN c ELSE Head(q)
<1>1. /\ Head(q) = q[1] /\ Len(q) \in Nat
      /\ \A i \in 1..(Len(q) - 1) : t[i] = q[i + 1]
  OBVIOUS
<1> HIDE DEF t
<1>2. \A i \in 1..(n - 1) : i + 1 \in 2..n /\ t[i] = q[i + 1]
  BY <1>1
<1>3. CASE p <= c /\ \A j \in 1..n : q[j] = SchemaEvent
  <2>1. \A j \in 1..(n - 1) : t[j] = SchemaEvent
    BY <1>2, <1>3, SMTT(30)
  <2>2. Head(q) = SchemaEvent
    BY <1>1, <1>3
  <2>3. Reaches(t, c, n - 1, p)
    BY <1>3, <2>1 DEF Reaches
  <2> QED BY <2>2, <2>3 DEF t
<1>4. ASSUME NEW m \in 1..n, q[m] # SchemaEvent, p <= q[m],
             \A j \in (m + 1)..n : q[j] = SchemaEvent
      PROVE  Reaches(t, d, n - 1, p)
  <2>1. CASE m = 1
    <3>1. \A j \in 1..(n - 1) : t[j] = SchemaEvent
      BY <1>2, <1>4, <2>1
    <3>2. d = q[1] /\ p <= d
      BY <1>1, <1>4, <2>1
    <3> QED BY <3>1, <3>2 DEF Reaches
  <2>2. CASE m # 1
    <3>1. m - 1 \in 1..(n - 1) /\ t[m - 1] = q[m]
      <4>1. m - 1 \in 1..(n - 1) /\ (m - 1) + 1 = m
        BY <2>2
      <4> QED BY <1>2, <4>1
    <3>2. \A j \in ((m - 1) + 1)..(n - 1) : t[j] = SchemaEvent
      <4>1. \A j \in ((m - 1) + 1)..(n - 1) : j + 1 \in (m + 1)..n /\ j \in 1..(n - 1)
        BY <2>2
      <4> QED BY <1>2, <1>4, <4>1
    <3> QED BY <1>4, <3>1, <3>2 DEF Reaches
  <2> QED BY <2>1, <2>2
<1> QED BY <1>3, <1>4 DEF Reaches, t

\* An event is added to a queue.
LEMMA ReachesAppend ==
  ASSUME NEW q \in Seq(Nat), NEW v \in Nat, NEW c \in Nat, NEW p \in Int
  PROVE  /\ \A n \in 0..Len(q) : Reaches(q, c, n, p) => Reaches(Append(q, v), c, n, p)
         /\ v = SchemaEvent /\ Reaches(q, c, Len(q), p) =>
              Reaches(Append(q, v), c, Len(q) + 1, p)
         /\ v # SchemaEvent => Reaches(Append(q, v), c, Len(q) + 1, v)
<1> DEFINE a == Append(q, v)
           l == Len(q)
<1>1. l \in Nat /\ a[l + 1] = v /\ \A i \in 1..l : a[i] = q[i]
  OBVIOUS
<1> HIDE DEF a, l
<1>2. ASSUME NEW n \in 0..l, Reaches(q, c, n, p)
      PROVE  Reaches(a, c, n, p)
  <2>1. \A j \in 1..n : a[j] = q[j]
    BY <1>1
  <2>2. \A m \in 1..n : \A j \in (m + 1)..n : j \in 1..n
    BY <1>1
  <2> QED BY <1>2, <2>1, <2>2 DEF Reaches
<1>3. ASSUME v = SchemaEvent, Reaches(q, c, l, p)
      PROVE  Reaches(a, c, l + 1, p)
  <2>1. Reaches(a, c, l, p)
    BY <1>1, <1>2, <1>3
  <2>2. \A j \in 1..(l + 1) : j \in 1..l \/ a[j] = SchemaEvent
    BY <1>1, <1>3
  <2>3. \A m \in 1..l : m \in 1..(l + 1) /\ \A j \in (m + 1)..(l + 1) : j \in 1..(l + 1)
                        /\ (j \in (m + 1)..l \/ a[j] = SchemaEvent)
    BY <1>1, <2>2
  <2> QED BY <2>1, <2>2, <2>3 DEF Reaches
<1>4. ASSUME v # SchemaEvent
      PROVE  Reaches(a, c, l + 1, v)
  <2>1. l + 1 \in 1..(l + 1) /\ v <= v /\ \A j \in ((l + 1) + 1)..(l + 1) : FALSE
    BY <1>1
  <2> QED BY <1>1, <1>4, <2>1 DEF Reaches
<1> QED BY <1>2, <1>3, <1>4 DEF a, l

LEMMA InitReplay ==
  ASSUME Init, initialCp # NoCp
  PROVE  ReplayInv
<1>1. /\ Sound /\ Floor /\ log = << >> /\ Len(log) = 0 /\ chan = << >> /\ Len(chan) = 0
      /\ entry = NoEntries /\ order = << >> /\ Absorbed = 0
  BY InitSound, InitFloor DEF Init, BinlogInit, Absorbed
<1>2. EventsOfOne /\ NoGaps /\ LayoutFirst /\ Upserts(entry, order)
  BY <1>1, EmptyUpserts DEF Init, EventsOfOne, NoGaps, LayoutFirst
<1>3. LogTells /\ Repairable
  BY <1>1 DEF Init, LogTells, Repairable, Current, Positions
<1>4. PendingRepairable
  <2>1. \A k \in Keys : FlushResult(stored, entry, order)[k] = stored[k]
    BY <1>1, EmptyFlush
  <2> QED BY <1>1, <2>1 DEF Init, PendingRepairable, Current
<1>5. ReadAhead
  BY <1>1 DEF Init, ReadAhead, Reaches
<1> QED BY <1>1, <1>2, <1>3, <1>4, <1>5 DEF ReplayInv

LEMMA CommitReplay ==
  ASSUME UpsertSource, ReplayInv, Commit
  PROVE  ReplayInv'
<1> DEFINE n == Len(log)
<1>1. PICK op \in RowOps, last \in BOOLEAN, own \in BOOLEAN : LogRow(op, last, own)
  BY DEF Commit
<1>2. Sound /\ TypeOK /\ Sound' /\ Floor' /\ LayoutFirst'
  BY NextSound, NextFloor, LayoutKept DEF ReplayInv, Sound, Next, UpsertSource
<1>3. UNCHANGED <<stored, ckpt, sent, initialCp, chan, writer, entry, order, winCp>>
  BY DEF Commit, durableVars, readerVars, writerVars
<1>4. /\ n \in Nat /\ Len(log') = n + 1
      /\ log'[n + 1] = [op |-> op, last |-> last, own |-> own]
      /\ \A i \in 1..n : log'[i] = log[i]
      /\ hist'[n + 1] = ApplyOp(hist[n], op)
      /\ \A i \in 0..n : hist'[i] = hist[i]
  BY <1>1, <1>2, LogRowFrame
<1>5. last /\ own /\ Vacated(op) = {}
  <2>1. last /\ own
    BY <1>1, <1>4, LoggedEvent DEF UpsertSource, ReplayInv, EventsOfOne
  <2> QED BY <1>1, <2>1 DEF LogRow, UpsertSource
<1> HIDE DEF n
<1>6. log'[n + 1].last = last /\ log'[n + 1].own = own /\ log'[n + 1].op = op
  BY <1>4
<1>7. EventsOfOne'
  <2>1. \A i \in 1..(n + 1) : i = n + 1 \/ i \in 1..n
    BY <1>4
  <2> QED BY <1>4, <1>5, <1>6, <2>1 DEF ReplayInv, EventsOfOne, n
<1>8. ASSUME NEW i \in 0..n, NEW k \in Keys, NEW v, v # Current'[k],
             v # Current[k] => TouchedAfter(i, k)
      PROVE  TouchedAfter(i, k)'
  <2>1. CASE k \in {op.key, op.before}
    <3>1. n + 1 \in (i + 1)..Len(log') /\ k \in {log'[n + 1].op.key, log'[n + 1].op.before}
      BY <1>4, <1>6, <2>1
    <3> QED BY <3>1 DEF TouchedAfter, Touches
  <2>2. CASE k \notin {op.key, op.before}
    <3>1. Current'[k] = Current[k]
      BY <1>4, <2>2 DEF Current, ApplyOp, n
    <3>2. PICK m \in (i + 1)..n : Touches(m, k)
      BY <1>8, <3>1 DEF TouchedAfter, n
    <3>3. m \in (i + 1)..Len(log') /\ log'[m] = log[m]
      BY <1>4
    <3> QED BY <3>2, <3>3 DEF TouchedAfter, Touches
  <2> QED BY <2>1, <2>2
<1>9. Repairable' /\ PendingRepairable'
  <2>1. ckpt \in 0..n /\ Absorbed \in 0..n /\ Absorbed' = Absorbed
    BY <1>2, <1>3, TypedPositions DEF n, Absorbed
  <2>2. ASSUME NEW i \in 0..n, NEW k \in Keys, NEW v, v # Current'[k],
               v # Current[k] => TouchedAfter(i, k)
        PROVE  TouchedAfter(i, k)'
    BY <1>8, <2>2
  <2>3. ASSUME NEW k \in Keys
        PROVE  /\ stored[k] # Current[k] => TouchedAfter(ckpt, k)
               /\ FlushResult(stored, entry, order)[k] # Current[k] => TouchedAfter(Absorbed, k)
    BY DEF ReplayInv, Repairable, PendingRepairable
  <2>4. ASSUME NEW c \in 0..n, NEW a \in 0..n, c = ckpt, a = Absorbed, NEW k \in Keys
        PROVE  /\ stored[k] # Current'[k] => TouchedAfter(c, k)'
               /\ FlushResult(stored, entry, order)[k] # Current'[k] => TouchedAfter(a, k)'
    BY <2>2, <2>3, <2>4
  <2> QED BY <1>3, <2>1, <2>4 DEF Repairable, PendingRepairable
<1>10. LogTells'
  <2>1. ASSUME NEW i \in 0..n, NEW k \in Keys, hist'[i][k] # Current'[k]
        PROVE  TouchedAfter(i, k)'
    <3>1. hist'[i] = hist[i] /\ i \in Positions
      BY <1>4 DEF Positions, n
    <3> QED BY <1>8, <2>1, <3>1 DEF ReplayInv, LogTells
  <2>2. hist'[n + 1] = Current'
    BY <1>4 DEF Current
  <2>3. \A i \in Positions' : i \in 0..n \/ i = n + 1
    BY <1>4 DEF Positions
  <2> QED BY <2>1, <2>2, <2>3 DEF LogTells
<1>11. Upserts(entry, order)' /\ (writer' = "running" => NoGaps' /\ ReadAhead')
  BY <1>3 DEF ReplayInv, NoGaps, ReadAhead, Absorbed
<1> QED BY <1>2, <1>3, <1>7, <1>9, <1>10, <1>11 DEF ReplayInv

\* What a step that leaves the log, the store and the window alone keeps.
LEMMA WindowUnchanged ==
  ASSUME ReplayInv, UNCHANGED <<binlogVars, durableVars, windowVars>>
  PROVE  /\ EventsOfOne' /\ LogTells' /\ Repairable' /\ PendingRepairable'
         /\ Upserts(entry, order)' /\ Absorbed' = Absorbed
<1>1. Absorbed' = Absorbed /\ Current' = Current /\ Positions' = Positions
  BY DEF Absorbed, Current, Positions, binlogVars, durableVars, windowVars
<1>2. \A i, k : TouchedAfter(i, k)' <=> TouchedAfter(i, k)
  BY DEF TouchedAfter, Touches, binlogVars
<1> QED BY <1>1, <1>2 DEF ReplayInv, EventsOfOne, LogTells, Repairable, PendingRepairable,
                          binlogVars, durableVars, windowVars

\* A reader that connects starts behind what is absorbed or queued: at the floor.
LEMMA RecoverReplay ==
  ASSUME ReplayInv, writer = "running", RecoverCheckpoint
  PROVE  NoGaps' /\ ReadAhead'
<1>1. chan' = chan /\ Absorbed' = Absorbed /\ sent' = initialCp
  BY DEF RecoverCheckpoint, ReplayInv, Absorbed, durableVars, writerVars
<1>2. NoGaps'
  BY <1>1 DEF ReplayInv, NoGaps
<1>3. /\ Absorbed \in Nat /\ initialCp \in Nat /\ initialCp <= Absorbed
      /\ \A i \in 1..Len(chan) : chan[i] # SchemaEvent => chan[i] \in Nat /\ initialCp < chan[i]
  BY TypedPositions, QueuedRow DEF ReplayInv, Floor, Absorbed
<1>4. ReadAhead'
  <2>1. CASE \A j \in 1..Len(chan) : chan[j] = SchemaEvent
    BY <1>1, <1>3, <2>1 DEF ReadAhead, Reaches
  <2>2. ASSUME NEW m \in 1..Len(chan), chan[m] # SchemaEvent,
               \A j \in (m + 1)..Len(chan) : chan[j] = SchemaEvent
        PROVE  ReadAhead'
    <3>1. sent' <= chan[m]
      BY <1>1, <1>3, <2>2
    <3> QED BY <1>1, <2>2, <3>1 DEF ReadAhead, Reaches
  <2> QED BY <2>1, <2>2 DEF ReplayInv, ReadAhead, Reaches
<1> QED BY <1>2, <1>4

\* An event is sent.
LEMMA SendReplay ==
  ASSUME ReplayInv, writer = "running", Absorbed' = Absorbed,
         NEW v \in Nat, chan' = Append(chan, v),
         sent' = IF v = SchemaEvent THEN sent ELSE v,
         v # SchemaEvent => v = sent + 1
  PROVE  NoGaps' /\ ReadAhead'
<1> DEFINE l == Len(chan)
<1>1. /\ Absorbed \in Nat /\ sent \in Nat /\ chan \in Seq(Nat) /\ l \in Nat
      /\ \A i \in 1..l : chan[i] \in Nat
  BY TypedPositions, QueuedRow DEF ReplayInv
<1>2. /\ Len(chan') = l + 1 /\ chan'[l + 1] = v
      /\ \A i \in 1..l : chan'[i] = chan[i]
      /\ \A i \in 1..(l + 1) : i \in 1..l \/ i = l + 1
  BY <1>1
<1>4. \A p \in Int, i \in 0..l : Reaches(chan, Absorbed, i, p) => Reaches(chan', Absorbed, i, p)
  BY <1>1, ReachesAppend
<1>5. Reaches(chan, Absorbed, l, sent)
  BY DEF ReplayInv, ReadAhead
<1> HIDE DEF l
<1>6. NoGaps'
  <2>1. ASSUME NEW i \in 1..l, chan'[i] # SchemaEvent
        PROVE  Reaches(chan', Absorbed, i - 1, chan'[i] - 1)
    <3>1. Reaches(chan, Absorbed, i - 1, chan[i] - 1)
      BY <1>2, <2>1 DEF ReplayInv, NoGaps, l
    <3>2. i - 1 \in 0..l /\ chan[i] - 1 \in Int
      BY <1>1
    <3> QED BY <1>2, <1>4, <3>1, <3>2
  <2>2. v # SchemaEvent => Reaches(chan', Absorbed, (l + 1) - 1, v - 1)
    <3>1. (l + 1) - 1 = l /\ l \in 0..l /\ sent \in Int /\ (v = sent + 1 => v - 1 = sent)
      BY <1>1
    <3> QED BY <1>4, <1>5, <3>1
  <2> QED BY <1>2, <2>1, <2>2 DEF NoGaps
<1>7. ReadAhead'
  <2>1. Reaches(chan', Absorbed, l + 1, sent')
    <3>1. sent \in Int
      BY <1>1
    <3> QED BY <1>1, <1>5, <3>1, ReachesAppend DEF l
  <2> QED BY <1>2, <2>1 DEF ReadAhead
<1> QED BY <1>6, <1>7

LEMMA ReaderReplay ==
  ASSUME UpsertSource, ReplayInv, Reader \/ StreamError \/ StreamEnds
  PROVE  ReplayInv'
<1>1. Sound /\ TypeOK /\ Sound' /\ Floor' /\ LayoutFirst'
  BY NextSound, NextFloor, LayoutKept DEF ReplayInv, Sound, Next, UpsertSource
<1>2. UNCHANGED <<binlogVars, durableVars, windowVars>> /\ initialCp' = initialCp /\ writer' = writer
  BY <1>1, ReaderStep DEF windowVars, writerVars
<1>3. /\ EventsOfOne' /\ LogTells' /\ Repairable' /\ PendingRepairable'
      /\ Upserts(entry, order)' /\ Absorbed' = Absorbed
  BY <1>2, WindowUnchanged
<1>4. SUFFICES ASSUME writer = "running" PROVE NoGaps' /\ ReadAhead'
  BY <1>1, <1>2, <1>3 DEF ReplayInv
<1>5. sent + 1 \in Nat /\ sent + 1 # SchemaEvent /\ SchemaEvent \in Nat
  BY <1>1, TypedPositions DEF SchemaEvent
<1>6. CASE RecoverCheckpoint
  BY <1>4, <1>6, RecoverReplay
<1>7. CASE SyncSchema
  <2>1. chan' = Append(chan, SchemaEvent) /\ sent' = sent
    BY <1>4, <1>7 DEF SyncSchema, Send, SendFails
  <2> QED BY <1>3, <1>4, <1>5, <2>1, SendReplay
<1>8. CASE ReadRow
  <2>1. chan' = Append(chan, sent + 1) /\ sent' = sent + 1
    BY <1>4, <1>8 DEF ReadRow, Send, SendFails
  <2> QED BY <1>3, <1>4, <1>5, <2>1, SendReplay
<1>9. CASE SkipEvent
  BY <1>9 DEF SkipEvent, Logged, ReplayInv, EventsOfOne
<1>10. CASE StreamError \/ StreamEnds
  <2>1. chan' = chan /\ sent' = sent
    BY <1>10 DEF StreamError, StreamEnds
  <2> QED BY <1>3, <1>4, <2>1 DEF ReplayInv, NoGaps, ReadAhead
<1> QED BY <1>6, <1>7, <1>8, <1>9, <1>10 DEF Reader

\* The head of the channel is taken: after a row, that row is the last one
\* absorbed.
LEMMA TakeReplay ==
  ASSUME ReplayInv, writer = "running", chan # << >>, chan' = Tail(chan), sent' = sent,
         Absorbed' = IF Head(chan) = SchemaEvent THEN Absorbed ELSE Head(chan)
  PROVE  NoGaps' /\ ReadAhead'
<1> DEFINE l == Len(chan)
<1>1. /\ Absorbed \in Nat /\ sent \in Nat /\ chan \in Seq(Nat) /\ l \in Nat
      /\ \A i \in 1..l : chan[i] \in Nat
  BY TypedPositions, QueuedRow DEF ReplayInv
<1>2. /\ Head(chan) = chan[1] /\ Len(chan') = l - 1 /\ 1 \in 1..l
      /\ \A i \in 1..(l - 1) : chan'[i] = chan[i + 1]
  BY <1>1
<1>3. \A i \in 1..(l - 1) : i + 1 \in 1..l
  BY <1>1
<1>4. \A n \in 1..l, p \in Int : Reaches(chan, Absorbed, n, p) => Reaches(chan', Absorbed', n - 1, p)
  BY <1>1, ReachesTail
<1> HIDE DEF l
<1>5. NoGaps'
  <2>1. ASSUME NEW i \in 1..(l - 1), chan'[i] # SchemaEvent
        PROVE  Reaches(chan', Absorbed', i - 1, chan'[i] - 1)
    <3>1. /\ i \in 1..l /\ i + 1 \in 1..l /\ (i + 1) - 1 = i /\ chan'[i] = chan[i + 1]
          /\ chan[i + 1] - 1 \in Int
      BY <1>1, <1>2, <1>3
    <3>2. Reaches(chan, Absorbed, i, chan[i + 1] - 1)
      BY <2>1, <3>1 DEF ReplayInv, NoGaps, l
    <3> QED BY <1>4, <3>1, <3>2
  <2> QED BY <1>2, <2>1 DEF NoGaps
<1>6. ReadAhead'
  <2>1. Reaches(chan, Absorbed, l, sent) /\ l \in 1..l /\ sent \in Int
    BY <1>1, <1>2 DEF ReplayInv, ReadAhead, l
  <2> QED BY <1>2, <1>4, <2>1 DEF ReadAhead
<1> QED BY <1>5, <1>6

\* What a step of the writer leaves, when it holds the window e, o whose last row
\* is a: it keeps it, commits it or halts.
LEMMA WindowReplay ==
  ASSUME ReplayInv, UNCHANGED binlogVars, writer = "running",
         NEW e, NEW o, NEW cp, NEW a, a = IF cp = NoCp THEN ckpt ELSE cp,
         Upserts(e, o),
         \A k \in Keys : FlushResult(stored, e, o)[k] # Current[k] => TouchedAfter(a, k),
         \/ layout /\ FlushCommits(e, o, cp)
         \/ FlushFails(e, o, cp)
         \/ FlushFailsClosed
         \/ /\ entry' = e /\ order' = o /\ winCp' = cp
            /\ UNCHANGED <<durableVars, writer, fails, flushErrors>>
  PROVE  /\ Upserts(entry, order)' /\ Repairable' /\ PendingRepairable'
         /\ writer' = "running" => Absorbed' = a
<1>1. Current' = Current /\ \A i, k : TouchedAfter(i, k)' <=> TouchedAfter(i, k)
  BY DEF Current, TouchedAfter, Touches, binlogVars
<1>2. \A t : \A k \in Keys : FlushResult(t, NoEntries, << >>)[k] = t[k]
  BY EmptyFlush
<1>3. Repairable
  BY DEF ReplayInv
<1>4. CASE layout /\ FlushCommits(e, o, cp)
  <2>1. /\ stored' = FlushResult(stored, e, o) /\ ckpt' = a /\ Absorbed' = a
        /\ entry' = NoEntries /\ order' = << >>
    BY <1>4 DEF FlushCommits, Flushed, Absorbed
  <2> HIDE DEF FlushResult
  <2> QED BY <1>1, <1>2, <2>1, EmptyUpserts DEF Repairable, PendingRepairable
<1>5. CASE \/ FlushFails(e, o, cp) /\ writer' # "halted"
           \/ /\ entry' = e /\ order' = o /\ winCp' = cp
              /\ UNCHANGED <<durableVars, writer, fails, flushErrors>>
  <2>1. /\ entry' = e /\ order' = o /\ winCp' = cp /\ stored' = stored /\ ckpt' = ckpt
    BY <1>5 DEF FlushFails, Halt, durableVars
  <2>2. Absorbed' = a
    BY <2>1 DEF Absorbed
  <2> QED BY <1>1, <1>3, <2>1, <2>2 DEF Repairable, PendingRepairable
<1>6. CASE (FlushFails(e, o, cp) /\ writer' = "halted") \/ FlushFailsClosed
  <2>1. /\ entry' = NoEntries /\ order' = << >> /\ stored' = stored /\ ckpt' = ckpt
        /\ writer' = "halted" /\ winCp' = NoCp
    BY <1>6 DEF FlushFails, FlushFailsClosed, Halt, durableVars
  <2>2. Absorbed' = ckpt
    BY <2>1 DEF Absorbed
  <2> QED BY <1>1, <1>2, <1>3, <2>1, <2>2, EmptyUpserts DEF Repairable, PendingRepairable
<1> QED BY <1>4, <1>5, <1>6

\* A row is taken: the window executes it on top of what it held, and every key it
\* leaves different from the source is touched by a later row.
LEMMA RowAbsorbed ==
  ASSUME ReplayInv, WriterRow
  PROVE  LET h == Head(chan)
             e == PushEntry(entry, log[h].op)
             o == PushOrder(entry, order, log[h].op)
         IN  /\ h \in 1..Len(log) /\ RowCheckpoint(h) = h /\ h # NoCp
             /\ Upserts(e, o)
             /\ \A k \in Keys : FlushResult(stored, e, o)[k] # Current[k] => TouchedAfter(h, k)
<1> DEFINE h == Head(chan)
           op == log[h].op
           e == PushEntry(entry, op)
           o == PushOrder(entry, order, op)
           P == FlushResult(stored, entry, order)
<1>1. Sound /\ writer = "running" /\ chan # << >> /\ h # SchemaEvent
  BY DEF ReplayInv, WriterRow
<1>2. h = chan[1] /\ 1 \in 1..Len(chan) /\ h \in 1..Len(log) /\ op \in RowOps
  BY <1>1, HeadRow
<1>3. /\ Len(log) \in Nat /\ Absorbed \in 0..Len(log) /\ Positions = 0..Len(log)
      /\ NoCp \notin Nat /\ stored \in Table
      /\ entry \in Windows /\ order \in Seq(Keys)
  BY <1>1, TypedPositions DEF Sound, TypeOK, Windows
<1>4. h <= Absorbed + 1
  <2>1. Reaches(chan, Absorbed, 1 - 1, chan[1] - 1) /\ 1 - 1 = 0
    BY <1>1, <1>2 DEF ReplayInv, NoGaps
  <2> HIDE DEF h
  <2> QED BY <1>2, <1>3, <2>1 DEF Reaches
<1> HIDE DEF h
<1>5. RowCheckpoint(h) = h /\ Vacated(op) = {} /\ h # NoCp
  <2>1. log[h].last /\ Vacated(log[h].op) = {}
    BY <1>2 DEF ReplayInv, EventsOfOne
  <2> QED BY <1>2, <1>3, <2>1, EventEndSelf DEF RowCheckpoint
<1>6. h \in Positions /\ hist[h] = ApplyOp(hist[h - 1], op)
  BY <1>1, <1>2, <1>3 DEF Sound, LogReplayed
<1>7. Upserts(e, o) /\ FlushResult(stored, e, o) = ApplyOp(P, op)
  <2> HIDE DEF op
  <2>1. Upserts(entry, order)
    BY DEF ReplayInv
  <2> QED BY <1>2, <1>3, <1>5, <2>1, UpsertPush
<1> HIDE DEF e, o, P
<1>8. ASSUME NEW k \in Keys, FlushResult(stored, e, o)[k] # Current[k]
      PROVE  TouchedAfter(h, k)
  <2>1. CASE k \in {op.key, op.before}
    <3>1. FlushResult(stored, e, o)[k] = hist[h][k]
      BY <1>6, <1>7, <2>1 DEF ApplyOp
    <3> QED BY <1>6, <1>8, <3>1 DEF ReplayInv, LogTells
  <2>2. CASE k \notin {op.key, op.before}
    <3>1. FlushResult(stored, e, o)[k] = P[k]
      BY <1>7, <2>2 DEF ApplyOp
    <3>2. PICK m \in (Absorbed + 1)..Len(log) : Touches(m, k)
      BY <1>8, <3>1 DEF ReplayInv, PendingRepairable, TouchedAfter, P
    <3>3. m # h
      BY <2>2, <3>2 DEF Touches
    <3>4. m \in (h + 1)..Len(log)
      BY <1>2, <1>3, <1>4, <3>3
    <3> QED BY <3>2, <3>4 DEF TouchedAfter
  <2> QED BY <2>1, <2>2
<1> QED BY <1>2, <1>5, <1>7, <1>8 DEF h, e, o

LEMMA WriterReplay ==
  ASSUME UpsertSource, ReplayInv, Writer
  PROVE  ReplayInv'
<1>1. Sound /\ TypeOK /\ LayoutFirst /\ Sound' /\ Floor' /\ LayoutFirst'
  BY NextSound, NextFloor, LayoutKept DEF ReplayInv, Sound, Next, UpsertSource
<1>2. UNCHANGED binlogVars /\ initialCp' = initialCp /\ sent' = sent /\ writer = "running"
  BY DEF Writer, WriterTick, WriterRow, WriterSchema, WriterClosed, readerVars
<1>3. EventsOfOne' /\ LogTells'
  BY <1>2 DEF ReplayInv, EventsOfOne, LogTells, TouchedAfter, Touches, Current, Positions, binlogVars
<1>4. SUFFICES /\ Upserts(entry, order)' /\ Repairable' /\ PendingRepairable'
               /\ writer' = "running" => NoGaps' /\ ReadAhead'
  BY <1>1, <1>2, <1>3 DEF ReplayInv
<1>5. /\ Upserts(entry, order)
      /\ Absorbed = IF winCp = NoCp THEN ckpt ELSE winCp
      /\ \A k \in Keys : FlushResult(stored, entry, order)[k] # Current[k] => TouchedAfter(Absorbed, k)
  BY DEF ReplayInv, PendingRepairable, Absorbed
<1>6. CASE WriterTick
  <2>1. /\ chan' = chan
        /\ (layout /\ FlushCommits(entry, order, winCp)) \/ FlushFails(entry, order, winCp)
    BY <1>1, <1>6, RowsHaveLayout DEF WriterTick
  <2>2. /\ Upserts(entry, order)' /\ Repairable' /\ PendingRepairable'
        /\ writer' = "running" => Absorbed' = Absorbed
    BY <1>2, <1>5, <2>1, WindowReplay
  <2> QED BY <1>2, <2>1, <2>2 DEF ReplayInv, NoGaps, ReadAhead
<1>7. CASE WriterRow
  <2> DEFINE h == Head(chan)
             e == PushEntry(entry, log[h].op)
             o == PushOrder(entry, order, log[h].op)
  <2>1. /\ RowCheckpoint(h) = h /\ h # NoCp /\ Upserts(e, o)
        /\ \A k \in Keys : FlushResult(stored, e, o)[k] # Current[k] => TouchedAfter(h, k)
    BY <1>7, RowAbsorbed
  <2>2. chan # << >> /\ chan' = Tail(chan) /\ h # SchemaEvent
    BY <1>7 DEF WriterRow
  <2>3. layout
    BY <1>1, <2>2, ChannelTail, RowsHaveLayout
  <2>4. \/ FlushCommits(e, o, RowCheckpoint(h)) \/ FlushFails(e, o, RowCheckpoint(h))
        \/ /\ entry' = e /\ order' = o /\ winCp' = RowCheckpoint(h)
           /\ UNCHANGED <<durableVars, writer, fails, flushErrors>>
    BY <1>7 DEF WriterRow
  <2> HIDE DEF h, e, o
  <2>5. /\ Upserts(entry, order)' /\ Repairable' /\ PendingRepairable'
        /\ writer' = "running" => Absorbed' = h
    BY <1>2, <2>1, <2>3, <2>4, WindowReplay
  <2> QED BY <1>2, <2>2, <2>5, TakeReplay DEF h
<1>8. CASE WriterSchema
  <2>1. chan # << >> /\ chan' = Tail(chan) /\ Head(chan) = SchemaEvent
    BY <1>8 DEF WriterSchema
  <2>2. \/ layout /\ FlushCommits(entry, order, winCp)
        \/ FlushFailsClosed
        \/ /\ entry' = entry /\ order' = order /\ winCp' = winCp
           /\ UNCHANGED <<durableVars, writer, fails, flushErrors>>
    BY <1>1, <1>8, RowsHaveLayout DEF WriterSchema, windowVars
  <2>3. /\ Upserts(entry, order)' /\ Repairable' /\ PendingRepairable'
        /\ writer' = "running" => Absorbed' = Absorbed
    BY <1>2, <1>5, <2>2, WindowReplay
  <2> QED BY <1>2, <2>1, <2>3, TakeReplay
<1>9. CASE WriterClosed
  <2>1. writer' = "done" /\ entry' = NoEntries /\ order' = << >> /\ winCp' = NoCp
    BY <1>9 DEF WriterClosed
  <2>2. \/ stored' = FlushResult(stored, entry, order) /\ ckpt' = Absorbed
        \/ stored' = stored /\ ckpt' = ckpt
    BY <1>1, <1>9, RowsHaveLayout DEF WriterClosed, Flushed, Absorbed, durableVars
  <2>3. Current' = Current /\ \A i, k : TouchedAfter(i, k)' <=> TouchedAfter(i, k)
    BY <1>2 DEF Current, TouchedAfter, Touches, binlogVars
  <2>4. Repairable'
    BY <1>5, <2>2, <2>3 DEF ReplayInv, Repairable
  <2>5. PendingRepairable'
    <3>1. \A k \in Keys : FlushResult(stored', NoEntries, << >>)[k] = stored'[k]
      BY EmptyFlush
    <3>2. Absorbed' = ckpt'
      BY <2>1 DEF Absorbed
    <3> QED BY <2>1, <2>4, <3>1, <3>2 DEF Repairable, PendingRepairable
  <2> QED BY <2>1, <2>4, <2>5, EmptyUpserts
<1> QED BY <1>6, <1>7, <1>8, <1>9 DEF Writer

LEMMA CrashRestartReplay ==
  ASSUME UpsertSource, ReplayInv, CrashRestart
  PROVE  ReplayInv'
<1>1. Sound /\ TypeOK /\ Sound' /\ Floor' /\ LayoutFirst'
  BY NextSound, NextFloor, LayoutKept DEF ReplayInv, Sound, Next, UpsertSource
<1>2. /\ UNCHANGED <<binlogVars, durableVars>> /\ stored' = stored /\ ckpt' = ckpt
      /\ chan' = << >> /\ Len(chan') = 0 /\ sent' = 0 /\ initialCp' = ckpt
      /\ entry' = NoEntries /\ order' = << >> /\ winCp' = NoCp /\ Absorbed' = ckpt
  BY DEF CrashRestart, durableVars, Absorbed
<1>3. ckpt \in Nat /\ NoCp \notin Nat
  BY <1>1, TypedPositions
<1>4. NoGaps' /\ ReadAhead' /\ initialCp' # NoCp
  BY <1>2, <1>3 DEF NoGaps, ReadAhead, Reaches
<1>5. Current' = Current /\ \A i, k : TouchedAfter(i, k)' <=> TouchedAfter(i, k)
  BY <1>2 DEF Current, TouchedAfter, Touches, binlogVars
<1>6. EventsOfOne' /\ LogTells'
  BY <1>2, <1>5 DEF ReplayInv, EventsOfOne, LogTells, Positions, binlogVars
<1>7. Repairable'
  BY <1>2, <1>5 DEF ReplayInv, Repairable
<1>8. PendingRepairable'
  <2>1. \A k \in Keys : FlushResult(stored, NoEntries, << >>)[k] = stored[k]
    BY EmptyFlush
  <2> QED BY <1>2, <1>7, <2>1 DEF Repairable, PendingRepairable
<1> QED BY <1>1, <1>2, <1>4, <1>6, <1>7, <1>8, EmptyUpserts DEF ReplayInv

LEMMA NextReplay ==
  ASSUME UpsertSource
  PROVE  ReplayInv /\ [Next]_vars => ReplayInv'
<1> SUFFICES ASSUME ReplayInv, [Next]_vars PROVE ReplayInv'
  OBVIOUS
<1>1. CASE UNCHANGED vars
  <2>1. Sound' /\ Floor' /\ LayoutFirst'
    BY <1>1, NextSound, NextFloor DEF ReplayInv, LayoutFirst, vars
  <2>2. /\ UNCHANGED <<binlogVars, durableVars, windowVars>>
        /\ UNCHANGED <<chan, sent, writer, initialCp>>
    BY <1>1 DEF vars, binlogVars, durableVars, windowVars
  <2> QED BY <2>1, <2>2, WindowUnchanged DEF ReplayInv, NoGaps, ReadAhead
<1> QED BY <1>1, CommitReplay, ReaderReplay, WriterReplay, CrashRestartReplay DEF Next

\* What reconnects and restarts disturb, the rows still to be replayed repair: in
\* a process started on an existing database, and in those after it, a stored key
\* that is not what it was at the checkpoint is written again, whatever the size of
\* the window and however many flushes failed (writer.rs:719-721).
THEOREM ReplayAlwaysRepairs ==
  ASSUME UpsertSource
  PROVE  Spec /\ initialCp # NoCp => []ReplayRepairs
<1>1. ReplayInv => ReplayRepairs
  <2> SUFFICES ASSUME ReplayInv, NEW k \in Keys, stored[k] # hist[ckpt][k]
               PROVE  \E i \in (ckpt + 1)..Len(log) : Touches(i, k)
    BY DEF ReplayRepairs
  <2>1. ckpt \in Positions
    BY TypedPositions DEF ReplayInv
  <2>2. stored[k] # Current[k] \/ hist[ckpt][k] # Current[k]
    OBVIOUS
  <2> QED BY <2>1, <2>2 DEF ReplayInv, Repairable, LogTells, TouchedAfter
<1>2. Init /\ initialCp # NoCp => ReplayInv
  BY InitReplay
<1> QED BY <1>1, <1>2, NextReplay, PTL DEF Spec

\* Once everything logged has been read, received and flushed, the stored table is
\* the source table, whatever was replayed on the way and however the replayed rows
\* were batched (writer.rs:320-321).
THEOREM CaughtUpAlwaysExact ==
  ASSUME UpsertSource
  PROVE  Spec /\ initialCp # NoCp => []CaughtUpExact
<1>1. ReplayInv => CaughtUpExact
  <2> SUFFICES ASSUME ReplayInv, CaughtUp PROVE stored = Current
    BY DEF CaughtUpExact
  <2>1. /\ Absorbed \in 0..Len(log) /\ Len(log) \in Nat /\ sent = Len(log) /\ Len(chan) = 0
        /\ stored \in Table /\ Current \in Table
    BY TypedPositions DEF ReplayInv, CaughtUp
  <2>2. sent <= Absorbed
    BY <2>1 DEF ReplayInv, CaughtUp, ReadAhead, Reaches
  <2>3. \A m \in (Absorbed + 1)..Len(log) : FALSE
    BY <2>1, <2>2
  <2>4. order = << >> /\ entry = NoEntries
    BY DEF ReplayInv, CaughtUp, Upserts
  <2>5. \A k \in Keys : FlushResult(stored, NoEntries, << >>)[k] = stored[k]
    BY EmptyFlush
  <2>6. \A k \in Keys : stored[k] = Current[k]
    BY <2>3, <2>4, <2>5 DEF ReplayInv, PendingRepairable, TouchedAfter
  <2> QED BY <2>1, <2>6 DEF Table
<1>2. Init /\ initialCp # NoCp => ReplayInv
  BY InitReplay
<1> QED BY <1>1, <1>2, NextReplay, PTL DEF Spec

=============================================================================
