----------------------------- MODULE RowPipeline -----------------------------
(***************************************************************************)
(* The row path of one replication pipeline: MySQL's binary log, the CDC   *)
(* reader task (LiveCdc::run and run_once, src/cdc/live.rs), the bounded   *)
(* event channel, the store writer task with its coalescing window         *)
(* (StoreWriter::run and flush_batch, src/store/writer.rs) and the DuckDB  *)
(* file, which holds the table and the checkpoint.                         *)
(*                                                                         *)
(* The pipeline starts after the initial snapshot: the stored table is the *)
(* source table at position 0 and the checkpoint is 0.  A crash loses      *)
(* everything but the DuckDB file; a restart builds both tasks again.      *)
(*                                                                         *)
(* Bounds: MaxFlushErrors failed transactions, MaxSchemaErrors schemas     *)
(* that cannot be installed, MaxStreamErrors replication errors,           *)
(* MaxCrashes crashes, and the bounds of MySqlBinlog.                      *)
(***************************************************************************)
EXTENDS MySqlBinlog

CONSTANTS
  BatchSize,         \* settings.batch_size
  ChannelCapacity,   \* mpsc::channel(1_000)
  MaxFlushFailures,  \* MAX_CONSECUTIVE_FLUSH_FAILURES (5 in the code)
  MaxReconnects,     \* max_reconnect_attempts (10 in sync mode)
  MaxFlushErrors,    \* bound: failed DuckDB transactions
  MaxSchemaErrors,   \* bound: layouts that cannot be installed
  MaxStreamErrors,   \* bound: replication stream errors in one process
  MaxCrashes,        \* bound: crashes of the process
  NoCp               \* no checkpoint

ASSUME PipelineAssumption ==
  /\ BatchSize \in Nat \ {0}
  /\ ChannelCapacity \in Nat \ {0}
  /\ MaxFlushFailures \in Nat \ {0}
  /\ MaxReconnects \in Nat
  /\ MaxFlushErrors \in Nat
  /\ MaxSchemaErrors \in Nat
  /\ MaxStreamErrors \in Nat
  /\ MaxCrashes \in Nat
  /\ NoCp \notin Nat

VARIABLES
  stored,       \* DuckDB: the replicated table
  ckpt,         \* DuckDB: _xloka_checkpoint
  reader,       \* the CDC task: where its session stands
  sent,         \* the CDC task: the last row it read from the binlog
  tableMapped,  \* the CDC task: has this session seen a table map?
  attempt,      \* the CDC task: replication attempts that failed
  initialCp,    \* the CDC task: config.initial_checkpoint
  chan,         \* the event channel: row positions and schema events
  writer,       \* the writer task
  entry,        \* the writer task: coalescer entries
  order,        \* the writer task: coalescer order
  winCp,        \* the writer task: latest_checkpoint of the window
  layout,       \* the writer task: does layouts hold the table's layout?
  fails,        \* the writer task: consecutive_flush_failures
  flushErrors,  \* failed transactions so far
  schemaErrors, \* layouts that could not be installed so far
  crashes       \* crashes so far

durableVars == <<stored, ckpt>>
readerVars == <<reader, sent, tableMapped, attempt, initialCp>>
windowVars == <<entry, order, winCp>>
layoutVars == <<layout, schemaErrors>>
writerVars == <<writer, entry, order, winCp, fails, flushErrors, layout, schemaErrors>>
vars == <<log, hist, freed, moved, stored, ckpt, reader, sent, tableMapped,
          attempt, initialCp, chan, writer, entry, order, winCp, fails,
          flushErrors, layout, schemaErrors, crashes>>

-----------------------------------------------------------------------------
\* CdcEvent::Schema in the channel; a row event is its position.
SchemaEvent == 0

Init ==
  /\ BinlogInit
  /\ stored = hist[0]
  /\ ckpt = 0
  /\ reader = "connecting"
  /\ sent = 0
  /\ tableMapped = FALSE
  /\ attempt = 0
  /\ initialCp \in {NoCp, 0}
  /\ chan = << >>
  /\ writer = "running"
  /\ entry = NoEntries
  /\ order = << >>
  /\ winCp = NoCp
  /\ fails = 0
  /\ flushErrors = 0
  /\ layout = FALSE
  /\ schemaErrors = 0
  /\ crashes = 0

\* MySQL executes a row operation.
Commit ==
  /\ \E op \in RowOps, last, own \in BOOLEAN : LogRow(op, last, own)
  /\ UNCHANGED <<durableVars, readerVars, writerVars, chan, crashes>>

-----------------------------------------------------------------------------
(* The CDC task.                                                           *)

\* Mutant: resumes one row after the checkpoint.
RecoverCheckpointSkipsRow ==
  /\ reader = "connecting"
  /\ LET cp == IF initialCp # NoCp THEN initialCp ELSE ckpt
     IN  sent' = IF cp < Len(log) THEN cp + 1 ELSE cp
  /\ tableMapped' = FALSE
  /\ reader' = "syncing"
  /\ UNCHANGED <<binlogVars, durableVars, attempt, initialCp, chan, writerVars, crashes>>

\* Mutant: streams from the start whatever the checkpoint says.
RecoverCheckpointIgnored ==
  /\ reader = "connecting"
  /\ sent' = 0
  /\ tableMapped' = FALSE
  /\ reader' = "syncing"
  /\ UNCHANGED <<binlogVars, durableVars, attempt, initialCp, chan, writerVars, crashes>>

\* run_once: the position to stream from.  config.initial_checkpoint, read
\* before the process opened the store, wins over the stored checkpoint.
RecoverCheckpoint ==
  /\ reader = "connecting"
  /\ sent' = IF initialCp # NoCp THEN initialCp ELSE ckpt
  /\ tableMapped' = FALSE
  /\ reader' = "syncing"
  /\ UNCHANGED <<binlogVars, durableVars, attempt, initialCp, chan, writerVars, crashes>>

\* Mutant: an unbounded channel.
SendUnbounded(event) ==
  /\ writer = "running"
  /\ chan' = Append(chan, event)

\* tx.send: waits for room; fails once the writer has dropped the receiver,
\* and then run_once returns Ok and run does not reconnect.
Send(event) ==
  /\ writer = "running"
  /\ Len(chan) < ChannelCapacity
  /\ chan' = Append(chan, event)

SendFails ==
  /\ writer # "running"
  /\ reader' = "stopped"
  /\ UNCHANGED <<chan, sent, tableMapped>>

\* run_once: the schema of the table is sent ahead of the rows.
SyncSchema ==
  /\ reader = "syncing"
  /\ \/ Send(SchemaEvent) /\ reader' = "streaming" /\ UNCHANGED <<sent, tableMapped>>
     \/ SendFails
  /\ UNCHANGED <<binlogVars, durableVars, attempt, initialCp, writerVars, crashes>>

\* A row of an event whose table map the session has seen.
ReadRow ==
  /\ reader = "streaming"
  /\ Logged(sent + 1)
  /\ log[sent + 1].own \/ tableMapped
  /\ \/ Send(sent + 1) /\ sent' = sent + 1 /\ tableMapped' = TRUE /\ UNCHANGED reader
     \/ SendFails
  /\ UNCHANGED <<binlogVars, durableVars, attempt, initialCp, writerVars, crashes>>

\* A rows event without a known table map is passed over.
SkipEvent ==
  /\ reader = "streaming"
  /\ Logged(sent + 1)
  /\ ~ (log[sent + 1].own \/ tableMapped)
  /\ sent' = EventEnd(sent + 1)
  /\ UNCHANGED <<binlogVars, durableVars, reader, tableMapped, attempt, initialCp,
                 chan, writerVars, crashes>>

\* The stream is polled only between events: all rows of one are sent first.
BetweenEvents == sent > 0 => log[sent].last

\* The stream fails: run reconnects, or gives up.
StreamError ==
  /\ reader \in {"syncing", "streaming"}
  /\ BetweenEvents
  /\ attempt < MaxStreamErrors
  /\ attempt' = attempt + 1
  /\ reader' = IF attempt' > MaxReconnects THEN "stopped" ELSE "connecting"
  /\ UNCHANGED <<binlogVars, durableVars, sent, tableMapped, initialCp, chan,
                 writerVars, crashes>>

\* The stream ends without an error: run takes it for a closed writer.
StreamEnds ==
  /\ reader = "streaming"
  /\ BetweenEvents
  /\ attempt < MaxStreamErrors
  /\ attempt' = attempt + 1
  /\ reader' = "stopped"
  /\ UNCHANGED <<binlogVars, durableVars, sent, tableMapped, initialCp, chan,
                 writerVars, crashes>>

-----------------------------------------------------------------------------
(* The writer task.  e, o and cp are the window being flushed.             *)

\* Rows of a table without a layout are dropped, with a warning.
Flushed(e, o) == IF layout THEN FlushResult(stored, e, o) ELSE stored

\* Mutant: the checkpoint is left out of the transaction.
FlushCommitsRowsOnly(e, o, cp) ==
  /\ stored' = Flushed(e, o)
  /\ entry' = NoEntries
  /\ order' = << >>
  /\ winCp' = NoCp
  /\ fails' = 0
  /\ UNCHANGED <<ckpt, writer, flushErrors>>

\* flush_batch commits: rows and checkpoint land together, the window is
\* drained.
FlushCommits(e, o, cp) ==
  /\ stored' = Flushed(e, o)
  /\ ckpt' = IF cp = NoCp THEN ckpt ELSE cp
  /\ entry' = NoEntries
  /\ order' = << >>
  /\ winCp' = NoCp
  /\ fails' = 0
  /\ UNCHANGED <<writer, flushErrors>>

\* The writer returns Err: its window dies with it.
Halt ==
  /\ writer' = "halted"
  /\ entry' = NoEntries
  /\ order' = << >>
  /\ winCp' = NoCp

\* Mutant: the checkpoint is written ahead of the rows, and survives.
FlushFailsAfterCheckpoint(e, o, cp) ==
  /\ flushErrors < MaxFlushErrors
  /\ flushErrors' = flushErrors + 1
  /\ fails' = fails + 1
  /\ entry' = e /\ order' = o /\ winCp' = cp
  /\ ckpt' = IF cp = NoCp THEN ckpt ELSE cp
  /\ UNCHANGED <<stored, writer>>

\* Mutant: the window is drained although nothing was committed.
FlushFailsDrained(e, o, cp) ==
  /\ flushErrors < MaxFlushErrors
  /\ flushErrors' = flushErrors + 1
  /\ fails' = fails + 1
  /\ entry' = NoEntries /\ order' = << >> /\ winCp' = cp
  /\ UNCHANGED <<durableVars, writer>>

\* flush_batch fails and rolls back: the window is kept for the next attempt,
\* until MaxFlushFailures attempts have failed in a row.
FlushFails(e, o, cp) ==
  /\ flushErrors < MaxFlushErrors
  /\ flushErrors' = flushErrors + 1
  /\ fails' = fails + 1
  /\ IF fails + 1 >= MaxFlushFailures
     THEN Halt
     ELSE /\ entry' = e
          /\ order' = o
          /\ winCp' = cp
          /\ UNCHANGED writer
  /\ UNCHANGED durableVars

\* A failed flush ahead of a schema event halts at once.
FlushFailsClosed ==
  /\ flushErrors < MaxFlushErrors
  /\ flushErrors' = flushErrors + 1
  /\ Halt
  /\ UNCHANGED <<durableVars, fails>>

\* Mutant: only a full window is flushed.
WriterTickFullOnly ==
  /\ writer = "running"
  /\ Len(order) >= BatchSize
  /\ FlushCommits(entry, order, winCp) \/ FlushFails(entry, order, winCp)
  /\ UNCHANGED <<binlogVars, readerVars, chan, layoutVars, crashes>>

\* The flush interval elapses.
WriterTick ==
  /\ writer = "running"
  /\ order # << >>
  /\ FlushCommits(entry, order, winCp) \/ FlushFails(entry, order, winCp)
  /\ UNCHANGED <<binlogVars, readerVars, chan, layoutVars, crashes>>

\* Mutant: the position the reader has reached by now.
RowCheckpointOfReader(i) == sent

\* make_cp: the checkpoint a row carries is the end of its event.
RowCheckpoint(i) == EventEnd(i)

\* A row event: push it, flush when the window is full.
WriterRow ==
  /\ writer = "running"
  /\ chan # << >>
  /\ Head(chan) # SchemaEvent
  /\ LET e  == PushEntry(entry, log[Head(chan)].op)
         o  == PushOrder(entry, order, log[Head(chan)].op)
         cp == RowCheckpoint(Head(chan))
     IN  IF Len(o) >= BatchSize
         THEN FlushCommits(e, o, cp) \/ FlushFails(e, o, cp)
         ELSE /\ entry' = e
              /\ order' = o
              /\ winCp' = cp
              /\ UNCHANGED <<durableVars, writer, fails, flushErrors>>
  /\ chan' = Tail(chan)
  /\ UNCHANGED <<binlogVars, readerVars, layoutVars, crashes>>

\* create_ddl, add_missing_columns and install_layout: the table exists with all
\* its columns, so what can fail is the layout, and the writer only warns of it.
InstallLayout ==
  \/ layout' = TRUE /\ UNCHANGED schemaErrors
  \/ /\ schemaErrors < MaxSchemaErrors
     /\ schemaErrors' = schemaErrors + 1
     /\ UNCHANGED layout

\* A schema event: pending rows are flushed under the old layout first.
WriterSchema ==
  /\ writer = "running"
  /\ chan # << >>
  /\ Head(chan) = SchemaEvent
  /\ \/ /\ order = << >> /\ InstallLayout
        /\ UNCHANGED <<durableVars, writer, windowVars, fails, flushErrors>>
     \/ order # << >> /\ FlushCommits(entry, order, winCp) /\ InstallLayout
     \/ order # << >> /\ FlushFailsClosed /\ UNCHANGED layoutVars
  /\ chan' = Tail(chan)
  /\ UNCHANGED <<binlogVars, readerVars, crashes>>

\* The channel is closed and empty: one last flush, whose failure is only
\* logged.
WriterClosed ==
  /\ writer = "running"
  /\ reader = "stopped"
  /\ chan = << >>
  /\ \/ /\ order # << >>
        /\ stored' = Flushed(entry, order)
        /\ ckpt' = IF winCp = NoCp THEN ckpt ELSE winCp
        /\ UNCHANGED flushErrors
     \/ /\ order # << >>
        /\ flushErrors < MaxFlushErrors
        /\ flushErrors' = flushErrors + 1
        /\ UNCHANGED durableVars
     \/ order = << >> /\ UNCHANGED <<durableVars, flushErrors>>
  /\ writer' = "done"
  /\ entry' = NoEntries
  /\ order' = << >>
  /\ winCp' = NoCp
  /\ UNCHANGED <<binlogVars, readerVars, chan, fails, layoutVars, crashes>>

-----------------------------------------------------------------------------
\* The process dies and is started again; only the DuckDB file survives.
CrashRestart ==
  /\ crashes < MaxCrashes
  /\ crashes' = crashes + 1
  /\ reader' = "connecting"
  /\ sent' = 0
  /\ tableMapped' = FALSE
  /\ attempt' = 0
  /\ initialCp' = ckpt
  /\ chan' = << >>
  /\ writer' = "running"
  /\ entry' = NoEntries
  /\ order' = << >>
  /\ winCp' = NoCp
  /\ fails' = 0
  /\ layout' = FALSE
  /\ UNCHANGED <<binlogVars, durableVars, flushErrors, schemaErrors>>

Reader == RecoverCheckpoint \/ SyncSchema \/ ReadRow \/ SkipEvent
Writer == WriterTick \/ WriterRow \/ WriterSchema \/ WriterClosed

Next == Commit \/ Reader \/ StreamError \/ StreamEnds \/ Writer \/ CrashRestart

\* Both tasks are polled by the runtime and the interval keeps ticking; a
\* select between a ready tick and a ready event is random, so neither starves.
Fairness ==
  /\ WF_vars(Reader)
  /\ WF_vars(WriterTick)
  /\ WF_vars(WriterRow \/ WriterSchema \/ WriterClosed)

Spec == Init /\ [][Next]_vars
FairSpec == Spec /\ Fairness

-----------------------------------------------------------------------------
(* Properties.                                                             *)

Positions == 0..Len(log)

\* Type correctness of the pipeline's state.
TypeOK ==
  /\ log \in Seq(LogRows)
  /\ hist \in [Positions -> Table]
  /\ freed \subseteq Keys
  /\ moved \subseteq freed
  /\ stored \in Table
  /\ ckpt \in Positions
  /\ reader \in {"connecting", "syncing", "streaming", "stopped"}
  /\ sent \in Positions
  /\ tableMapped \in BOOLEAN
  /\ attempt \in Nat
  /\ initialCp \in Positions \cup {NoCp}
  /\ chan \in Seq(Positions)
  /\ Len(chan) <= ChannelCapacity
  /\ writer \in {"running", "halted", "done"}
  /\ entry \in [Keys -> Entries]
  /\ order \in Seq(Keys)
  /\ winCp \in Positions \cup {NoCp}
  /\ fails \in Nat
  /\ flushErrors \in 0..MaxFlushErrors
  /\ layout \in BOOLEAN
  /\ schemaErrors \in 0..MaxSchemaErrors
  /\ crashes \in 0..MaxCrashes

\* The checkpoint tells the truth: the stored table is the source table at
\* the checkpoint, whatever was in flight when the process died
\* (flush_batch writes both in one transaction, writer.rs:813).
DurablePrefix == stored = hist[ckpt]

\* The last row the window has absorbed.
Absorbed == IF winCp = NoCp THEN ckpt ELSE winCp

\* No batch is silently lost (writer.rs:618-620): through any number of failed
\* flushes, flushing the window now would bring the stored table to the last
\* row received.
PendingExact == FlushResult(stored, entry, order) = hist[Absorbed]

\* Why: with one row per event, no reuse of vacated keys and no stream errors
\* (the assumptions of the proof), the history is the log replayed, ...
LogConsistent ==
  /\ freed = FreedBy(log, Len(log))
  /\ moved = MovedBy(log, Len(log))
  /\ \A i \in 1..Len(log) :
       /\ log[i].last /\ log[i].own
       /\ Loggable(hist[i - 1], log[i].op)
       /\ NoReuse(log[i].op, FreedBy(log, i - 1), MovedBy(log, i - 1))
       /\ hist[i] = ApplyOp(hist[i - 1], log[i].op)

RowsQueued ==
  IF chan # << >> /\ chan[1] = SchemaEvent THEN Len(chan) - 1 ELSE Len(chan)

\* ... the channel holds, in order, exactly the rows between the last one
\* absorbed and the last one read, with the schema event ahead of them, ...
ChannelInOrder ==
  /\ reader \in {"connecting", "syncing"} =>
       chan = << >> /\ entry = NoEntries /\ order = << >> /\ winCp = NoCp
  /\ reader = "connecting" => initialCp \in {NoCp, ckpt}
  /\ reader # "connecting" /\ writer = "running" =>
       sent = Absorbed + RowsQueued
  /\ \A i \in 1..Len(chan) :
       IF chan[i] = SchemaEvent THEN i = 1 ELSE chan[i] = sent - Len(chan) + i

\* ... no row reaches the writer ahead of the layout, ...
LayoutFirst ==
  ~ layout =>
    /\ entry = NoEntries /\ order = << >> /\ winCp = NoCp
    /\ IF chan = << >> THEN reader # "streaming" \/ writer # "running" ELSE chan[1] = SchemaEvent

\* ... and the window stands for the rows between the checkpoint and the last
\* one absorbed.
WindowFaithful ==
  /\ winCp # NoCp => ckpt <= winCp
  /\ Represents(entry, stored, hist[Absorbed], FreedBy(log, Absorbed), MovedBy(log, Absorbed))

\* The inductive invariant behind DurablePrefix and PendingExact.
IInv ==
  TypeOK /\ LogConsistent /\ ChannelInOrder /\ LayoutFirst /\ WindowFaithful /\ DurablePrefix

\* The pipeline implements the abstract replica: readers of the DuckDB file see
\* a consistent prefix of MySQL's history that only grows.
AbstractReplica ==
  INSTANCE Replica WITH States <- Table, size <- Len(log), history <- hist,
                        replica <- stored, pos <- ckpt
ImplementsReplica == AbstractReplica!Spec

\* A reconnect may take the store back, but never behind the checkpoint the
\* process was started with (live.rs:190-196): what the channel and the window
\* hold, of whichever session, is ahead of it.
RollbackBounded == initialCp # NoCp => initialCp <= ckpt

\* Everything logged has been read, received and flushed.
CaughtUp ==
  /\ reader = "streaming"
  /\ writer = "running"
  /\ chan = << >>
  /\ order = << >>
  /\ sent = Len(log)
  /\ OpenRows = {}

\* Pending data "will replay from the last persisted checkpoint on restart"
\* (writer.rs:320-321): once caught up, the stored table is the source table.
CaughtUpExact == CaughtUp => stored = Current

\* Row i of the log decides the value of key k.
Touches(i, k) == k \in {log[i].op.key, log[i].op.before}

\* Replay repairs: a stored key that differs from the source at the position
\* streamed from is written again by a row still to be replayed.  Replay is
\* meant to be idempotent (writer.rs:719-721).
ReplayRepairs ==
  \A k \in Keys :
    stored[k] # hist[ckpt][k] => \E i \in (ckpt + 1)..Len(log) : Touches(i, k)

\* A stored row is one MySQL held at some position, never a mixture and never
\* a row of the future.
RowsFromBinlog ==
  \A k \in Keys : \E i \in Positions : stored[k] = hist[i][k]

\* Unless a task has stopped for good, what was committed ends up stored.
Stopped == reader = "stopped" \/ writer # "running"
Convergence == <>[](Stopped \/ stored = Current)

=============================================================================
