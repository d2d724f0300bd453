----------------------------- MODULE SnapshotLoad -----------------------------
(***************************************************************************)
(* The initial snapshot of a pipeline and its hand-over to the binlog      *)
(* stream: LiveCdc::run_once opens a consistent snapshot, records the      *)
(* binlog position, sends every table as one BulkLoadCsv event and streams *)
(* from the recorded position (src/cdc/live.rs); StoreWriter::run copies   *)
(* each file into DuckDB and persists the snapshot's checkpoint            *)
(* (src/store/writer.rs); a JSON file beside the store holds the reader's  *)
(* own position (Checkpoint, src/lib.rs).                                  *)
(*                                                                         *)
(* A change is the insertion of one new row in one table, so a stored      *)
(* table is the set of the changes it holds; change 0 stands for the rows  *)
(* every table had before the log began.  Storing a row twice is a no-op,  *)
(* but copying a file over a row the table holds violates its primary key. *)
(* A schema event whose statements DuckDB refuses leaves the table without *)
(* a layout, or not created at all; its rows are then dropped and its file *)
(* is not copied, while the checkpoint goes on.  What updates and deletes  *)
(* add, and failing transactions, are in RowPipeline.                      *)
(*                                                                         *)
(* Bounds: MaxChanges changes, MaxStreamErrors replication errors in one   *)
(* process, MaxCrashes crashes, MaxRefused refused statements.             *)
(***************************************************************************)
EXTENDS Integers, Sequences

CONSTANTS
  Tables,            \* the replicated tables
  ChannelCapacity,   \* mpsc::channel(1_000)
  MaxReconnects,     \* max_reconnect_attempts (10 in sync mode)
  MaxChanges,
  MaxStreamErrors,
  MaxCrashes,
  MaxRefused,
  NoCp               \* no checkpoint

ASSUME SnapshotAssumption ==
  /\ Tables # {}
  /\ ChannelCapacity \in Nat \ {0}
  /\ {MaxReconnects, MaxChanges, MaxStreamErrors, MaxCrashes, MaxRefused} \subseteq Nat
  /\ NoCp \notin Nat

VARIABLES
  log,        \* MySQL: the table of each change, in commit order
  stored,     \* DuckDB: the changes each table holds
  created,    \* DuckDB: the tables that exist
  ckpt,       \* DuckDB: _xloka_checkpoint
  jsonCp,     \* the JSON checkpoint file
  initialCp,  \* the CDC task: config.initial_checkpoint
  reader,     \* the CDC task: where its session stands
  recovered,  \* the CDC task: the checkpoint the session started from
  todo,       \* the CDC task: tables whose schema or snapshot is still to be sent
  view,       \* the CDC task: the last change its consistent snapshot sees
  target,     \* the CDC task: the position recorded for the last snapshot
  sent,       \* the CDC task: the last change it read from the binlog
  attempt,    \* the CDC task: replication attempts that failed
  chan,       \* the event channel
  writer,     \* the writer task
  layouts,    \* the writer task: the tables it has a layout of
  window,     \* the writer task: changes in the coalescer
  winCp,      \* the writer task: latest_checkpoint of the window
  owed,       \* the writer task: snapshot checkpoint to persist after a copy
  refused,    \* statements DuckDB refused so far that were only logged
  crashes,    \* crashes so far
  disturbed   \* what has hit a snapshot that was not loaded yet: "change"
              \* between the snapshot and its position, "error", "crash",
              \* "copy"; and at any time "schema": a table without a layout

sessionVars == <<recovered, todo, view, target>>
readerVars == <<initialCp, reader, sessionVars, sent, attempt, jsonCp>>
durableVars == <<stored, created, ckpt>>
writerVars == <<writer, layouts, window, winCp, owed>>
countVars == <<refused, crashes, disturbed>>
vars == <<log, readerVars, chan, durableVars, writerVars, countVars>>

-----------------------------------------------------------------------------
\* What table t holds after change p.
Content(t, p) == {i \in 0..p : i = 0 \/ log[i] = t}

\* CdcEvent.  upTo is the last change of the file a load copies, the position
\* of a row; cp the checkpoint the event carries.
SchemaEvent(t) == [kind |-> "schema", table |-> t, upTo |-> 0, cp |-> NoCp]
LoadEvent(t) == [kind |-> "load", table |-> t, upTo |-> view, cp |-> target]

\* Mutant: a row carries the position behind the next one.
RowEventAhead(i) ==
  [kind |-> "row", table |-> log[i], upTo |-> i, cp |-> IF i < Len(log) THEN i + 1 ELSE i]

RowEvent(i) == [kind |-> "row", table |-> log[i], upTo |-> i, cp |-> i]

Queued == {chan[i] : i \in DOMAIN chan}

\* The snapshot of this session is in the store, as far as it will ever be.
SnapshotSettled ==
  /\ reader = "streaming"
  /\ \A e \in Queued : e.kind # "load"
  /\ owed = NoCp

Init ==
  /\ log = << >>
  /\ stored = [t \in Tables |-> {}]
  /\ created = {}
  /\ ckpt = NoCp
  /\ jsonCp = NoCp
  /\ initialCp = NoCp
  /\ reader = "connecting"
  /\ recovered = NoCp
  /\ todo = {}
  /\ view = 0
  /\ target = 0
  /\ sent = 0
  /\ attempt = 0
  /\ chan = << >>
  /\ writer = "running"
  /\ layouts = {}
  /\ window = {}
  /\ winCp = NoCp
  /\ owed = NoCp
  /\ refused = 0
  /\ crashes = 0
  /\ disturbed = {}

\* A failure, unless the snapshot was settled before it.
Disturb(fault) ==
  disturbed' = IF SnapshotSettled THEN disturbed ELSE disturbed \cup {fault}

\* MySQL commits a change of table t.
Change(t) ==
  /\ Len(log) < MaxChanges
  /\ log' = Append(log, t)
  /\ disturbed' = IF reader = "positioning" THEN disturbed \cup {"change"} ELSE disturbed
  /\ UNCHANGED <<readerVars, chan, durableVars, writerVars, refused, crashes>>

-----------------------------------------------------------------------------
(* The CDC task.                                                           *)

Send(event) ==
  /\ Len(chan) < ChannelCapacity
  /\ chan' = Append(chan, event)

\* Mutant: the JSON file wins.
StartFromJson == IF jsonCp # NoCp THEN jsonCp ELSE IF initialCp # NoCp THEN initialCp ELSE ckpt

\* The checkpoint a session starts from: the one the process was started with,
\* else the store's, else the JSON file's.
StartFrom == IF initialCp # NoCp THEN initialCp ELSE IF ckpt # NoCp THEN ckpt ELSE jsonCp

RecoverCheckpoint ==
  /\ reader = "connecting"
  /\ recovered' = StartFrom
  /\ reader' = "syncing"
  /\ todo' = Tables
  /\ UNCHANGED <<log, initialCp, view, target, sent, attempt, jsonCp, chan,
                 durableVars, writerVars, countVars>>

\* The schemas are sent; with a checkpoint the session streams from it, without
\* one it takes a snapshot.
SyncSchema(t) ==
  /\ reader = "syncing"
  /\ t \in todo
  /\ Send(SchemaEvent(t))
  /\ todo' = todo \ {t}
  /\ IF todo' # {} THEN UNCHANGED <<reader, sent>>
     ELSE IF recovered = NoCp THEN reader' = "opening" /\ UNCHANGED sent
     ELSE reader' = "streaming" /\ sent' = recovered
  /\ UNCHANGED <<log, initialCp, recovered, view, target, attempt, jsonCp,
                 durableVars, writerVars, countVars>>

\* START TRANSACTION WITH CONSISTENT SNAPSHOT.
OpenSnapshot ==
  /\ reader = "opening"
  /\ view' = Len(log)
  /\ reader' = "positioning"
  /\ UNCHANGED <<log, initialCp, recovered, todo, target, sent, attempt, jsonCp,
                 chan, durableVars, writerVars, countVars>>

\* Mutant: one change too many is taken for part of the snapshot.
RecordPositionAhead ==
  /\ reader = "positioning"
  /\ target' = Len(log) + 1
  /\ todo' = Tables
  /\ reader' = "copying"
  /\ UNCHANGED <<log, initialCp, recovered, view, sent, attempt, jsonCp, chan,
                 durableVars, writerVars, countVars>>

\* SHOW BINARY LOG STATUS (or SHOW MASTER STATUS).
RecordPosition ==
  /\ reader = "positioning"
  /\ target' = Len(log)
  /\ todo' = Tables
  /\ reader' = "copying"
  /\ UNCHANGED <<log, initialCp, recovered, view, sent, attempt, jsonCp, chan,
                 durableVars, writerVars, countVars>>

SnapshotTable(t) ==
  /\ reader = "copying"
  /\ t \in todo
  /\ Send(LoadEvent(t))
  /\ todo' = todo \ {t}
  /\ UNCHANGED <<log, initialCp, reader, recovered, view, target, sent, attempt,
                 jsonCp, durableVars, writerVars, countVars>>

\* Mutant: the stream starts at MySQL's position of now.
EndSnapshotNow ==
  /\ reader = "copying"
  /\ todo = {}
  /\ jsonCp' = target
  /\ sent' = Len(log)
  /\ reader' = "streaming"
  /\ UNCHANGED <<log, initialCp, sessionVars, attempt, chan, durableVars,
                 writerVars, countVars>>

\* Every table is queued: the JSON checkpoint is saved and the stream starts.
EndSnapshot ==
  /\ reader = "copying"
  /\ todo = {}
  /\ jsonCp' = target
  /\ sent' = target
  /\ reader' = "streaming"
  /\ UNCHANGED <<log, initialCp, sessionVars, attempt, chan, durableVars,
                 writerVars, countVars>>

\* A row event; the commit (Xid) event behind it saves the JSON checkpoint.
ReadRow ==
  /\ reader = "streaming"
  /\ sent < Len(log)
  /\ Send(RowEvent(sent + 1))
  /\ sent' = sent + 1
  /\ jsonCp' = sent + 1
  /\ UNCHANGED <<log, initialCp, reader, sessionVars, attempt, durableVars,
                 writerVars, countVars>>

\* An error ends the session: run reconnects, or gives up.
StreamError ==
  /\ reader \notin {"connecting", "stopped"}
  /\ attempt < MaxStreamErrors
  /\ attempt' = attempt + 1
  /\ reader' = IF attempt' > MaxReconnects THEN "stopped" ELSE "connecting"
  /\ Disturb("error")
  /\ UNCHANGED <<log, initialCp, sessionVars, sent, jsonCp, chan, durableVars,
                 writerVars, refused, crashes>>

-----------------------------------------------------------------------------
(* The writer task.                                                        *)

\* The store after the window is flushed: rows of a table without a layout are
\* dropped (writer.rs:660-666).
FlushedStore == [t \in Tables |-> stored[t] \cup {i \in window : log[i] = t /\ t \in layouts}]
FlushedCp == IF window # {} THEN winCp ELSE ckpt

\* The window is drained.
Drain == window' = {} /\ winCp' = NoCp

WriterTick ==
  /\ writer = "running"
  /\ owed = NoCp
  /\ window # {}
  /\ stored' = FlushedStore
  /\ ckpt' = FlushedCp
  /\ Drain
  /\ UNCHANGED <<log, readerVars, chan, created, writer, layouts, owed, countVars>>

\* The schema of t is applied: CREATE TABLE IF NOT EXISTS, then the layout is
\* cached.  What DuckDB refuses of it is only logged: then the table may or may
\* not be there, and the layout is what it was.
ApplySchema(t) ==
  \/ /\ created' = created \cup {t}
     /\ layouts' = layouts \cup {t}
     /\ UNCHANGED <<refused, disturbed>>
  \/ /\ refused < MaxRefused
     /\ refused' = refused + 1
     /\ created' \in {created, created \cup {t}}
     /\ disturbed' = IF t \in layouts THEN disturbed ELSE disturbed \cup {"schema"}
     /\ UNCHANGED layouts

WriterSchema ==
  /\ writer = "running"
  /\ owed = NoCp
  /\ chan # << >>
  /\ Head(chan).kind = "schema"
  /\ chan' = Tail(chan)
  /\ ApplySchema(Head(chan).table)
  /\ stored' = FlushedStore
  /\ ckpt' = FlushedCp
  /\ Drain
  /\ UNCHANGED <<log, readerVars, writer, owed, crashes>>

\* The rows of a load are copied, all or none: not when there is no such table
\* or it holds one of them, nor when the copy fails.
Copies(e) == e.table \in created /\ FlushedStore[e.table] \cap Content(e.table, e.upTo) = {}

\* BulkLoadCsv: the window is flushed, the file is copied and deleted; a failed
\* copy is only logged.
WriterLoad ==
  /\ writer = "running"
  /\ owed = NoCp
  /\ chan # << >>
  /\ LET e == Head(chan)
     IN  /\ e.kind = "load"
         /\ \/ /\ Copies(e)
               /\ stored' = [FlushedStore EXCEPT ![e.table] = @ \cup Content(e.table, e.upTo)]
               /\ UNCHANGED <<refused, disturbed>>
            \/ /\ ~ Copies(e)
               /\ stored' = FlushedStore
               /\ UNCHANGED <<refused, disturbed>>
            \/ /\ refused < MaxRefused
               /\ refused' = refused + 1
               /\ stored' = FlushedStore
               /\ disturbed' = disturbed \cup {"copy"}
         /\ owed' = e.cp
  /\ ckpt' = FlushedCp
  /\ Drain
  /\ chan' = Tail(chan)
  /\ UNCHANGED <<log, readerVars, created, writer, layouts, crashes>>

\* persist_checkpoint, in a transaction of its own.
PersistCheckpoint ==
  /\ owed # NoCp
  /\ ckpt' = owed
  /\ owed' = NoCp
  /\ UNCHANGED <<log, readerVars, chan, stored, created, writer, layouts, window,
                 winCp, countVars>>

WriterRow ==
  /\ writer = "running"
  /\ owed = NoCp
  /\ chan # << >>
  /\ Head(chan).kind = "row"
  /\ window' = window \cup {Head(chan).upTo}
  /\ winCp' = Head(chan).cp
  /\ chan' = Tail(chan)
  /\ UNCHANGED <<log, readerVars, durableVars, writer, layouts, owed, countVars>>

\* The channel is closed and empty.
WriterClosed ==
  /\ writer = "running"
  /\ owed = NoCp
  /\ reader = "stopped"
  /\ chan = << >>
  /\ stored' = FlushedStore
  /\ ckpt' = FlushedCp
  /\ Drain
  /\ writer' = "done"
  /\ UNCHANGED <<log, readerVars, chan, created, layouts, owed, countVars>>

-----------------------------------------------------------------------------
\* The process dies and is started again; the DuckDB and JSON files survive
\* (target, of no use to the new process, is kept for StreamLosesNothing).
CrashRestart ==
  /\ crashes < MaxCrashes
  /\ crashes' = crashes + 1
  /\ initialCp' = ckpt
  /\ reader' = "connecting"
  /\ recovered' = NoCp
  /\ todo' = {}
  /\ view' = 0
  /\ sent' = 0
  /\ attempt' = 0
  /\ chan' = << >>
  /\ writer' = "running"
  /\ layouts' = {}
  /\ window' = {}
  /\ winCp' = NoCp
  /\ owed' = NoCp
  /\ Disturb("crash")
  /\ UNCHANGED <<log, target, jsonCp, durableVars, refused>>

Next ==
  \/ \E t \in Tables : Change(t) \/ SyncSchema(t) \/ SnapshotTable(t)
  \/ RecoverCheckpoint \/ OpenSnapshot \/ RecordPosition \/ EndSnapshot
  \/ ReadRow \/ StreamError
  \/ WriterTick \/ WriterSchema \/ WriterLoad \/ PersistCheckpoint \/ WriterRow
  \/ WriterClosed
  \/ CrashRestart

Spec == Init /\ [][Next]_vars

-----------------------------------------------------------------------------
(* Properties.                                                             *)

Positions == 0..Len(log)
Events == [kind : {"schema", "load", "row"}, table : Tables, upTo : Positions,
           cp : Positions \cup {NoCp}]

\* Type correctness.
TypeOK ==
  /\ log \in Seq(Tables)
  /\ stored \in [Tables -> SUBSET Positions]
  /\ layouts \subseteq created /\ created \subseteq Tables
  /\ {ckpt, jsonCp, initialCp, recovered, winCp, owed} \subseteq Positions \cup {NoCp}
  /\ reader \in {"connecting", "syncing", "opening", "positioning", "copying",
                 "streaming", "stopped"}
  /\ todo \subseteq Tables
  /\ {view, target, sent} \subseteq Positions
  /\ attempt \in 0..MaxStreamErrors
  /\ chan \in Seq(Events)
  /\ Len(chan) <= ChannelCapacity
  /\ writer \in {"running", "done"}
  /\ window \subseteq Positions
  /\ refused \in 0..MaxRefused
  /\ crashes \in 0..MaxCrashes
  /\ disturbed \subseteq {"change", "error", "crash", "copy", "schema"}

\* Change i (0 for the first rows) of table t is in the writer's hands: stored,
\* in the window, or in an event it will receive.
Delivered(t, i) ==
  \/ i \in stored[t] \cup window
  \/ \E e \in Queued :
       /\ e.table = t
       /\ \/ e.kind = "row" /\ e.upTo = i
          \/ e.kind = "load" /\ i <= e.upTo

\* Change i of table t will be read by this session or the next.
StillRead(t, i) ==
  CASE reader = "streaming"  -> i > sent
    [] reader = "connecting" -> StartFrom = NoCp \/ i > StartFrom
    [] reader = "syncing"    -> recovered = NoCp \/ i > recovered
    [] reader = "copying"    -> i > target \/ (t \in todo /\ i <= view)
    [] reader = "opening"    -> TRUE
    [] reader = "positioning" -> TRUE
    [] OTHER                 -> FALSE

\* The hand-over leaves no gap: with an undisturbed snapshot, at every moment
\* every row of every table has been delivered to the writer or will still be
\* read, by the snapshot or by the stream (README.md:173, the stream continues
\* "at the recorded coordinates").
NoGap ==
  disturbed = {} /\ reader # "stopped" =>
    \A t \in Tables : \A i \in Content(t, Len(log)) : Delivered(t, i) \/ StillRead(t, i)

\* What a restart relies on: once an undisturbed snapshot is settled, the store
\* holds every row up to its checkpoint, so that streaming from there completes
\* it.
CheckpointCovers ==
  disturbed = {} /\ SnapshotSettled /\ ckpt # NoCp =>
    \A t \in Tables : Content(t, ckpt) \subseteq stored[t]

\* Whatever errors hit a snapshot while the process lives, the stream behind it
\* is complete as long as every table has its layout: every row after the recorded position has been delivered to the
\* writer or will still be read.
StreamLosesNothing ==
  {"crash", "schema"} \cap disturbed = {} /\ reader # "stopped" =>
    \A i \in (target + 1)..Len(log) : Delivered(log[i], i) \/ StillRead(log[i], i)

\* The pipeline has nothing left to do.
CaughtUp == SnapshotSettled /\ sent = Len(log) /\ chan = << >> /\ window = {}

\* "records the exact (File, Position) coordinates [...], streams the initial
\* backfill [...] and commits the initial checkpoint atomically" (README.md:173):
\* once caught up the store holds every row of every table, whatever happened.
BackfillComplete == CaughtUp => \A t \in Tables : stored[t] = Content(t, Len(log))

\* It does after an undisturbed snapshot, whatever happens behind it.
UndisturbedBackfill == disturbed = {} => BackfillComplete

=============================================================================
