# xloka-flow in TLA+

xloka-flow replicates MySQL tables into a local DuckDB file by reading the
binary log, and serves queries on the result. This directory models its
replication pipeline, the hosting of accounts and the live queries in TLA+,
checks them with TLC on small instances and proves their safety properties with
TLAPS for all instances. Paths are relative to the repository; `live.rs`, `filter.rs` and `schema_evolver.rs` are in `src/cdc/`,
`writer.rs` and `coalescer.rs` in `src/store/`, `ws.rs`, `router.rs` and
`queries.rs` in `src/api/`.

## 1. The system

| Component | State it keeps | Operations | Talks to |
|---|---|---|---|
| CDC reader (`LiveCdc`, live.rs) | `initial_checkpoint`, attempts, per session: schemas, projections, table maps, position; a JSON checkpoint file | recover the checkpoint, sync schemas, snapshot, stream rows, DDL, reconnect | MySQL; sends `CdcEvent`s over a bounded channel |
| Event channel | up to 1,000 events | send waits for room, fails when the writer is gone | reader to writer |
| Store writer (`StoreWriter`, writer.rs) | coalescer, table layouts, consecutive flush failures | row, DDL, schema, bulk load, tick, channel closed | DuckDB; broadcasts commit notifications |
| Batch coalescer (coalescer.rs) | per table an `IndexMap` from primary key to pending operation, the latest checkpoint | `push`, `drain_tables`, `reset_window` | called by the writer |
| DuckDB file | replicated tables, `_xloka_checkpoint` | transactions | the only state besides the JSON files that outlives the process |
| Schema evolver (schema_evolver.rs) | none | translate ALTER, diff schemas | called by the writer |
| Filter (filter.rs) | none | admit tables, project columns | called by the reader |
| Account manager (`src/accounts.rs`) | accounts, their tasks and telemetry, the last applied hash, `accounts.json` | load, spawn, stop, reconcile, add, remove, save | one pipeline per account; the reader registry |
| Live queries (ws.rs) | connections; per session the subscriptions with their marks and throttles, running evaluations | upgrade, subscribe, commit notification, lag, outcome, debounce | broadcast channel, DuckDB readers |
| Queries and store registry (queries.rs) | the query manifest, a registry of open readers | execute, register | DuckDB readers |
| Router, metrics (`src/api/`) | counters | HTTP handlers | account manager, queries |
| Mock source (`src/cdc/mock.rs`) | synthetic tables | generates events | the same channel |

What is hard here: a row passes through four places that fail separately
(MySQL's log, the channel, the window, the file); the reader and the writer
advance independently and share two checkpoints; everything in memory is lost in
a crash and delivered again from a checkpoint; the window reorders and merges
operations on keys that can be vacated and used again; rows carry no column
names, so they mean what the schema says that the reader happens to have; tasks
are aborted and started while others work on the same account and file; and a
session learns of commits from a channel that may overwrite them, while its
queries run.

What makes each part correct:

- *coalescer and flush*: flushing a window has the effect of the operations it
  absorbed, in order;
- *writer*: rows and checkpoint land together; a failed flush loses nothing;
- *reader and checkpoint*: the position streamed from never lies beyond a row
  that is not stored; replay repairs what it disturbs;
- *snapshot*: no row falls between snapshot and stream;
- *DDL and filter*: values stay in the columns they were written to, excluded
  ones stay out, a DDL that is read again does no harm;
- *accounts*: one writer per file, and none that nobody can stop; what runs is what
  the file says;
- *live queries*: a snapshot reflects the batch it is labelled with; a client
  that misses something is told; a stale subscription is refreshed.

`PROJECT.json` lists the components and the places where these can go wrong.

## 2. Modules

| Module | Models |
|---|---|
| `Coalescer` | `BatchCoalescer::push`, `compute_stale_pks` and the statements of `flush_batch`, as operators on one table |
| `CoalescerWindow` | the coalescer fed by an arbitrary MySQL workload and flushed at arbitrary moments |
| `MySqlBinlog` | MySQL and its row-based binary log (external, modelled from what live.rs reads) |
| `RowPipeline` | reader, channel, writer, DuckDB file, crashes: the row path of a pipeline; composes `MySqlBinlog` and `Coalescer` |
| `Replica` | the abstract promise: the replica is the source at the advertised position, which only moves forward |
| `SnapshotLoad` | the initial snapshot of several tables and its hand-over to the stream |
| `SchemaStream` | DDL in the stream: reader, filter, translation, table layouts, with crashes and reconnects |
| `AccountManager` | loading, reconciling and administering the accounts, and the writers that run for them |
| `LiveQuery` | Is a client shown only its account (`AccountIsolation`), a snapshot at least as new as its label (`SnapshotCoversBatch`), every delta behind the last lag it was told of (`DeltasComplete`), and does the connection limit hold (`ConnectionLimit`)? | 2 accounts, 2 clients with or without a key and a limit of 1, so that upgrades overlap and are refused, a channel of 1 so that the second announcement overwrites the first, 2 changes, 1 of them silent, 1 subscription |
| `MC*` | instances for TLC (symmetry, structured constants) |
| `CoalescerProofs`, `CoalescerWindowProofs`, `RowPipelineProofs`, `SnapshotLoadProofs`, `SchemaStreamProofs`, `AccountManagerProofs`, `LiveQueryProofs` | lemmas and theorems about the module each is named for |
| `QueueLemmas` | what appending, taking the head and concatenating do to a queue |

### State and actions against the code

**Window.** A row is its primary key and one value for all other columns. The
code uses a before image only for its primary key, so `before` is a key. The
`IndexMap` is a pair: `entry` (what is pending for each key) and `order` (its
iteration order, which `shift_remove` keeps and `swap_remove` does not).
`PushEntry` and `PushOrder` are `push`: first the collapse of a primary-key
change of a pending row (`Collapses`), then the transition table (`Merged`).
`FlushResult` is the transaction of `flush_batch`: all deletes (`DeletedKeys`),
then all appends (`AppendedKeys`), with the keys `compute_stale_pks` finds
(`StaleKeys`) left out. Tables do not interact in a window, so one is modelled.

**Row path.** `hist[i]` is the MySQL table after `i` logged rows. A rows event
may hold several rows, and a statement may be split over several events of which
only the first has a table map; a client sees only the ends of events.
`RecoverCheckpoint`, `SyncSchema`, `ReadRow`, `SkipEvent`, `StreamError` and
`StreamEnds` are `run` and `run_once`; `WriterTick`, `WriterRow`, `WriterSchema`
and `WriterClosed` are the branches of `StoreWriter::run`, each with the flush it
may do and both of its outcomes. `CrashRestart` keeps `stored` and `ckpt` and
resets the rest, as a new process does; leaving `run_sync` (any of its three
`select!` branches) is the same step, because nothing is drained there. The JSON
file plays no role once the store has a checkpoint, and is left to `SnapshotLoad`.
The table exists with all its columns, so what can fail of a schema event is the
layout (`InstallLayout`); without one the rows of a flush are dropped (`Flushed`).

**Snapshot.** Here a change is the insertion of a new row, so that a table is the
set of changes it holds; what updates and deletes add is the row path's subject.
The phases of `reader` follow `run_once`: schemas, `START TRANSACTION WITH
CONSISTENT SNAPSHOT` (`OpenSnapshot`), the coordinates (`RecordPosition`), one
file per table (`SnapshotTable`), the JSON checkpoint (`EndSnapshot`), the stream.
A failed `CREATE TABLE` or layout is only logged (`ApplySchema`), and so is a failed
or conflicting `COPY`, behind which the checkpoint is persisted in a transaction of
its own (`WriterLoad`, `PersistCheckpoint`). The
variable `disturbed` belongs to the properties, not to the program: it notes what
hit a snapshot that was not loaded yet, and no guard reads it.

**Schema changes.** A MySQL table has its columns in order and at most one row; a
value is the column it was written to and the event that wrote it, so that a
value in the wrong column shows. `hist` holds MySQL's tables at every position of
the log. `Sync` is the start of `run_once`: the position, and the schema MySQL has
*now* of every allowed table. `ReadRow`, `ReadAlter`, `ReadCreate`, `ReadDrop` and
`ReadRename` are the branches of the stream; each sends what the code sends, in
its order, or ends the session where the code returns an error (`StreamError`).
The filter is `Project`, `ProjectRow` and `ProjectSchema`; `Translated` and
`DiffSchema` are `translate_alter` and `diff_schema`, `Taken` is what DuckDB makes
of a DDL event (`None` when it refuses it). On the writer's side `ReceiveRow`,
`ReceiveSchema` and `ReceiveDdl` flush the pending rows under the layouts they
were bound with, and change the tables and the layouts; `PersistCheckpoint` is a
step of its own because it is a transaction of its own. The application of a schema
may fail at each of its statements (`SchemaBroken`), and the writer goes on: a table
may be missing, or lack columns, or keep its old layout. In the last case it is
`stale` when columns were added to it: DuckDB's appender does not take the rows its
layout makes (`Bindable`), and every flush of them fails until the writer gives up
(`FlushFails`; the attempts before the last change nothing and are no steps). The
variable `damaged` belongs to the properties: it notes the tables a schema was not
applied to, and no guard reads it. `Restart` keeps the store and MySQL. What MySQL may do while the reader is behind is bounded by three
constants (`Lag`, `Replayable`, `Rewindable`, section 3).

**Accounts.** What `spawn_account`, `stop_account`, `reconcile_from_disk`,
`add_account` and `remove_account` do in one procedure is cut where they release a
lock or await: an actor (the reconciling task, or a request) holds a `job`, the
steps it has left (`"stop"`, `"wait"`, `"check"`, `"open"`, `"insert"`,
`"collect"`, `"save"`, `"mark"`), and `Work(x)` does the next. Aborting a task
only asks for it (`Stop`); it ends whenever it likes (`AbortLands`), and unregisters
its path, whoever has registered it (`Ends`). The pause of `stop_account` (`Wait`)
guarantees nothing: it is a sleep, or the time it takes to unlink files. A pass of the
reconciler reads the file (`ReadFile`), plans against the accounts registered at
that moment (`Plan`), removes, applies (`PassRemove`, `PassApply`) and notes the
hash (`PassEnds`). `EditFile` is an operator with an editor, who may leave the
file malformed; `Halt` is a writer or reader that gives up.

**Live queries.** The data of an account is the sequence of its changes: what a
query returns is how many of them it saw, and a batch id is the position of its
change. `Commit` and `Announce` are two steps because `flush_batch` commits first
and sends the notification afterwards. `inbox` and `missed` are a receiver of the
broadcast channel, which overwrites its oldest message when it is full. The
branches of the `select!` loop are `SubscribeQuery`, `SubscribeTableDeltas` and
`Unsubscribe` (client messages), `ReceiveCommit` and `ReceiveLagged`
(announcements), `Complete` (an outcome) and `DebounceTick`. `Spawned` is
`spawn_evaluation`; the task reads the store (`Evaluate`) and reports (`Report`)
whenever it likes. An outcome carries the subscription's id only, which a client
may use again, so an evaluation may be delivered to a later subscription, as in
the code. Time is a flag: a subscription is `resting` until its throttle and its
backoff are over. The variable `overlooked` belongs to the properties: it notes
that an evaluation overlapped another of its subscription, failed for good, or
cleared the mark of a commit it did not see. `overlapped` notes the sessions that
were let in while another one had passed the check of the limit and was not yet
counted. No guard reads either. A delta subscription is told of a lag (`ToldOfLag`)
and owed every delta from then on.

## 3. What is checked

### Runs that pass

| Run | Question | Bounds |
|---|---|---|
| `WindowNoReuse` | Does a flush reproduce the MySQL table for every workload that does not reuse a vacated key? (`FlushMatchesSource`, and why: `WindowFaithful`) | 4 keys, 2 values, any number of operations and flushes. Four keys allow a chain of three moves beside a bystander; entries and order are bounded by the keys, so the state space is finite and complete |
| `PipelineCrash` | Does the store always tell the truth about its checkpoint, through crashes and failed flushes (`DurablePrefix`, `PendingExact`, `ImplementsReplica`, the inductive invariant `IInv`), and does it end up equal to MySQL (`Convergence`)? | 3 rows, window of 2, channel of 1, 2 failed flushes in a row halt the writer, 2 failures, 1 crash. The window and the channel hold all rows together, so each is full at some moment; a second failure is the one that halts |
| `PipelineUpserts` | In a process that has a checkpoint, of a source that inserts and updates only, does replay repair what a reconnect disturbs? (`ReplayRepairs`, `CaughtUpExact`) | 3 rows, window of 2, channel of 2, 2 reconnects, 1 failed flush, 1 crash. Two reconnects let the rows of two sessions wait in the channel for a third |
| `PipelineChaos` | Whatever fails, is every stored row one MySQL held (`RowsFromBinlog`), and the checkpoint never behind that of the process start (`RollbackBounded`)? | 2 rows in up to 2 events, split statements, key reuse, 2 stream errors (1 reconnect), 1 failed flush, 1 layout that fails, 1 crash; fires every action of the module |
| `SnapshotHandover` | Does the hand-over from snapshot to stream lose a row? (`NoGap`, `CheckpointCovers`, `UndisturbedBackfill`; and when faults hit the snapshot itself, `StreamLosesNothing`) | 2 tables, 3 changes, channel of 2, 2 stream errors (1 reconnect), 1 crash, 1 failed CREATE TABLE, layout or copy, at any moment |
| `SchemaStream` | Does the store end up with the tables, columns and rows the filter lets through (`StoreExact`, `Converges`), with values in their columns (`ValuesBelong`), nothing excluded (`ExcludedNeverStored`), a checkpoint that passes nothing unstored (`CheckpointCovered`) and every DDL accepted (`DdlApplies`)? When a schema fails, does this hold of all tables but its own? | 3 tables, one of them excluded, 4 columns, one excluded, 3 log events, 1 crash, stream error or DuckDB error (a flush, a DDL, a checkpoint, a schema). A row, a DDL and a row is the shortest history in which a layout can be out of date, a pending row be flushed too late, or a DDL be read twice around rows |
| `AccountLifecycle` | Do concurrent requests and passes run one writer per account (`OneRunningWriter`), lose no writer (`NoOrphan`), register no reader of a writer that has ended (`RegistryLive`), keep the limit (`AccountLimit`), does the file say what runs (`FileInForce`), and do edits of it take force (`EditsApplied`)? | 2 accounts, 4 configurations (base, another server, another key, disabled), limit of 1, 1 request beside the reconciler, 1 edit, 1 request, 1 fault. Two accounts and a limit of one make the limit bite; a request beside the reconciler is the overlap that matters. Each account is missing or in the base configuration at the start (`FewFiles`); the edit and the request bring the others, and the malformed file |
| `LiveQuery` | Is a client shown only its account (`AccountIsolation`), a snapshot at least as new as its label (`SnapshotCoversBatch`), every delta behind the last lag it was told of (`DeltasComplete`), and is a stale subscription never forgotten (`NotForgotten`)? | 2 accounts, 1 client with or without a key, a channel of 1 so that the second announcement overwrites the first, 2 changes, 1 of them silent, 2 subscriptions under one id, 1 failed evaluation |
| `LiveQueryReuse` | Is a subscription brought up to date again and again (`Refreshed`) and, when stale, never forgotten (`NotForgotten`), and is what it is shown as new as its label (`SnapshotCoversBatch`)? | 1 client that subscribes twice under one id, 2 changes, 1 silent, 1 failed evaluation: the evaluations of the first use meet the second |

`CHECK_DEADLOCK FALSE` in all but the window runs: the log, the changes and the
requests are bounded, so the system comes to rest when all is done, and parts of
it stop for good when they have given up. The window runs check deadlock.

Symmetry: keys, values, tables and clients are interchangeable where a run
declares it (no order on them is used); runs with a liveness property declare
none.

Fairness. *Pipeline* (`RowPipeline`, `SchemaStream`): both tasks are spawned on
the runtime and polled as long as they can move, which is weak fairness of the
reader and of the writer; the interval of the writer ticks forever and `select!`
picks among ready branches at random, which is weak fairness of `WriterTick`.
*Accounts*: the reconciling task ticks forever and finishes its pass, a request
that has begun is polled to its end, an aborted task ends at its next await.
*Live queries*: the writer announces what it has committed, in the same task; a
session together with the tasks of its evaluations keeps moving, which says
nothing of the order of its branches. No fairness is assumed of MySQL, clients,
commits, errors or crashes, and the properties exclude parts that have stopped
for good, which nothing restarts.

### What the passing runs assume

`PipelineCrash` and `PipelineUpserts` have one row per event and keep vacated keys
vacant; the first has no stream errors, the second no deletes and a checkpoint to
start from (`RestartedSpec`). `SchemaStream` leaves MySQL
alone while the reader is behind (`Lag = FALSE`), and lets only kinds of DDL be read
twice that survive it: after a restart TRUNCATEs and ALTERs that leave the columns
alone, or else DROPs (`Replayable`), after a reconnect DROPs or such ALTERs
(`Rewindable`). `AccountLifecycle` keeps two actors off one account at a time
(`SameId`) and requests off accounts that run (`Readd`); `AccountLimit` and
`FileInForce` say nothing of actors that overlapped (`raced`). `NotForgotten` and
`Refreshed` say nothing of a subscription whose evaluation was `overlooked`. No other
step is held back to make a property hold. The runs and configurations below remove
these assumptions.

### Runs that find a disagreement

Each shows, with the shortest trace TLC finds, a place where the code does not do
what a comment says. `PROJECT.json` quotes the sentence.

| Run | Property | What happens |
|---|---|---|
| `WindowReinsert` | `NoLostRows` | `swap_remove` reorders the window; a live row is taken for a superseded one and dropped |
| `SchemaRestart` | `DdlApplies` | ADD COLUMN is executed while the daemon is down: the schema sync adds the column, the replayed ADD COLUMN is refused and the writer halts, on every start |
| `LiveQueryLost` | `AlwaysRefreshed` | a commit announced while an evaluation runs marks the subscription; the evaluation, which has not seen it, clears the mark when it ends |

### Further configurations

These are `.cfg` files of this directory for the same `MC` modules (`tlc -config
X.cfg MC...`), not among the runs of `PROJECT.json`. Two of them pass:

| Configuration | Question | Bounds |
|---|---|---|
| `PipelineReplay` | Does replay repair what a reconnect disturbs for any changes of rows, with a window of one row? (`ReplayRepairs`, `CaughtUpExact`) | 3 rows, channel of 2, 1 reconnect, 1 crash |
| `SchemaReread` | Does the writer come to rest, also when a table has got a column and not the layout that knows of it (`Converges`)? Only here does a flush fail because the window cannot be bound | as `SchemaStream`, with 2 events, 2 faults and ALTERs of any kind that are read again after a reconnect: the first schema fails in the second session, of a table that the first had altered |

The others violate their property, which is what the code does, against what the
repository says:

| Configuration | Property | What happens | What is said |
|---|---|---|---|
| `PipelineBatched` | `CaughtUpExact` | a reconnect rewinds to the process start (live.rs:190); replayed insert and delete cancel out in the window and a deleted row stays | the delete before each append makes "crash-recovery binlog replay" idempotent (writer.rs:719) |
| `PipelineEvents` | `CaughtUpExact` | all rows of an event share its end as checkpoint (live.rs:655); a restart between two of them loses the rest | "pending data is retained and will replay from the last persisted checkpoint on restart" (writer.rs:320) |
| `PipelineSplit` | `CaughtUpExact` | a restart between the events of one statement passes over rows that have no table map of their own (live.rs:621) | the same |
| `PipelineTwice` | `CaughtUpExact` | a process that started without a checkpoint reconnects twice: rows of the second session roll store and checkpoint back behind the third (live.rs:194) | writer.rs:719 again |
| `SnapshotCrash` | `BackfillComplete` | the JSON checkpoint is saved before the writer has loaded the snapshot (live.rs:571); after a crash the snapshot is skipped | the backfill "commits the initial checkpoint atomically" (README.md:173) |
| `SnapshotGap` | `BackfillComplete` | a row committed between snapshot and coordinates is in neither (live.rs:430) | the snapshot has "the exact `(File, Position)` coordinates" (README.md:173) |
| `SchemaDropped` | `NothingLost` | a schema that fails is only logged (writer.rs:400): the rows of its table are dropped and the checkpoint moves past them | "no batch is ever silently lost" (writer.rs:618) |
| `SchemaLag` | `ExcludedNeverStored` | an ALTER is executed ahead of rows the reader has yet to read: they are parsed by the columns behind it (live.rs:345) | "Columns that must never be replicated (always wins over `include`)" (filter.rs:23) |
| `SchemaDropPair` | `CheckpointCovered` | the events of one DROP share a checkpoint (live.rs:903); a crash between them keeps the other table | "The DDL and the binlog checkpoint are applied in a single DuckDB transaction" (writer.rs:465) |
| `SchemaRenamed` | `DdlApplies` | a rename of an excluded table into the filter names a table the store does not have (live.rs:829) | a failed DDL "is replayed on the next start instead of being silently skipped" (writer.rs:373) |
| `AccountOverlap` | `OneWriterPerFile` | a restarted account opens its file while its aborted writer still holds it (accounts.rs:881) | "Single-Writer Lock Invariant" (`src/lib.rs:9`) |
| `AccountReaders` | `ReadersRegistered` | the Drop of an aborted writer unregisters its successor's reader (writer.rs:155) | readers "try_clone the writer's connection when it already holds the file" (writer.rs:171) |
| `AccountReadd` | `NoOrphan` | adding an account that runs leaves its old writer running, beside the new one (accounts.rs:513) | `src/lib.rs:9` again |
| `LiveQueryCrowded` | `StrictLimit` | both upgrades pass the check of the limit before either is counted (ws.rs:227) | "Maximum concurrent WebSocket connections" (config.example.toml:17) |

The following change a constant or the property of a configuration; to see one, take
the `.cfg` named here and change it. They show that the assumptions of the passing
runs are needed.

| Change | What happens |
|---|---|
| `WindowReinsert`, `Workload = {"takeover"}`, `NoGhostRows` | DELETE 2, UPDATE id 1 to 2 in one window: row 1 stays in the store |
| `WindowReinsert`, `Workload = {"reinsert", "chain"}` | UPDATE id 1 to 2, INSERT 1, UPDATE id 2 to 3: the collapse puts the entry of 3 behind the insert, which is dropped |
| `PipelineReplay`, `MaxFlushErrors = 1` | `PipelineBatched` without a larger batch: a failed flush keeps its row, and the insert and delete that are replayed meet in the window |
| `SnapshotHandover`, `disturbed = {"error"} => BackfillComplete` | the first table's checkpoint makes a reconnect skip the other tables |
| the same, for `{"copy"}` | a failed copy leaves an empty table behind a persisted checkpoint |
| the same, for `{"schema"}` | a table without a layout loses the rows of the stream |
| `SchemaStream`, `Rewindable <- {{"truncate"}}` | a reconnect reads a TRUNCATE again, which empties rows the checkpoint covers (`CheckpointCovered`) |
| `SchemaStream`, `Replayable <- {{"truncate", "other", "drop"}}`, `MaxEvents = 4`, two tables | an ALTER of a table dropped since ends the session, and the next one reads a TRUNCATE of the other table again (`CheckpointCovered`) |
| `SchemaStream`, `Replayable <- {{"create", "drop"}}`, `Shapes <- {<<"k", "a">>}` | a table dropped and created again with other columns: rows of the old one are parsed with those of the new one (`ValuesBelong`) |
| `SchemaStream`, `Replayable <- {{"rename"}}` | a replayed RENAME TABLE is refused and the writer halts (`DdlApplies`) |
| `SchemaStream`, `Replayable <- {{"renameColumn"}}` | the schema sync has added the new name, the column keeps its old name and values beside it (`StoreExact`) |
| `SchemaStream`, `Replayable <- {{"dropColumn"}}` | rows before the DROP are parsed with the columns behind it: values end up in other columns (`ValuesBelong`, `ExcludedNeverStored`; live.rs:345) |
| `SchemaLag`, `Converges` under `FairSpec` | an ALTER of a table dropped since ends every session (live.rs:871) |
| `SchemaStream`, `Backfills = TRUE` | ADD COLUMN with a default fills the rows there are in MySQL, not in the store (`StoreExact`) |
| `SchemaStream`, `TableRenames <- {<<"t", "x">>}` | a table renamed to an excluded name stays in the store under its old one (`StoreExact`) |
| `SchemaStream`, `ColumnRenames <- {<<"b", "c">>}` | an excluded column that gets an allowed name is not copied (`StoreExact`) |
| `AccountLifecycle`, `ActiveAccountsRun` | the account that was refused at the limit stays down when another leaves: a pass looks only at accounts whose entry changed |
| `AccountLifecycle`, `SameId = TRUE` | a request and the reconciler both spawn one account: two running writers on one file (`OneRunningWriter`) |

Two more, read in the code while modelling: `max_accounts = 0` is documented as
unlimited (config.example.toml:49), while accounts.rs:696 refuses every account;
and a RENAME TABLE of several pairs is parsed as one (live.rs:1347).

## 4. What is proved

All theorems hold for any values of the constants, without bounds.

**Window** (`CoalescerWindowProofs`). `TypeCorrect`: for every workload, `order`
lists exactly the pending keys, each once, so that `compute_stale_pks` works on a
well-formed map. Under `NoReuseWorkload` (no insert of a key whose row moved away,
no move onto a vacated key; chains of moves are allowed), `WindowAlwaysFaithful`
and `FlushAlwaysExact`. The invariant is `Represents` (in `Coalescer`): each entry
says what MySQL holds for its key; a before image that differs from its key names
a key that is vacant in MySQL, has no entry and was vacated by a move; a key
nobody speaks of is unchanged. It is needed because exactness of the flush alone
is not inductive: it does not say that the before images of two entries never
meet. `CoalescerProofs` proves that `push` preserves it (`PushRepresents`) and
that the flush of a window that satisfies it is exact (`FlushExact`). It does so
without the order: under the assumption no key is both pending and consumed, so
no entry is ever stale. The two variants of `WindowReinsert` show that neither
half of the assumption can be dropped.

**Row path** (`RowPipelineProofs`). Under `SimpleSource` (one row per event, no
split statements, no reuse of vacated keys, no stream errors, every layout
installed) the theorem
`Invariance` proves `IInv`, the conjunction of: `TypeOK`; `LogConsistent` (the
history is the log replayed); `ChannelInOrder` (the channel holds exactly the rows
between the last one absorbed and the last one read); `WindowFaithful` (the window
stands for the rows between checkpoint and last absorbed row); `DurablePrefix`.
From it follow `DurableAlwaysPrefix`, `PendingAlwaysExact`
and `PipelineImplementsReplica`, the refinement of
`Replica` with the stored table as replica and the checkpoint as position.
`DurablePrefix` is not inductive without the others: a flush is exact only if the
window is, and the window only if the next row in the channel is the next row of
the log. `PipelineEvents`, `PipelineSplit`, `WindowReinsert`, `PipelineBatched` and
`SchemaDropped` show what the code does without each part of `SimpleSource`.

*Without any such assumption*, `Sound` is inductive: `TypeOK`; the history is the
log replayed; a queued row is one of the log; whatever is pending was drawn from
the history (`DrawsOn`, proved of `push` and of the flush in `CoalescerProofs`),
and so is whatever is stored. It gives `TypeCorrect` and `StoredRowsFromBinlog`:
replay, merging, retries and lost rows may leave the store behind or ahead, never
with a row MySQL did not have. With `Floor` (the position the process was started with
is below everything stored, absorbed, queued or read) it gives `RollbackAlwaysBounded`:
reconnects do take the checkpoint back, but never behind that position.

*With reconnects*, `ReplayInv` gives `ReplayAlwaysRepairs` and `CaughtUpAlwaysExact`
under `UpsertSource` (events of one row, no split statements, nothing deleted or moved,
every layout installed) for a process that starts with a checkpoint (`initialCp #
NoCp`, as every restarted one does); the size of the window, and the number of
reconnects, crashes and failed flushes, are free. Besides `Sound` and `Floor` it says
that every key whose stored value is not MySQL's current one is touched by a logged row
behind the checkpoint (`Repairable`, `LogTells`), and so is every key that a flush of
the window leaves behind (`PendingRepairable`); that the channel never takes the
checkpoint past a row without that row having been absorbed (`NoGaps`), and that once it
is empty the checkpoint is where the reader is (`ReadAhead`). The last two survive a
reconnect because every session starts from the same position, below all that an
earlier one has left in the channel. A window of upserts may be replayed as often as
one likes (`Upserts`); one with deletes may not (`PipelineBatched`), and without a
checkpoint at the start sessions begin at different positions (`PipelineTwice`).

**Snapshot** (`SnapshotLoadProofs`), for any tables, changes, capacity, errors,
crashes and refused statements (CREATE TABLE, layout, COPY), without further assumptions; the conditions are those
of the properties themselves (what has disturbed the snapshot). `IInv` is `TypeOK`
and `Shape` (what an event, the window and a stored row are), and two parts:

- as long as the process has not been replaced before its snapshot was settled,
  `StreamInv`: the rows behind the recorded position, up to any position that
  somebody would start from, are stored, in the window or in the channel. It says
  so of each such position, because each may become the next: the store's
  checkpoint, the window's, those of the rows in the channel (up to their own
  place in it), the one a session starts from and the one it has read up to; and
  a session that streams has a checkpoint in the store or on its way
  (`SnapshotBacked`). No event of a table reaches the writer ahead of its schema
  (`LayoutFirst`), so only a schema that was refused makes rows drop. It gives
  `StreamNeverLoses`.
- as long as nothing has disturbed the snapshot, `LoadInv`: what the snapshot sees
  is what was committed at the recorded position (`ViewExact`), a table is either
  still to be copied and empty, queued once and ahead of all rows, or loaded
  (`ToCopy`, `LoadsExact`, `AllLoaded`). Together with the first it gives
  `HandoverLeavesNoGap`, `CheckpointAlwaysCovers` and `UndisturbedComplete`.

The variants of `SnapshotHandover` show what each disturbance does.

**Accounts** (`AccountManagerProofs`), for any accounts, configurations, requests
in flight, edits and faults:

- `TypeCorrect`, and `LimitHolds`, with no assumption: while actors have not
  overlapped, one works at a time (`Alone`), so nobody takes the place the check
  of the limit has found free before it is used (`Room`);
- `RegistryAlwaysLive`, with no assumption: whoever overlaps, a registered reader
  is that of a writer that runs;
- under `TakingTurns` (actors keep off an account somebody works on, requests add
  no account that runs), `OneRunning` and `WritersFound`, from `WriterInv`, however
  long aborted writers take to end. Its core is `Held`: an account has at most one
  writer that has not been asked to stop, and it belongs to the entry or to the actor
  about to make it. It is inductive only with `Turns` (one actor per account, and none
  at those a pass has before it) and with what the steps left mean for the account
  (`Stopped`): an actor that is past its check finds no tasks. The steps an actor
  has left are one of a few sequences (`JobShape`), which is what makes "next" a
  fact about the whole procedure;
- `FileTakesForce`, from `ForceInv`: a pass has applied what it does not have before it
  (`PassDone`), between passes the accounts are what was applied last (`InForce`),
  and what a request is about to save is what is registered (`Collected`).

`AccountLifecycle` with `SameId = TRUE`, and `AccountReadd`, show that both parts of
`TakingTurns` are needed; `AccountOverlap` shows what is not true: that an aborted writer
has ended when its successor starts.

**Schema changes** (`SchemaStreamProofs`), for any tables, columns, filters and
statements, and any number of events and faults:

- `TypeCorrect` and `NamesAlwaysFiltered`, with no assumption on the schedule: also
  a reader that is behind, or reads statements twice, stores no table and no column
  the filter excludes. The invariant is `Shape(Value)`: what the log, the channel,
  the window and the store are made of, in particular that the events in the
  channel name allowed tables and projected columns only. It is written for a set
  `V` of the values rows may hold; every step keeps it as long as the rows the
  reader makes are made of `V` (`ShapeStep`);
- `ExcludedNeverReplicated`, under `ReadsInTime`: MySQL executes a statement only
  when the reader has read the one before (`~Lag`), and what a session or a restart
  reads again are statements that change no columns. The invariant is
  `Shape(CleanValue)`, for the values written to columns the filter lets through,
  with `LogInv` (every event of the log did to the tables what its kind says) and
  `ReaderInv`. Names alone are not enough, since rows have none: values are bound
  to columns by position (`parse_row_vec`), so the schema at hand must be the one
  the row was written with (`Fits`), for every row still to be read. A session that
  begins fetches schemas that may be newer than its position; what makes them fit
  is that it either passes statements that change nothing (`Undisturbed`) or has
  none but rows before the next one (`Awaited`). `SchemaStream` runs with such
  constants; `SchemaLag` and the variant with `Replayable <- {{"dropColumn"}}` show
  that both halves are needed;
- `StoreAlwaysExact`, `ValuesAlwaysBelong`, `CheckpointAlwaysCovered` and
  `DdlAlwaysApplies`, under `InOrder`: `ReadsInTime`, and what is read again are
  truncations or drops, not both, beside ALTERs that leave the columns alone, and no
  truncation after a reconnect; a DROP names one table; ADD COLUMN fills no rows;
  renames of tables do not cross the filter, and no excluded column gets an allowed
  name. The constants of the run `SchemaStream` satisfy it. The first three are about
  the tables whose schemas were applied, the last about runs in which all were. That
  the parts are needed is shown by `SchemaLag`, `SchemaDropPair`, `SchemaRenamed` and
  variants of that run: `Backfills = TRUE`, `TableRenames`, `ColumnRenames`, and one
  each for the kinds of DDL that must not be read again. Two cases are excluded that TLC finds no counterexample to: a
  TRUNCATE and a DROP that are pending together, without an ALTER, and a CREATE that
  is pending alone.

  The invariant is `Correct`: `Shape(Value)`, `LogInv` and `ReaderInv` as above, and
  - `Histories`: each event of the log did to MySQL's tables exactly what its
    statement says (`Statement`), so that every table of the history is one MySQL can
    have, its row as long as its columns;
  - `StoreInv`: every stored table is the image of MySQL's at the checkpoint or behind
    it, or of an earlier one that is about to be dropped (`Covered`), and nothing was
    refused (of the tables that are not `damaged`);
  - `RunInv`: while the writer runs, there are states of the writer, one for each
    event in the channel and one more, that lead from what it has now, its window
    included, but for the tables that are damaged (`Like`), to what it will have when all that was sent is written. Each
    link of this run is a step the store takes (`Link`: the DDL is not refused), ends
    covered by its checkpoint, and when it is a DDL is covered by the checkpoint before
    as well, since table and checkpoint are two transactions. At the end of the run
    the reader may go on (`End`): its schemas are the layouts there, the tables there
    are covered by the reader's position, and a statement still to be read is either
    harmless to read again (`Calmly`) or the first of its kind, all that was before it
    being in the tables (`Before`).

  `RunInv` is what makes the properties inductive: they speak of the store, and what
  becomes of it was decided when the events were sent, with the schemas of that time.
  The reader makes the run longer (`Extends`, one lemma for each branch of `run_once`),
  the writer takes its first link, a flush moves the window to the store without
  moving that, a schema that fails takes its table out of `Like`, MySQL's log only grows, and a restart begins with an empty run. The
  work on data is in lemmas of its own: a projection takes each kept position once
  (`SelectedPositions`), so its names are the allowed columns and its values stay
  beside them (`ProjectedColumns`, `ProjectedValues`), what is loaded of a table, and
  what a row parsed by position and bound by name makes of it, are its image cell by
  cell (`LoadedIs`, `RowAsLoaded`), and for every ALTER the translation of `translate_alter`, with the
  fallback to the diff of the projections, takes the image of the table before to the
  image of the table after (`AlterTaken`).

**Live queries** (`LiveQueryProofs`), for any number of accounts, clients,
subscription ids, changes and failures and any capacity of the channel:

- `TypeCorrect`;
- `AccountAlwaysIsolated` and `SnapshotAlwaysCovers`, from `IInv`. A snapshot is
  sound only if what it is made of was: the evaluations under way (`EvalsSound`),
  their outcomes (`OutcomesSound`), the subscriptions and the batch ids they were
  marked with (`SubsSound`), and the announcements in the queues (`InboxSound`)
  each name an account the key admits and a batch the store has. `IdleEmpty` says
  that a session that has ended leaves nothing behind for the next one of the
  same client, which may have another key;
- `DeltasAlwaysComplete`, from `DInv`: besides `InboxSound` it needs the queue to be
  bounded (`QueueBounded`), so that an announcement that does not fit is the one
  that sets `missed`; a client that has been told of it is owed what comes behind;
- `StaleNeverForgotten` (`NotForgotten`), from `NInv`. Its core is `Remembered`, of
  every subscription no evaluation was overlooked for: an announced change it is
  not shown is coming (`AnnouncedComing`); its evaluations read its own store
  (`UnderwayMatches`); and as long as no commit waits for them they have seen all
  but what is still queued (`UnderwayFresh`), so that the mark they clear covers
  nothing. `LiveQueryLost` shows that without the exception it is false;
- `LimitAlwaysHolds`, for a finite set of clients, with upgrades that overlap at will:
  it counts the sessions that were let in, not only those that run, without those that
  raced with another one, which is how the limit is exceeded (`LiveQueryCrowded`).

Assumptions on constants are the ones named in the modules (`AbsentAssumption`,
`NoKeyAssumption`, `BinlogAssumption`, `PipelineAssumption`,
`WorkloadAssumption`, `SnapshotAssumption`, `SchemaAssumption`,
`AccountAssumption`, `LiveQueryAssumption`, `NothingAssumption`); TLC evaluates
them in every run.

**Only model-checked**: liveness (`Convergence`, `Converges`, `EditsApplied`,
`Refreshed`), since fairness is out of the prover's reach. Every invariant and every
other action property of the passing runs is stated by a theorem.

## 5. What is abstracted, and what is not modelled

- Full row images (`binlog_row_image = FULL`, which the README requires).
- Values, types and their conversion (`types.rs`), MODIFY of a column's type,
  the glob patterns of the filter, metrics, telemetry, logging.
- A single table in the row path, admitted by the filter, with a primary key; in
  `SchemaStream` a primary key that stays, rows not coalesced with each other, an
  ALTER with one operation, one database, no log rotation.
- Failing connections count as stream errors; fatal configuration errors end the
  reader and are the same as giving up.
- DuckDB and MySQL are transactional as documented; the DuckDB file survives a
  crash with its committed transactions.
- In `LiveQuery` the writers live as long as the sessions: batch ids, which start
  over with a new writer, do not start over, and accounts are not removed.
  Bulk loads and DDL change tables without an announcement, against ws.rs:28;
  they are the silent changes, and no property asks for them to be shown.
- In `AccountManager` a pipeline is its writer; the key file, the HTTP layer, the
  removal of data files and the telemetry are left out. Two requests at a time
  are covered only as far as one request and the reconciler are.
- Not modelled: mock source (test data), metrics and error types, loading of
  configuration, REST handlers that only read, build and CI: pure functions,
  stateless handlers or I/O.

## 6. Plan

Done: `Coalescer`, `CoalescerWindow`, `MySqlBinlog`, `RowPipeline`, `Replica`,
`SnapshotLoad`, `SchemaStream`, `AccountManager`, `LiveQuery`, and the proofs
listed in section 4. Left, in this order:

1. `FilterProjection`: the projection of a table and its primary key against a
   reference definition, over bounded inputs.
2. A weaker `InOrder`: a CREATE that is read again.
