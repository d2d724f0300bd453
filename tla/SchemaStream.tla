----------------------------- MODULE SchemaStream -----------------------------
(***************************************************************************)
(* Schema changes in the stream: the reader (src/cdc/live.rs) turns a DDL  *)
(* statement of the binary log into an event, with the schema it fetches   *)
(* from MySQL at that time; it parses rows by position with the schemas it *)
(* fetched; the filter (src/cdc/filter.rs) projects both; the writer       *)
(* (src/store/writer.rs) translates the DDL (src/cdc/schema_evolver.rs)    *)
(* and stores rows by column name.                                         *)
(*                                                                         *)
(* A table holds one row at most; a value is the column it was written to  *)
(* and the event that wrote it, so a value in the wrong column shows.      *)
(* Every table keeps its primary key.  Types are left out, and so is the   *)
(* coalescing of rows (Coalescer).  A flush that fails and succeeds when   *)
(* it is tried again changes nothing.  An ALTER has one operation.         *)
(*                                                                         *)
(* Bounds: MaxEvents events in the log, MaxFaults crashes, stream errors   *)
(* and DuckDB errors.  Lag, Replayable and Rewindable bound what MySQL may *)
(* do while the reader is behind.                                          *)
(***************************************************************************)
EXTENDS Integers, Sequences, FiniteSets, SequencesExt

CONSTANTS
  Tables, Columns,
  Key,              \* the primary key of every table
  Shapes,           \* columns, in order, a table may be created with
  Initial,          \* the tables at the checkpoint the pipeline starts from
  ExcludedTables,   \* the filter: tables and columns never to be replicated
  ExcludedColumns,
  Drops,            \* tables, in order, one DROP TABLE may name
  TableRenames,     \* RENAME TABLE: <<from, to>>
  ColumnRenames,    \* RENAME COLUMN: <<old, new>>
  Backfills,        \* may ADD COLUMN fill the rows there are?
  Lag,              \* may a DDL be executed while another is unread?
  Replayable,       \* sets of kinds of DDL that may be pending when the daemon restarts
  Rewindable,       \* sets of kinds of DDL a reconnect may read again
  MaxEvents, MaxFaults,
  None, Null

Alters == {"addColumn", "dropColumn", "renameColumn", "other"}
Kinds == {"create", "drop", "truncate", "rename"} \cup Alters

\* A MySQL table has its columns in order and a row of values in that order; a
\* local table has a set of columns, and a row by name.
Value == (Columns \X (0 .. MaxEvents)) \cup {Null}
Table == [cols : Seq(Columns), row : Seq(Value)]
LocalTable ==
  UNION {[cols : {cols}, row : [cols -> Value] \cup {None}] : cols \in SUBSET Columns}

NoRow == <<>>

\* A row that event n wrote.
Written(cols, n) == [i \in DOMAIN cols |-> <<cols[i], n>>]

\* The columns of a table, in order: each once, and the primary key is there.
TableColumns == {cols \in Seq(Columns) : IsInjective(cols) /\ Key \in ToSet(cols)}

ASSUME SchemaAssumption ==
  /\ IsFiniteSet(Tables)
  /\ ExcludedTables \subseteq Tables /\ ExcludedColumns \subseteq Columns
  /\ Shapes \subseteq TableColumns /\ Key \notin ExcludedColumns
  /\ Initial \in [Tables -> Table \cup {None}]
  /\ \A t \in Tables : Initial[t] # None =>
       /\ Initial[t].cols \in TableColumns
       /\ Initial[t].row \in {NoRow, Written(Initial[t].cols, 0)}
  /\ Drops \subseteq Seq(Tables)
  /\ TableRenames \subseteq Tables \X Tables /\ ColumnRenames \subseteq (Columns \ {Key}) \X Columns
  /\ {Lag, Backfills} \subseteq BOOLEAN
  /\ Replayable \cup Rewindable \subseteq SUBSET Kinds
  /\ {MaxEvents, MaxFaults} \subseteq Nat
  /\ None \notin Table \cup LocalTable \cup Seq(Value) \cup Seq(Columns)
  /\ None \notin [Tables -> LocalTable \cup {None}]
  /\ \A cols \in SUBSET Columns : None \notin [cols -> Value]

VARIABLES
  log,       \* the binary log
  hist,      \* MySQL's tables before and behind each event of it
  store,     \* DuckDB: the tables
  ckpt,      \* DuckDB: the checkpoint
  startCp,   \* config.initial_checkpoint
  reader,    \* "connecting", "streaming" or "stopped"
  pos,       \* the reader: events read, or to be skipped
  schemas,   \* the reader: table_schemas
  chan,      \* the event channel
  writer,    \* "running" or "halted"
  layouts,   \* the writer: the source schema of each layout
  stale,     \* the writer: tables that have columns their layout does not know of
  window,    \* the writer: the last row of each table in the coalescer
  winCp,     \* the writer: latest_checkpoint, or 0
  ddlCp,     \* the writer: the checkpoint of an applied DDL, or 0
  refused,   \* a DDL was refused by DuckDB or could not be translated
  damaged,   \* tables a schema was not, or only partly, applied to
  faults

mysqlVars == <<log, hist>>
storeVars == <<store, ckpt>>
readerVars == <<startCp, reader, pos, schemas>>
writerVars == <<writer, layouts, stale, window, winCp, ddlCp>>
vars == <<mysqlVars, storeVars, readerVars, chan, writerVars, refused, damaged, faults>>

-----------------------------------------------------------------------------
MySql == hist[Len(hist)]
SchemaOf(t) == IF MySql[t] = None THEN None ELSE MySql[t].cols

ByName(cols, row) ==
  [c \in ToSet(cols) |-> LET p == CHOOSE i \in DOMAIN cols : cols[i] = c
                         IN  IF p \in DOMAIN row THEN row[p] ELSE Null]

-----------------------------------------------------------------------------
\* The filter.

TableAllowed(t) == t \notin ExcludedTables

ColumnAllowed(c) == c \notin ExcludedColumns

\* project_table: the indices of a table's columns that are kept...
Project(cols) == {i \in DOMAIN cols : ColumnAllowed(cols[i])}

\* The elements of a sequence at some of its positions.
Selected(seq, positions) ==
  LET keep == CHOOSE f \in [1 .. Cardinality(positions) -> positions] :
                \A i, j \in DOMAIN f : i < j => f[i] < f[j]
  IN  [k \in DOMAIN keep |-> seq[keep[k]]]

ProjectSchema(cols) == Selected(cols, Project(cols))

\* ...and project_row; an index beyond the row gives NULL.
ProjectRow(cols, row) ==
  Selected([i \in DOMAIN cols |-> IF i \in DOMAIN row THEN row[i] ELSE Null], Project(cols))

-----------------------------------------------------------------------------
\* MySQL.

Loaded(table) ==
  IF table = None THEN None
  ELSE [cols |-> ToSet(ProjectSchema(table.cols)),
        row |-> IF table.row = NoRow THEN None
                ELSE ByName(ProjectSchema(table.cols), ProjectRow(table.cols, table.row))]

Init ==
  /\ log = <<>>
  /\ hist = <<Initial>>
  /\ store = [t \in Tables |-> IF TableAllowed(t) THEN Loaded(Initial[t]) ELSE None]
  /\ ckpt = 0 /\ startCp = 0
  /\ reader = "connecting" /\ pos = 0
  /\ schemas = [t \in Tables |-> None]
  /\ chan = <<>>
  /\ writer = "running"
  /\ layouts = [t \in Tables |-> None]
  /\ stale = {}
  /\ window = [t \in Tables |-> None]
  /\ winCp = 0 /\ ddlCp = 0
  /\ refused = FALSE
  /\ damaged = {}
  /\ faults = 0

\* Kinds of DDL between position p and the end of the log.
Pending(p) == {log[i].kind : i \in p + 1 .. Len(log)} \ {"row"}
Within(kinds, sets) == \E S \in sets : kinds \subseteq S

Logged(event, db) ==
  /\ Len(log) < MaxEvents
  /\ log' = Append(log, event)
  /\ hist' = Append(hist, db)
  /\ UNCHANGED <<storeVars, readerVars, chan, writerVars, refused, damaged, faults>>

Ddl(kind, tables, arg, db) ==
  /\ Lag \/ (Pending(pos) = {} /\ (reader = "streaming" \/ Within({kind}, Replayable)))
  /\ Logged([kind |-> kind, tables |-> tables, arg |-> arg], db)

\* A row is inserted or replaced, or deleted.
WriteRow(t) ==
  /\ MySql[t] # None
  /\ \E row \in {NoRow, Written(MySql[t].cols, Len(log) + 1)} :
       Logged([kind |-> "row", tables |-> <<t>>, arg |-> row], [MySql EXCEPT ![t].row = row])

CreateTable(t, cols) ==
  /\ MySql[t] = None
  /\ Ddl("create", <<t>>, None, [MySql EXCEPT ![t] = [cols |-> cols, row |-> NoRow]])

DropTables(tables) ==
  /\ \A t \in ToSet(tables) : MySql[t] # None
  /\ Ddl("drop", tables, None,
         [t \in Tables |-> IF t \in ToSet(tables) THEN None ELSE MySql[t]])

TruncateTable(t) ==
  /\ MySql[t] # None
  /\ Ddl("truncate", <<t>>, None, [MySql EXCEPT ![t].row = NoRow])

RenameTable(from, to) ==
  /\ MySql[from] # None /\ MySql[to] = None
  /\ Ddl("rename", <<from>>, to, [MySql EXCEPT ![from] = None, ![to] = MySql[from]])

\* ADD COLUMN c at position i, NULL in the rows there are, or its default.
AddColumn(t, c, i) ==
  /\ MySql[t] # None /\ c \notin ToSet(MySql[t].cols)
  /\ i \in 1 .. Len(MySql[t].cols) + 1
  /\ \E value \in {Null} \cup (IF Backfills THEN {<<c, Len(log) + 1>>} ELSE {}) :
       Ddl("addColumn", <<t>>, c,
           [MySql EXCEPT ![t] = [cols |-> InsertAt(@.cols, i, c),
                                 row |-> IF @.row = NoRow THEN NoRow ELSE InsertAt(@.row, i, value)]])

DropColumn(t, i) ==
  /\ MySql[t] # None /\ i \in DOMAIN MySql[t].cols /\ MySql[t].cols[i] # Key
  /\ Ddl("dropColumn", <<t>>, MySql[t].cols[i],
         [MySql EXCEPT ![t] = [cols |-> RemoveAt(@.cols, i),
                               row |-> IF @.row = NoRow THEN NoRow ELSE RemoveAt(@.row, i)]])

RenameColumn(t, i, new) ==
  /\ MySql[t] # None /\ i \in DOMAIN MySql[t].cols /\ new \notin ToSet(MySql[t].cols)
  /\ <<MySql[t].cols[i], new>> \in ColumnRenames
  /\ Ddl("renameColumn", <<t>>, <<MySql[t].cols[i], new>>, [MySql EXCEPT ![t].cols[i] = new])

\* ALTER TABLE that leaves the columns alone (an index, a constraint).
AlterOther(t) ==
  /\ MySql[t] # None
  /\ Ddl("other", <<t>>, None, MySql)

Execute ==
  \/ \E t \in Tables :
       \/ WriteRow(t) \/ TruncateTable(t) \/ AlterOther(t)
       \/ \E cols \in Shapes : CreateTable(t, cols)
       \/ \E c \in Columns, i \in 1 .. Cardinality(Columns) :
            AddColumn(t, c, i) \/ DropColumn(t, i) \/ RenameColumn(t, i, c)
  \/ \E tables \in Drops : DropTables(tables)
  \/ \E names \in TableRenames : RenameTable(names[1], names[2])

-----------------------------------------------------------------------------
\* The reader.

\* run_once: the position, and the schema of every table the filter allows.
\* (The schemas are fetched one by one, all of them behind the position.)
Sync ==
  /\ reader = "connecting"
  /\ LET now == [t \in Tables |-> IF TableAllowed(t) THEN SchemaOf(t) ELSE None]
         known == {t \in Tables : now[t] # None}
         events == {[op |-> "schema", table |-> t, cols |-> ProjectSchema(now[t])] : t \in known}
     IN  IF writer = "running"
         THEN /\ schemas' = now
              /\ chan' = chan \o SetToSeq(events)
              /\ reader' = "streaming"
         ELSE reader' = "stopped" /\ UNCHANGED <<schemas, chan>>
  /\ UNCHANGED <<mysqlVars, storeVars, startCp, pos, writerVars, refused, damaged, faults>>

\* The next event of the stream, with the statements extract_ddl_statements finds
\* in it (the kind, the tables, and the columns the translation will find).
Event == log[pos + 1]
Reading(kinds) == reader = "streaming" /\ pos < Len(log) /\ Event.kind \in kinds

\* tx.send fails once the writer has halted, and the reader stops.
Send(events) ==
  /\ IF events = <<>> \/ writer = "running"
     THEN chan' = chan \o events /\ pos' = pos + 1 /\ UNCHANGED reader
     ELSE reader' = "stopped" /\ UNCHANGED <<chan, pos>>
  /\ UNCHANGED <<mysqlVars, storeVars, startCp, writerVars, refused, damaged, faults>>

DdlEvent(t, new) ==
  [op |-> "ddl", kind |-> Event.kind, table |-> t, arg |-> Event.arg, new |-> new, cp |-> pos + 1]

\* parse_row_vec: values are bound to columns by position.
ParseRow(cols, row) == [i \in DOMAIN cols |-> IF i \in DOMAIN row THEN row[i] ELSE Null]

\* Mutant: the row is not projected.
ReadRowUnprojected ==
  /\ Reading({"row"})
  /\ LET t == Event.tables[1]
     IN  Send(IF TableAllowed(t) /\ schemas[t] # None
              THEN <<[op |-> "row", table |-> t, row |-> Event.arg, cp |-> pos + 1]>> ELSE <<>>)
  /\ UNCHANGED schemas

\* Values are parsed with the schema at hand; rows of tables without one are dropped.
ReadRow ==
  /\ Reading({"row"})
  /\ LET t == Event.tables[1]
         row == IF Event.arg = NoRow THEN NoRow
                ELSE ProjectRow(schemas[t], ParseRow(schemas[t], Event.arg))
     IN  Send(IF TableAllowed(t) /\ schemas[t] # None
              THEN <<[op |-> "row", table |-> t, row |-> row, cp |-> pos + 1]>> ELSE <<>>)
  /\ UNCHANGED schemas

\* ALTER: without a schema to fetch the session ends with an error, and another
\* one begins.
ReadAlter ==
  /\ Reading(Alters)
  /\ LET t == Event.tables[1]
     IN  IF ~TableAllowed(t) THEN Send(<<>>) /\ UNCHANGED schemas
         ELSE IF SchemaOf(t) = None
         THEN /\ reader' = "connecting" /\ pos' = startCp
              /\ UNCHANGED <<mysqlVars, storeVars, startCp, schemas, chan, writerVars, refused,
                             damaged, faults>>
         ELSE /\ schemas' = [schemas EXCEPT ![t] = SchemaOf(t)]
              /\ Send(<<DdlEvent(t, ProjectSchema(SchemaOf(t)))>>)

\* CREATE: the writer gets the schema, without a checkpoint.
ReadCreate ==
  /\ Reading({"create"})
  /\ LET t == Event.tables[1]
     IN  IF TableAllowed(t) /\ SchemaOf(t) # None
         THEN /\ schemas' = [schemas EXCEPT ![t] = SchemaOf(t)]
              /\ Send(<<[op |-> "schema", table |-> t, cols |-> ProjectSchema(SchemaOf(t))]>>)
         ELSE Send(<<>>) /\ UNCHANGED schemas

\* Mutant: the filter is not asked.
ReadDropUnfiltered ==
  /\ Reading({"drop", "truncate"})
  /\ schemas' = [t \in Tables |->
       IF Event.kind = "drop" /\ t \in ToSet(Event.tables) THEN None ELSE schemas[t]]
  /\ Send([i \in DOMAIN Event.tables |-> DdlEvent(Event.tables[i], None)])

\* DROP and TRUNCATE: one event per table, all with the same checkpoint.
ReadDrop ==
  /\ Reading({"drop", "truncate"})
  /\ LET tables == Selected(Event.tables,
                              {i \in DOMAIN Event.tables : TableAllowed(Event.tables[i])})
     IN  /\ schemas' = [t \in Tables |->
              IF Event.kind = "drop" /\ t \in ToSet(tables) THEN None ELSE schemas[t]]
         /\ Send([i \in DOMAIN tables |-> DdlEvent(tables[i], None)])

ReadRename ==
  /\ Reading({"rename"})
  /\ LET from == Event.tables[1]
         to == Event.arg
         forgotten == [schemas EXCEPT ![from] = None]
     IN  IF TableAllowed(to) /\ SchemaOf(to) # None
         THEN /\ schemas' = [forgotten EXCEPT ![to] = SchemaOf(to)]
              /\ Send(<<DdlEvent(from, ProjectSchema(SchemaOf(to)))>>)
         ELSE schemas' = forgotten /\ Send(<<>>)

\* Mutant: a replication error ends the reader.
StreamErrorStops ==
  /\ reader = "streaming" /\ faults < MaxFaults
  /\ Within(Pending(startCp), Rewindable)
  /\ faults' = faults + 1
  /\ reader' = "stopped"
  /\ UNCHANGED <<mysqlVars, storeVars, startCp, pos, schemas, chan, writerVars, refused, damaged>>

\* A replication error: the next session starts from startCp again.
StreamError ==
  /\ reader = "streaming" /\ faults < MaxFaults
  /\ Within(Pending(startCp), Rewindable)
  /\ faults' = faults + 1
  /\ reader' = "connecting" /\ pos' = startCp
  /\ UNCHANGED <<mysqlVars, storeVars, startCp, schemas, chan, writerVars, refused, damaged>>

-----------------------------------------------------------------------------
\* The writer's tables.  An operation on a table returns None when DuckDB
\* refuses it.

\* TableLayout::project: a source-ordered row by the names of the local columns.
Bound(cols, layout, row) ==
  [c \in cols |-> IF c \in ToSet(layout) THEN ByName(layout, row)[c] ELSE Null]

\* What flush_batch makes of the tables; rows without a layout are dropped.
Flushed ==
  [t \in Tables |->
     IF window[t] = None \/ layouts[t] = None THEN store[t]
     ELSE [store[t] EXCEPT !.row =
             IF window[t] = NoRow THEN None ELSE Bound(store[t].cols, layouts[t], window[t])]]

FlushedCp == IF winCp # 0 THEN winCp ELSE ckpt

EmptyWindow == [t \in Tables |-> None]

\* CREATE TABLE IF NOT EXISTS
Created(table, cols) == IF table = None THEN [cols |-> ToSet(cols), row |-> None] ELSE table

Resized(table, cols) ==
  [cols |-> cols,
   row |-> IF table.row = None THEN None
           ELSE [c \in cols |-> IF c \in table.cols THEN table.row[c] ELSE Null]]

\* add_missing_columns
Completed(table, cols) == Resized(table, table.cols \cup ToSet(cols))

\* ADD, DROP and RENAME COLUMN
Added(table, c) == IF c \in table.cols THEN None ELSE Resized(table, table.cols \cup {c})

Dropped(table, c) == IF c \in table.cols THEN Resized(table, table.cols \ {c}) ELSE None

Renamed(table, c, new) ==
  IF c \notin table.cols \/ new \in table.cols THEN None
  ELSE LET cols == (table.cols \ {c}) \cup {new}
       IN  [cols |-> cols,
            row |-> IF table.row = None THEN None
                    ELSE [d \in cols |-> table.row[IF d = new THEN c ELSE d]]]

\* Mutant: columns that are gone stay.
DiffSchemaAddsOnly(table, cur, tgt) ==
  Resized(table, table.cols \cup (ToSet(tgt) \ ToSet(cur)))

\* diff_schema; its statements have IF [NOT] EXISTS.
DiffSchema(table, cur, tgt) ==
  Resized(table, (table.cols \cup (ToSet(tgt) \ ToSet(cur))) \ (ToSet(cur) \ ToSet(tgt)))

\* translate_alter: the operation is the one of the DDL, unless it is on a column that
\* the projections leave out; then the projections are compared.
Direct(e, cur) ==
  \/ e.kind = "addColumn" /\ e.arg \in ToSet(e.new)
  \/ e.kind = "dropColumn" /\ (cur = None \/ e.arg \in ToSet(cur))
  \/ e.kind = "renameColumn" /\ (cur = None \/ e.arg[1] \in ToSet(cur)) /\ e.arg[2] \in ToSet(e.new)

NoOperation(e, cur) == ~Direct(e, cur) /\ (cur = None \/ ToSet(cur) = ToSet(e.new))

Translated(e, table, cur) ==
  IF ~Direct(e, cur) THEN DiffSchema(table, cur, e.new)
  ELSE CASE e.kind = "addColumn" -> Added(table, e.arg)
         [] e.kind = "dropColumn" -> Dropped(table, e.arg)
         [] e.kind = "renameColumn" -> Renamed(table, e.arg[1], e.arg[2])

\* apply_ddl completes the translation with the columns of the target the table did
\* not have.
Altered(e, table, cur) ==
  LET own == IF table = None THEN None ELSE Translated(e, table, cur)
  IN  IF own = None THEN None ELSE Resized(own, own.cols \cup (ToSet(e.new) \ table.cols))

\* Does the store take the DDL event e, given its tables and the writer's layouts, and
\* what are its tables then?
Taken(e, tables, lays) ==
  LET table == tables[e.table]
      layout == lays[e.table]
      altered == Altered(e, table, layout)
  IN  CASE e.kind = "drop" -> [tables EXCEPT ![e.table] = None]
        [] e.kind = "truncate" ->
             IF table = None THEN None ELSE [tables EXCEPT ![e.table].row = None]
        [] e.kind = "rename" ->
             IF table = None \/ tables[e.arg] # None THEN None
             ELSE [tables EXCEPT ![e.table] = None, ![e.arg] = table]
        [] OTHER ->
             IF NoOperation(e, layout) THEN IF layout = None THEN None ELSE tables
             ELSE IF altered = None THEN None ELSE [tables EXCEPT ![e.table] = altered]

InstallLayout(lays, t, cols) == [lays EXCEPT ![t] = cols]

\* Mutant: a table keeps its layout when it is altered.
RefreshDropsOnly(e, lays) ==
  CASE e.kind = "drop" -> [lays EXCEPT ![e.table] = None]
    [] e.kind = "rename" -> [lays EXCEPT ![e.table] = None, ![e.arg] = lays[e.table]]
    [] OTHER -> lays

\* Mutant: the layout of a dropped table stays.
RefreshedAltersOnly(e, lays) ==
  CASE e.kind \in {"drop", "truncate", "rename"} -> lays
    [] OTHER -> InstallLayout(lays, e.table, e.new)

\* refresh_layout
Refreshed(e, lays) ==
  CASE e.kind = "drop" -> [lays EXCEPT ![e.table] = None]
    [] e.kind = "rename" ->
         IF lays[e.table] = None THEN lays
         ELSE [lays EXCEPT ![e.table] = None, ![e.arg] = lays[e.table]]
    [] e.kind = "truncate" -> lays
    [] OTHER -> InstallLayout(lays, e.table, e.new)

-----------------------------------------------------------------------------
\* The writer's loop.

Receiving(op) ==
  writer = "running" /\ ddlCp = 0 /\ chan # <<>> /\ Head(chan).op = op

\* DuckDB's appender takes rows of all the columns of a table, and TableLayout::project
\* makes them of those its layout knows of.
Bindable == \A t \in stale : window[t] \in {None, NoRow}

FlushBatch ==
  /\ writer = "running" /\ ddlCp = 0 /\ winCp # 0 /\ Bindable
  /\ store' = Flushed /\ ckpt' = FlushedCp
  /\ window' = EmptyWindow /\ winCp' = 0
  /\ UNCHANGED <<mysqlVars, readerVars, chan, writer, layouts, stale, ddlCp, refused, damaged,
                 faults>>

\* A flush fails as often as it is tried, or before a DDL or a schema: the writer halts.
\* A window that cannot be bound makes it fail without any fault.
FlushFails ==
  /\ writer = "running" /\ ddlCp = 0 /\ winCp # 0
  /\ Bindable => faults < MaxFaults
  /\ faults' = IF Bindable THEN faults + 1 ELSE faults
  /\ writer' = "halted"
  /\ UNCHANGED <<mysqlVars, storeVars, readerVars, chan, layouts, stale, window, winCp, ddlCp,
                 refused, damaged>>

ReceiveRow ==
  /\ Receiving("row")
  /\ window' = [window EXCEPT ![Head(chan).table] = Head(chan).row]
  /\ winCp' = Head(chan).cp
  /\ chan' = Tail(chan)
  /\ UNCHANGED <<mysqlVars, storeVars, readerVars, writer, layouts, stale, ddlCp, refused,
                 damaged, faults>>

\* The table is created or completed, and gets a layout.
SchemaApplied(t, cols) ==
  /\ store' = [Flushed EXCEPT ![t] = Completed(Created(@, cols), cols)]
  /\ layouts' = InstallLayout(layouts, t, cols)
  /\ stale' = stale \ {t}

\* DuckDB fails on the way: the table is not created, so it can neither be completed nor
\* get a layout; or it gets the first missing columns, and a layout or none.  The layout
\* it has stays, and does not know of the columns added.
SchemaBroken(t, cols) ==
  \/ Flushed[t] = None /\ store' = Flushed /\ UNCHANGED <<layouts, stale>>
  \/ \E n \in 0 .. Len(cols) :
       /\ store' = [Flushed EXCEPT ![t] = Completed(Created(@, cols), SubSeq(cols, 1, n))]
       /\ \/ layouts' = InstallLayout(layouts, t, cols) /\ stale' = stale \ {t}
          \/ /\ UNCHANGED layouts
             /\ stale' = IF layouts[t] # None /\ store'[t].cols # store[t].cols
                         THEN stale \cup {t} ELSE stale

\* The pending rows are flushed, then the schema is applied; what DuckDB refuses of it is
\* logged, and the writer goes on.
ReceiveSchema ==
  /\ Receiving("schema") /\ Bindable
  /\ LET t == Head(chan).table
         cols == Head(chan).cols
     IN  \/ SchemaApplied(t, cols) /\ UNCHANGED <<damaged, faults>>
         \/ /\ faults < MaxFaults
            /\ faults' = faults + 1
            /\ SchemaBroken(t, cols)
            /\ damaged' = IF SchemaApplied(t, cols) THEN damaged ELSE damaged \cup {t}
  /\ ckpt' = FlushedCp
  /\ window' = EmptyWindow /\ winCp' = 0
  /\ chan' = Tail(chan)
  /\ UNCHANGED <<mysqlVars, readerVars, writer, ddlCp, refused>>

\* The tables of a set, behind a DDL.
Followed(tables, e) ==
  IF e.kind = "rename" /\ e.table \in tables THEN tables \cup {e.arg} ELSE tables

\* Mutant: the checkpoint of a DDL is persisted although it failed.
ReceiveDdlOpen ==
  /\ Receiving("ddl") /\ Bindable
  /\ LET e == Head(chan)
         taken == Taken(e, Flushed, layouts)
     IN  \/ /\ taken # None
            /\ store' = taken
            /\ layouts' = Refreshed(e, layouts)
            /\ stale' = IF e.kind = "truncate" THEN stale ELSE Followed(stale, e) \ {e.table}
            /\ damaged' = Followed(damaged, e)
            /\ ddlCp' = e.cp
            /\ UNCHANGED <<writer, refused, faults>>
         \/ /\ taken = None \/ faults < MaxFaults
            /\ writer' = "running"
            /\ refused' = (taken = None)
            /\ faults' = IF taken = None THEN faults ELSE faults + 1
            /\ store' = Flushed
            /\ ddlCp' = e.cp
            /\ UNCHANGED <<layouts, stale, damaged>>
  /\ ckpt' = FlushedCp
  /\ window' = EmptyWindow /\ winCp' = 0
  /\ chan' = Tail(chan)
  /\ UNCHANGED <<mysqlVars, readerVars>>

\* The pending rows are flushed, then the DDL is applied in a transaction of
\* its own; when DuckDB refuses it or fails, the writer halts.  (Should the new layout
\* fail, it halts as well, and leaves what a PersistCheckpoint that fails leaves.)
ReceiveDdl ==
  /\ Receiving("ddl") /\ Bindable
  /\ LET e == Head(chan)
         taken == Taken(e, Flushed, layouts)
     IN  \/ /\ taken # None
            /\ store' = taken
            /\ layouts' = Refreshed(e, layouts)
            /\ stale' = IF e.kind = "truncate" THEN stale ELSE Followed(stale, e) \ {e.table}
            /\ damaged' = Followed(damaged, e)
            /\ ddlCp' = e.cp
            /\ UNCHANGED <<writer, refused, faults>>
         \/ /\ taken = None \/ faults < MaxFaults
            /\ writer' = "halted"
            /\ refused' = (taken = None)
            /\ faults' = IF taken = None THEN faults ELSE faults + 1
            /\ store' = Flushed
            /\ UNCHANGED <<layouts, stale, ddlCp, damaged>>
  /\ ckpt' = FlushedCp
  /\ window' = EmptyWindow /\ winCp' = 0
  /\ chan' = Tail(chan)
  /\ UNCHANGED <<mysqlVars, readerVars>>

\* The checkpoint of the DDL is a transaction of its own.
PersistCheckpoint ==
  /\ writer = "running" /\ ddlCp # 0
  /\ \/ ckpt' = ddlCp /\ UNCHANGED <<writer, faults>>
     \/ /\ faults < MaxFaults
        /\ faults' = faults + 1
        /\ writer' = "halted"
        /\ UNCHANGED ckpt
  /\ ddlCp' = 0
  /\ UNCHANGED <<mysqlVars, store, readerVars, chan, layouts, stale, window, winCp, refused, damaged>>

\* The process ends and starts again, with what DuckDB has.
Restart ==
  /\ faults < MaxFaults
  /\ Within(Pending(ckpt), Replayable)
  /\ faults' = faults + 1
  /\ startCp' = ckpt /\ reader' = "connecting" /\ pos' = ckpt
  /\ schemas' = [t \in Tables |-> None]
  /\ chan' = <<>>
  /\ writer' = "running" /\ layouts' = [t \in Tables |-> None] /\ stale' = {}
  /\ window' = EmptyWindow /\ winCp' = 0 /\ ddlCp' = 0
  /\ UNCHANGED <<mysqlVars, storeVars, refused, damaged>>

Reader == Sync \/ ReadRow \/ ReadAlter \/ ReadCreate \/ ReadDrop \/ ReadRename
Writer ==
  FlushBatch \/ FlushFails \/ ReceiveRow \/ ReceiveSchema \/ ReceiveDdl \/ PersistCheckpoint

Next == Execute \/ Reader \/ Writer \/ StreamError \/ Restart

\* Both tasks run as long as they can.
Fairness == WF_vars(Reader) /\ WF_vars(Writer)

Spec == Init /\ [][Next]_vars
FairSpec == Spec /\ Fairness

-----------------------------------------------------------------------------
Quiet ==
  /\ reader = "streaming" /\ pos = Len(log) /\ chan = <<>>
  /\ writer = "running" /\ winCp = 0 /\ ddlCp = 0

\* Type correctness; a layout is one of a local table.
TypeOK ==
  /\ hist \in Seq([Tables -> Table \cup {None}]) /\ Len(hist) = Len(log) + 1
  /\ {ckpt, startCp, pos, winCp, ddlCp} \subseteq 0 .. Len(log)
  /\ reader \in {"connecting", "streaming", "stopped"} /\ writer \in {"running", "halted"}
  /\ {schemas, layouts} \subseteq [Tables -> Seq(Columns) \cup {None}]
  /\ store \in [Tables -> LocalTable \cup {None}]
  /\ \A t \in Tables : layouts[t] # None => store[t] # None
  /\ window \in [Tables -> Seq(Value) \cup {None}]
  /\ (winCp = 0) = (window = EmptyWindow)
  /\ stale \subseteq {t \in damaged : layouts[t] # None} /\ damaged \subseteq Tables
  /\ refused \in BOOLEAN /\ faults \in 0 .. MaxFaults

\* When all there is has been read and written, the store has the tables, columns and
\* rows of MySQL that the filter lets through: those a schema was not applied to are the
\* only ones to suffer from it.
StoreExact ==
  Quiet => \A t \in Tables \ damaged : store[t] = IF TableAllowed(t) THEN Loaded(MySql[t]) ELSE None

\* Values are never stored under another column's name: what the store has in a
\* column, MySQL had in that column at some time.  (A row that was dropped for want of a
\* layout leaves an older one, which later DDL renames.)
ValuesBelong ==
  \A t \in Tables \ damaged : store[t] # None /\ store[t].row # None =>
    \A c \in store[t].cols : store[t].row[c] # Null =>
      \E n \in DOMAIN hist : hist[n][t] # None /\
        \E i \in DOMAIN hist[n][t].row :
          hist[n][t].cols[i] = c /\ hist[n][t].row[i] = store[t].row[c]

\* "Columns that must never be replicated" are not (src/cdc/filter.rs:23), nor are the
\* tables.
ExcludedNeverStored ==
  \A t \in Tables : store[t] # None =>
    /\ TableAllowed(t)
    /\ store[t].cols \cap ExcludedColumns = {}
    /\ store[t].row # None => \A c \in store[t].cols :
         store[t].row[c] # Null => store[t].row[c][1] \notin ExcludedColumns

\* The store has all of a table up to the checkpoint: the table is as MySQL had it there
\* or behind it, unless it is about to be dropped.
Reached(t) ==
  \/ \E n \in ckpt + 1 .. Len(hist) : store[t] = Loaded(hist[n][t])
  \/ \E i \in ckpt + 1 .. Len(log) : log[i].kind = "drop" /\ t \in ToSet(log[i].tables)

\* The checkpoint passes nothing that is not in the store, of the tables the schemas were
\* applied to (src/store/writer.rs:400).
CheckpointCovered == \A t \in Tables \ damaged : TableAllowed(t) => Reached(t)

\* "No batch is ever silently lost" (src/store/writer.rs:620), of any table.
NothingLost == \A t \in Tables : TableAllowed(t) => Reached(t)

\* A DDL the writer could not finish is "replayed on the next start"
\* (src/store/writer.rs:373): the store takes every DDL MySQL executed, as long as every
\* schema was applied.
DdlApplies == damaged = {} => ~refused

\* Everything MySQL did is read and written, unless the writer halts.
Converges == <>[](Quiet \/ writer = "halted")

=============================================================================
