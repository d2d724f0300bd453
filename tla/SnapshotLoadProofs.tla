-------------------------- MODULE SnapshotLoadProofs --------------------------
(***************************************************************************)
(* The hand-over from the snapshot to the stream, for any number of tables *)
(* and changes, any capacity of the channel and any number of errors,      *)
(* crashes and failed copies.                                              *)
(*                                                                         *)
(* The argument has two parts.  StreamInv follows the rows behind the      *)
(* recorded position: wherever a position is noted that a session may      *)
(* start from (the store's checkpoint, the window's, a row in the channel, *)
(* the JSON file), the rows up to it have arrived or are queued ahead of   *)
(* it.  It holds until a crash hits an unsettled snapshot or a table stays *)
(* without its layout.  LoadInv follows the snapshot itself, as long as    *)
(* nothing disturbs it: each table is still to be sent, queued exactly     *)
(* once, or loaded.  Both rest on LayoutFirst: no event of a table reaches *)
(* the writer ahead of the schema.                                         *)
(***************************************************************************)
EXTENDS SnapshotLoad, QueueLemmas, TLAPS

-----------------------------------------------------------------------------
(* The inductive invariant.                                                *)

Loads == {k \in DOMAIN chan : chan[k].kind = "load"}
Rows == {k \in DOMAIN chan : chan[k].kind = "row"}

\* A row event carries the row and its position; a load event what had been
\* committed when the position was recorded, or less.
EventShape(e) ==
  /\ e.kind = "row" => e.upTo >= 1 /\ e.table = log[e.upTo] /\ e.cp = e.upTo
  /\ e.kind = "load" => e.upTo <= target /\ e.cp # NoCp /\ e.cp <= target

\* What the events, the window and the stored rows are.
Shape ==
  /\ \A k \in DOMAIN chan : EventShape(chan[k])
  /\ owed # NoCp => owed <= target
  /\ 0 \notin window
  /\ winCp = NoCp <=> window = {}
  /\ reader = "copying" => view <= target
  /\ \A t \in Tables : \A i \in stored[t] : i = 0 \/ log[i] = t

\* A table the writer has no layout of: none of its rows is in the window, its
\* events are behind its schema, and its schema is on its way or still to be sent.
Announced(t, k) == \E j \in DOMAIN chan : j < k /\ chan[j].kind = "schema" /\ chan[j].table = t
WindowLaid == \A i \in window : log[i] \in layouts
QueueLaid ==
  \A k \in DOMAIN chan :
    chan[k].kind # "schema" => chan[k].table \in layouts \/ Announced(chan[k].table, k)
SessionLaid ==
  \A t \in Tables \ layouts :
    \/ reader \in {"connecting", "stopped"}
    \/ reader = "syncing" /\ t \in todo
    \/ Announced(t, Len(chan) + 1)
LayoutFirst == WindowLaid /\ QueueLaid /\ SessionLaid

\* Row i is in the store or in the window; it is in the channel; it is in one of
\* its first k events.
Arrived(i) == i \in stored[log[i]] \/ i \in window
Coming(i) == \E j \in Rows : chan[j].upTo = i
Ahead(i, k) == \E j \in Rows : j <= k /\ chan[j].upTo = i

\* The rows behind the recorded position, up to p: all are stored; all have
\* arrived; all have arrived or are coming; or are in the first k events.
Held(p) == \A i \in (target + 1)..p : i \in stored[log[i]]
Windowed(p) == \A i \in (target + 1)..p : Arrived(i)
Reached(p) == \A i \in (target + 1)..p : Arrived(i) \/ Coming(i)
Complete(p, k) == \A i \in (target + 1)..p : Arrived(i) \/ Ahead(i, k)

\* What the store's checkpoint, and the one the process started with, cover.
CkptHeld ==
  /\ ckpt # NoCp => Held(ckpt)
  /\ initialCp # NoCp => ckpt # NoCp /\ Held(initialCp)

\* What the window's checkpoint, and a row in the channel, cover.
WindowComplete == winCp # NoCp => Windowed(winCp)
QueueComplete == \A k \in Rows : Complete(chan[k].upTo, k)

\* What the position covers that a session starts from, or has read up to.
StartComplete == StartFrom # NoCp => Reached(StartFrom)
SessionComplete ==
  /\ reader = "syncing" /\ recovered # NoCp => Reached(recovered)
  /\ reader = "streaming" => Reached(sent)

\* Whoever streams has a checkpoint in the store, or it is on its way.
Backed == ckpt # NoCp \/ owed # NoCp \/ Loads # {}
SnapshotBacked ==
  /\ reader = "streaming" \/ jsonCp # NoCp => Backed
  /\ reader = "syncing" /\ recovered # NoCp => Backed
  /\ reader = "copying" => todo = Tables \/ Backed

\* The rows behind the recorded position.
StreamInv ==
  /\ CkptHeld
  /\ WindowComplete
  /\ QueueComplete
  /\ StartComplete
  /\ SessionComplete
  /\ SnapshotBacked

\* The session has not taken its snapshot yet, and no session before it has.
Unloaded ==
  \/ reader \in {"opening", "positioning"}
  \/ reader = "connecting" /\ StartFrom = NoCp
  \/ reader = "syncing" /\ recovered = NoCp

Loaded(t) == Content(t, target) \subseteq stored[t]
LoadQueued(t) == \E k \in Loads : chan[k].table = t

\* Nothing has reached the store then, and nothing is on its way.
NothingLoaded ==
  Unloaded =>
    /\ ckpt = NoCp /\ jsonCp = NoCp /\ initialCp = NoCp
    /\ \A t \in Tables : stored[t] = {}
    /\ Rows = {} /\ window = {}
NoLoadsYet ==
  reader \in {"connecting", "syncing", "opening", "positioning"} => Loads = {} /\ owed = NoCp

\* What the snapshot sees is what had been committed at the recorded position.
ViewExact ==
  /\ reader = "positioning" => view = Len(log)
  /\ reader = "copying" => view = target /\ Rows = {} /\ window = {}

\* A table that is still to be sent is empty in the store.
ToCopy == reader = "copying" => \A t \in todo : stored[t] = {} /\ ~LoadQueued(t)

\* A queued table is empty in the store, queued once and ahead of all rows.
LoadsExact ==
  \A k \in Loads :
    /\ chan[k].upTo = target
    /\ stored[chan[k].table] = {} /\ window = {}
    /\ \A j \in Loads : j # k => chan[j].table # chan[k].table
    /\ \A j \in Rows : j > k

\* Every other table is loaded.
AllLoaded ==
  ~Unloaded /\ reader # "stopped" =>
    \A t \in Tables : Loaded(t) \/ LoadQueued(t) \/ (reader = "copying" /\ t \in todo)

\* The tables of an undisturbed snapshot.
LoadInv ==
  /\ NothingLoaded
  /\ NoLoadsYet
  /\ ViewExact
  /\ ToCopy
  /\ LoadsExact
  /\ AllLoaded

IInv ==
  /\ TypeOK
  /\ Shape
  /\ "schema" \notin disturbed => LayoutFirst
  /\ {"crash", "schema"} \cap disturbed = {} => StreamInv
  /\ disturbed = {} => LoadInv

-----------------------------------------------------------------------------
(* Type correctness.                                                       *)

\* Positions.
LEMMA PositionTypes ==
  ASSUME TypeOK
  PROVE  /\ Len(log) \in Nat /\ Positions = 0..Len(log)
         /\ \A i \in 1..Len(log) : log[i] \in Tables
         /\ \A k \in DOMAIN chan : chan[k] \in Events
         /\ Queued \subseteq Events
         /\ {view, target, sent} \subseteq 0..Len(log)
         /\ {ckpt, jsonCp, initialCp, recovered, winCp, owed} \subseteq (0..Len(log)) \cup {NoCp}
         /\ NoCp \notin 0..Len(log)
<1>1. Len(log) \in Nat /\ \A i \in 1..Len(log) : log[i] \in Tables
  BY DEF TypeOK
<1>2. \A k \in DOMAIN chan : chan[k] \in Events
  BY SeqElements DEF TypeOK
<1>3. NoCp \notin 0..Len(log)
  BY <1>1, SnapshotAssumption
<1> QED BY <1>1, <1>2, <1>3 DEF TypeOK, Positions, Queued

\* Steps that leave the log alone keep the positions.
LEMMA EventsKept ==
  ASSUME UNCHANGED log
  PROVE  Positions' = Positions /\ Events' = Events
BY DEF Positions, Events

LEMMA TypeInit == Init => TypeOK
<1> SUFFICES ASSUME Init PROVE TypeOK
  OBVIOUS
<1>1. Len(log) = 0 /\ log \in Seq(Tables) /\ 0 \in Positions
  BY DEF Init, Positions
<1>2. chan \in Seq(Events) /\ Len(chan) = 0
  BY DEF Init
<1> QED BY <1>1, <1>2, SnapshotAssumption DEF Init, TypeOK

\* MySQL commits a change.
LEMMA TypeChange ==
  ASSUME TypeOK, NEW t \in Tables, Change(t)
  PROVE  TypeOK'
<1>1. /\ log' \in Seq(Tables) /\ Len(log') = Len(log) + 1 /\ Len(log) \in Nat
  BY DEF TypeOK, Change
<1>2. Positions \subseteq Positions'
  BY <1>1 DEF Positions
<1>3. Events \subseteq Events'
  BY <1>2 DEF Events
<1>4. chan \in Seq(Events')
  BY <1>3, SeqWiden DEF TypeOK
<1>5. stored \in [Tables -> SUBSET Positions']
  BY <1>2 DEF TypeOK
<1>6. UNCHANGED <<readerVars, chan, durableVars, writerVars, refused, crashes>>
  BY DEF Change
<1> HIDE DEF TypeOK
<1> QED BY <1>1, <1>2, <1>4, <1>5, <1>6
     DEF TypeOK, Change, readerVars, sessionVars, durableVars, writerVars

\* Sending an event.
LEMMA TypeSend ==
  ASSUME TypeOK, NEW e \in Events, Send(e)
  PROVE  chan' \in Seq(Events) /\ Len(chan') <= ChannelCapacity
BY SnapshotAssumption DEF TypeOK, Send

\* What the CDC task does.
LEMMA TypeReader ==
  ASSUME TypeOK,
         \/ RecoverCheckpoint \/ OpenSnapshot \/ RecordPosition \/ EndSnapshot
         \/ ReadRow \/ StreamError
         \/ \E t \in Tables : SyncSchema(t) \/ SnapshotTable(t)
  PROVE  TypeOK'
<1>1. UNCHANGED log
      => Positions' = Positions /\ Events' = Events
  BY EventsKept
<1>2. Len(log) \in Positions /\ target \in Positions /\ view \in Positions /\ NoCp \notin Positions
  BY PositionTypes
<1>3. CASE RecoverCheckpoint
  BY <1>1, <1>3 DEF RecoverCheckpoint, StartFrom, TypeOK, durableVars, writerVars, countVars
<1>4. CASE OpenSnapshot
  BY <1>1, <1>2, <1>4 DEF OpenSnapshot, TypeOK, durableVars, writerVars, countVars
<1>5. CASE RecordPosition
  BY <1>1, <1>2, <1>5 DEF RecordPosition, TypeOK, durableVars, writerVars, countVars
<1>6. CASE EndSnapshot
  BY <1>1, <1>2, <1>6 DEF EndSnapshot, TypeOK, sessionVars, durableVars, writerVars, countVars
<1>7. CASE ReadRow
  <2>1. sent + 1 \in 1..Len(log) /\ sent + 1 \in Positions /\ log[sent + 1] \in Tables
    BY <1>7, PositionTypes DEF ReadRow
  <2>2. RowEvent(sent + 1) \in Events
    BY <2>1 DEF RowEvent, Events
  <2>3. chan' \in Seq(Events) /\ Len(chan') <= ChannelCapacity
    BY <1>7, <2>2, TypeSend DEF ReadRow
  <2> QED BY <1>1, <1>7, <2>1, <2>3
       DEF ReadRow, TypeOK, sessionVars, durableVars, writerVars, countVars
<1>8. CASE StreamError
  <2>1. attempt' \in 0..MaxStreamErrors
    BY <1>8, SnapshotAssumption DEF StreamError, TypeOK
  <2>2. disturbed' \subseteq {"change", "error", "crash", "copy", "schema"}
    BY <1>8 DEF StreamError, Disturb, TypeOK
  <2> QED BY <1>1, <1>8, <2>1, <2>2 DEF StreamError, TypeOK, sessionVars, durableVars, writerVars
<1>9. ASSUME NEW t \in Tables, SyncSchema(t)
      PROVE  TypeOK'
  <2>1. SchemaEvent(t) \in Events
    BY <1>2 DEF SchemaEvent, Events, Positions
  <2>2. chan' \in Seq(Events) /\ Len(chan') <= ChannelCapacity
    BY <1>9, <2>1, TypeSend DEF SyncSchema
  <2>3. sent' \in Positions /\ reader' \in {"syncing", "opening", "streaming"}
    BY <1>9 DEF SyncSchema, TypeOK
  <2> QED BY <1>1, <1>9, <2>2, <2>3 DEF SyncSchema, TypeOK, durableVars, writerVars, countVars
<1>10. ASSUME NEW t \in Tables, SnapshotTable(t)
       PROVE  TypeOK'
  <2>1. LoadEvent(t) \in Events
    BY <1>2 DEF LoadEvent, Events
  <2>2. chan' \in Seq(Events) /\ Len(chan') <= ChannelCapacity
    BY <1>10, <2>1, TypeSend DEF SnapshotTable
  <2> QED BY <1>1, <1>10, <2>2 DEF SnapshotTable, TypeOK, durableVars, writerVars, countVars
<1> QED BY <1>3, <1>4, <1>5, <1>6, <1>7, <1>8, <1>9, <1>10

\* A flush.
LEMMA TypeFlush ==
  ASSUME TypeOK
  PROVE  /\ FlushedStore \in [Tables -> SUBSET Positions]
         /\ FlushedCp \in Positions \cup {NoCp}
BY DEF TypeOK, FlushedStore, FlushedCp

\* What is left of the channel.
LEMMA TypeTail ==
  ASSUME TypeOK, chan # << >>
  PROVE  /\ Tail(chan) \in Seq(Events) /\ Len(Tail(chan)) <= ChannelCapacity
         /\ Head(chan) \in Events
<1>1. chan \in Seq(Events) /\ Len(chan) <= ChannelCapacity
  BY DEF TypeOK
<1> QED BY <1>1, TailElements, SnapshotAssumption

\* What the writer does.
LEMMA TypeWriter ==
  ASSUME TypeOK,
         WriterTick \/ WriterSchema \/ WriterLoad \/ PersistCheckpoint \/ WriterRow \/ WriterClosed
  PROVE  TypeOK'
<1>1. UNCHANGED log /\ Positions' = Positions /\ Events' = Events
  BY EventsKept DEF WriterTick, WriterSchema, WriterLoad, PersistCheckpoint, WriterRow, WriterClosed
<1>2. CASE WriterTick
  BY <1>1, <1>2, TypeFlush DEF WriterTick, Drain, TypeOK, readerVars, sessionVars, countVars
<1>3. CASE WriterSchema
  <2>1. Head(chan).table \in Tables
    BY <1>3, TypeTail DEF WriterSchema, Events
  <2>2. /\ layouts' \subseteq created' /\ created' \subseteq Tables
        /\ refused' \in 0..MaxRefused
        /\ disturbed' \subseteq {"change", "error", "crash", "copy", "schema"}
    <3> DEFINE h == Head(chan).table
    <3>1. ApplySchema(h) /\ h \in Tables
      BY <1>3, <2>1 DEF WriterSchema
    <3> HIDE DEF h
    <3>2. /\ layouts \subseteq created /\ created \subseteq Tables
          /\ refused \in 0..MaxRefused /\ MaxRefused \in Nat
          /\ disturbed \subseteq {"change", "error", "crash", "copy", "schema"}
      BY SnapshotAssumption DEF TypeOK
    <3>3. CASE created' = created \cup {h} /\ layouts' = layouts \cup {h}
               /\ UNCHANGED <<refused, disturbed>>
      BY <3>1, <3>2, <3>3
    <3>4. CASE /\ refused < MaxRefused /\ refused' = refused + 1
               /\ created' \in {created, created \cup {h}} /\ layouts' = layouts
               /\ disturbed' = IF h \in layouts THEN disturbed ELSE disturbed \cup {"schema"}
      <4>1. refused' \in 0..MaxRefused
        BY <3>2, <3>4
      <4>2. disturbed' \subseteq {"change", "error", "crash", "copy", "schema"}
        BY <3>2, <3>4
      <4>3. layouts' \subseteq created' /\ created' \subseteq Tables
        BY <3>1, <3>2, <3>4
      <4> QED BY <4>1, <4>2, <4>3
    <3> QED BY <3>1, <3>3, <3>4 DEF ApplySchema
  <2>3. /\ stored' = FlushedStore /\ ckpt' = FlushedCp /\ Drain /\ chan' = Tail(chan)
        /\ chan # << >> /\ UNCHANGED <<log, readerVars, writer, owed, crashes>>
    BY <1>3 DEF WriterSchema
  <2> QED BY <1>1, <2>2, <2>3, TypeFlush, TypeTail DEF Drain, TypeOK, readerVars, sessionVars
<1>4. CASE WriterLoad
  <2> DEFINE e == Head(chan)
  <2>1. e \in Events
    BY <1>4, TypeTail DEF WriterLoad
  <2> HIDE DEF e
  <2>2. e.table \in Tables /\ e.upTo \in Positions /\ e.cp \in Positions \cup {NoCp}
    BY <2>1 DEF Events
  <2>3. Content(e.table, e.upTo) \subseteq Positions
    BY <2>2, PositionTypes DEF Content
  <2>4. [FlushedStore EXCEPT ![e.table] = @ \cup Content(e.table, e.upTo)]
          \in [Tables -> SUBSET Positions]
    BY <2>2, <2>3, TypeFlush
  <2>5. stored' \in [Tables -> SUBSET Positions]
    BY <1>4, <2>4, TypeFlush DEF WriterLoad, e
  <2>6. refused' \in 0..MaxRefused /\ disturbed' \subseteq {"change", "error", "crash", "copy", "schema"}
    <3>1. MaxRefused \in Nat /\ refused \in 0..MaxRefused
          /\ disturbed \subseteq {"change", "error", "crash", "copy", "schema"}
      BY SnapshotAssumption DEF TypeOK
    <3>2. refused' = refused \/ (refused < MaxRefused /\ refused' = refused + 1)
      BY <1>4 DEF WriterLoad
    <3>3. disturbed' = disturbed \/ disturbed' = disturbed \cup {"copy"}
      BY <1>4 DEF WriterLoad
    <3>4. refused' \in 0..MaxRefused
      BY <3>1, <3>2
    <3>5. disturbed' \subseteq {"change", "error", "crash", "copy", "schema"}
      BY <3>1, <3>3
    <3> QED BY <3>4, <3>5
  <2>7. owed' \in Positions \cup {NoCp}
    BY <1>4, <2>2 DEF WriterLoad, e
  <2>8. ckpt' \in Positions \cup {NoCp} /\ chan' \in Seq(Events) /\ Len(chan') <= ChannelCapacity
    BY <1>4, TypeFlush, TypeTail DEF WriterLoad
  <2> QED BY <1>1, <1>4, <2>5, <2>6, <2>7, <2>8
       DEF WriterLoad, Drain, TypeOK, readerVars, sessionVars
<1>5. CASE PersistCheckpoint
  BY <1>1, <1>5 DEF PersistCheckpoint, TypeOK, readerVars, sessionVars, countVars
<1>6. CASE WriterRow
  <2>1. Head(chan).upTo \in Positions /\ Head(chan).cp \in Positions \cup {NoCp}
    BY <1>6, TypeTail DEF WriterRow, Events
  <2> QED BY <1>1, <1>6, <2>1, TypeTail
       DEF WriterRow, TypeOK, readerVars, sessionVars, durableVars, countVars
<1>7. CASE WriterClosed
  BY <1>1, <1>7, TypeFlush DEF WriterClosed, Drain, TypeOK, readerVars, sessionVars, countVars
<1> QED BY <1>2, <1>3, <1>4, <1>5, <1>6, <1>7

\* A crash.
LEMMA TypeCrash ==
  ASSUME TypeOK, CrashRestart
  PROVE  TypeOK'
<1>1. Positions' = Positions /\ Events' = Events /\ 0 \in Positions
  BY EventsKept, PositionTypes DEF CrashRestart
<1>2. chan' \in Seq(Events) /\ Len(chan') <= ChannelCapacity
  BY SnapshotAssumption DEF CrashRestart
<1>3. crashes' \in 0..MaxCrashes /\ attempt' \in 0..MaxStreamErrors
  BY SnapshotAssumption DEF CrashRestart, TypeOK
<1>4. disturbed' \subseteq {"change", "error", "crash", "copy", "schema"}
  BY DEF CrashRestart, Disturb, TypeOK
<1> QED BY <1>1, <1>2, <1>3, <1>4 DEF CrashRestart, TypeOK, durableVars

LEMMA TypeNext == TypeOK /\ [Next]_vars => TypeOK'
<1> SUFFICES ASSUME TypeOK, [Next]_vars PROVE TypeOK'
  OBVIOUS
<1>1. CASE UNCHANGED vars
  BY <1>1, EventsKept
     DEF vars, TypeOK, readerVars, sessionVars, durableVars, writerVars, countVars
<1> QED BY <1>1, TypeChange, TypeReader, TypeWriter, TypeCrash DEF Next

\* Events, positions and tables are what they should be, through every crash
\* and every reconnect.
THEOREM TypeCorrect == Spec => []TypeOK
BY TypeInit, TypeNext, PTL DEF Spec

-----------------------------------------------------------------------------
(* The channel.                                                            *)

\* An event is sent.
LEMMA Sending ==
  ASSUME TypeOK, NEW e \in Events, Send(e)
  PROVE  /\ Len(chan) \in Nat /\ Len(chan') = Len(chan) + 1
         /\ DOMAIN chan = 1..Len(chan) /\ DOMAIN chan' = 1..(Len(chan) + 1)
         /\ chan'[Len(chan) + 1] = e
         /\ \A k \in DOMAIN chan : k \in DOMAIN chan' /\ chan'[k] = chan[k]
         /\ \A k \in DOMAIN chan' : k = Len(chan) + 1 \/ k \in DOMAIN chan
BY DEF TypeOK, Send

\* An event is received.
LEMMA Receiving ==
  ASSUME TypeOK, chan # << >>, chan' = Tail(chan)
  PROVE  /\ Len(chan) \in Nat /\ Len(chan') = Len(chan) - 1
         /\ DOMAIN chan = 1..Len(chan) /\ DOMAIN chan' = 1..(Len(chan) - 1)
         /\ 1 \in DOMAIN chan /\ Head(chan) = chan[1]
         /\ \A k \in DOMAIN chan' : k + 1 \in DOMAIN chan /\ chan'[k] = chan[k + 1]
         /\ \A k \in DOMAIN chan : k # 1 => k - 1 \in DOMAIN chan' /\ chan'[k - 1] = chan[k]
<1>1. chan \in Seq(Events)
  BY DEF TypeOK
<1>2. /\ Tail(chan) \in Seq(Events) /\ 1 \in DOMAIN chan /\ Head(chan) = chan[1]
      /\ Len(Tail(chan)) = Len(chan) - 1
      /\ \A k \in DOMAIN Tail(chan) : k + 1 \in DOMAIN chan /\ Tail(chan)[k] = chan[k + 1]
  BY <1>1, TailElements
<1>3. Len(chan) \in Nat /\ DOMAIN chan = 1..Len(chan) /\ DOMAIN Tail(chan) = 1..Len(Tail(chan))
  BY <1>1, <1>2
<1>4. ASSUME NEW k \in DOMAIN chan, k # 1
      PROVE  k - 1 \in DOMAIN Tail(chan) /\ Tail(chan)[k - 1] = chan[k]
  <2>1. k - 1 \in DOMAIN Tail(chan) /\ (k - 1) + 1 = k
    BY <1>2, <1>3, <1>4
  <2> QED BY <1>2, <2>1
<1> QED BY <1>2, <1>3, <1>4

-----------------------------------------------------------------------------
(* What the events, the window and the stored rows are.                    *)

LEMMA ShapeInit == Init => Shape
BY DEF Init, Shape

\* MySQL commits a change: what the log held stays where it was.
LEMMA LogGrows ==
  ASSUME TypeOK, NEW t \in Tables, Change(t)
  PROVE  /\ Len(log) \in Nat /\ Len(log') = Len(log) + 1
         /\ \A i \in 1..Len(log) : log'[i] = log[i]
BY DEF TypeOK, Change

LEMMA ShapeChange ==
  ASSUME TypeOK, Shape, NEW t \in Tables, Change(t)
  PROVE  Shape'
<1>1. UNCHANGED <<reader, view, target, chan, stored, window, winCp, owed>>
  BY DEF Change, readerVars, sessionVars, durableVars, writerVars
<1>2. ASSUME NEW k \in DOMAIN chan
      PROVE  EventShape(chan[k])'
  <2>1. EventShape(chan[k]) /\ chan[k] \in Events
    BY PositionTypes DEF Shape
  <2>2. chan[k].upTo >= 1 => log'[chan[k].upTo] = log[chan[k].upTo]
    BY <2>1, LogGrows DEF Events, Positions
  <2> QED BY <1>1, <2>1, <2>2 DEF EventShape
<1>3. ASSUME NEW u \in Tables, NEW i \in stored[u]
      PROVE  i = 0 \/ log'[i] = u
  <2>1. i \in 0..Len(log) /\ (i = 0 \/ log[i] = u)
    BY DEF TypeOK, Shape, Positions
  <2> QED BY <2>1, LogGrows
<1> QED BY <1>1, <1>2, <1>3 DEF Shape

\* The recorded position only moves forward.
LEMMA TargetGrows ==
  ASSUME TypeOK, [Next]_vars
  PROVE  target' >= target
<1>1. target \in Nat /\ Len(log) \in Nat /\ target <= Len(log)
  BY PositionTypes
<1>2. target' = target \/ target' = Len(log)
  BY DEF Next, vars, readerVars, sessionVars, Change, SyncSchema, SnapshotTable,
         RecoverCheckpoint, OpenSnapshot, RecordPosition, EndSnapshot, ReadRow, StreamError,
         WriterTick, WriterSchema, WriterLoad, PersistCheckpoint, WriterRow, WriterClosed,
         CrashRestart
<1> QED BY <1>1, <1>2

\* A step that sends an event of that shape.
LEMMA ShapeSend ==
  ASSUME TypeOK, Shape, NEW e \in Events, EventShape(e), Send(e),
         UNCHANGED <<log, target, view, stored, window, winCp, owed>>,
         reader' = reader \/ reader' # "copying"
  PROVE  Shape'
<1>1. ASSUME NEW k \in DOMAIN chan'
      PROVE  EventShape(chan[k])'
  <2>1. chan'[k] = e \/ (k \in DOMAIN chan /\ chan'[k] = chan[k])
    BY Sending
  <2> QED BY <2>1 DEF Shape, EventShape
<1> QED BY <1>1 DEF Shape

LEMMA ShapeReader ==
  ASSUME TypeOK, Shape,
         \/ RecoverCheckpoint \/ OpenSnapshot \/ RecordPosition \/ EndSnapshot
         \/ ReadRow \/ StreamError
         \/ \E t \in Tables : SyncSchema(t) \/ SnapshotTable(t)
  PROVE  Shape'
<1>1. target \in Nat /\ Len(log) \in Nat /\ target <= Len(log) /\ NoCp \notin 0..Len(log)
      /\ view \in 0..Len(log) /\ view <= Len(log)
  BY PositionTypes
<1>2. CASE RecoverCheckpoint \/ OpenSnapshot \/ EndSnapshot \/ StreamError
  <2>1. UNCHANGED <<log, target, chan, stored, window, winCp, owed>> /\ reader' # "copying"
    BY <1>2 DEF RecoverCheckpoint, OpenSnapshot, EndSnapshot, StreamError, sessionVars,
                durableVars, writerVars
  <2> QED BY <2>1 DEF Shape, EventShape
<1>3. CASE RecordPosition
  <2>1. /\ UNCHANGED <<log, view, chan, stored, window, winCp, owed>>
        /\ target' = Len(log)
    BY <1>3 DEF RecordPosition, durableVars, writerVars
  <2>2. ASSUME NEW k \in DOMAIN chan
        PROVE  EventShape(chan[k])'
    <3>1. EventShape(chan[k]) /\ chan[k] \in Events
      BY PositionTypes DEF Shape
    <3>2. chan[k].upTo \in 0..Len(log) /\ chan[k].cp \in (0..Len(log)) \cup {NoCp}
      BY <3>1 DEF Events, Positions
    <3> QED BY <1>1, <2>1, <3>1, <3>2 DEF EventShape
  <2>3. owed # NoCp => owed <= target'
    BY <1>1, <2>1, PositionTypes
  <2> QED BY <1>1, <2>1, <2>2, <2>3 DEF Shape
<1>4. CASE ReadRow
  <2>1. sent + 1 \in 1..Len(log) /\ log[sent + 1] \in Tables
    BY <1>4, PositionTypes DEF ReadRow
  <2>2. RowEvent(sent + 1) \in Events /\ EventShape(RowEvent(sent + 1))
    BY <2>1 DEF RowEvent, Events, EventShape, Positions
  <2>3. Send(RowEvent(sent + 1)) /\ UNCHANGED <<log, target, view, stored, window, winCp, owed, reader>>
    BY <1>4 DEF ReadRow, sessionVars, durableVars, writerVars
  <2> QED BY <2>2, <2>3, ShapeSend
<1>5. ASSUME NEW t \in Tables, SyncSchema(t)
      PROVE  Shape'
  <2>1. SchemaEvent(t) \in Events /\ EventShape(SchemaEvent(t))
    BY <1>1 DEF SchemaEvent, Events, EventShape, Positions
  <2>2. Send(SchemaEvent(t)) /\ UNCHANGED <<log, target, view, stored, window, winCp, owed>>
        /\ (reader' = reader \/ reader' # "copying")
    BY <1>5 DEF SyncSchema, durableVars, writerVars
  <2> QED BY <2>1, <2>2, ShapeSend
<1>6. ASSUME NEW t \in Tables, SnapshotTable(t)
      PROVE  Shape'
  <2>1. LoadEvent(t) \in Events /\ EventShape(LoadEvent(t))
    BY <1>1, <1>6 DEF LoadEvent, Events, EventShape, Positions, Shape, SnapshotTable
  <2>2. Send(LoadEvent(t)) /\ UNCHANGED <<log, target, view, stored, window, winCp, owed, reader>>
    BY <1>6 DEF SnapshotTable, durableVars, writerVars
  <2> QED BY <2>1, <2>2, ShapeSend
<1> QED BY <1>2, <1>3, <1>4, <1>5, <1>6

\* A flush stores the rows of the window in their tables.
LEMMA FlushShape ==
  ASSUME TypeOK, Shape
  PROVE  \A t \in Tables : \A i \in FlushedStore[t] : i = 0 \/ log[i] = t
BY DEF TypeOK, Shape, FlushedStore

\* What is left of the channel keeps its shape.
LEMMA ShapeTail ==
  ASSUME TypeOK, Shape, UNCHANGED <<log, target>>,
         \/ UNCHANGED chan
         \/ chan # << >> /\ chan' = Tail(chan)
  PROVE  \A k \in DOMAIN chan' : EventShape(chan[k])'
<1>1. CASE UNCHANGED chan
  BY <1>1 DEF Shape, EventShape
<1>2. CASE chan # << >> /\ chan' = Tail(chan)
  <2>1. \A k \in DOMAIN chan' : k + 1 \in DOMAIN chan /\ chan'[k] = chan[k + 1]
    BY <1>2, Receiving
  <2> QED BY <2>1 DEF Shape, EventShape
<1> QED BY <1>1, <1>2

LEMMA ShapeWriter ==
  ASSUME TypeOK, Shape,
         WriterTick \/ WriterSchema \/ WriterLoad \/ PersistCheckpoint \/ WriterRow \/ WriterClosed
  PROVE  Shape'
<1>1. UNCHANGED <<log, reader, view, target>>
  BY DEF WriterTick, WriterSchema, WriterLoad, PersistCheckpoint, WriterRow, WriterClosed,
         readerVars, sessionVars
<1>2. UNCHANGED chan \/ (chan # << >> /\ chan' = Tail(chan))
  BY DEF WriterTick, WriterSchema, WriterLoad, PersistCheckpoint, WriterRow, WriterClosed
<1>3. \A k \in DOMAIN chan' : EventShape(chan[k])'
  BY <1>1, <1>2, ShapeTail
<1>4. CASE WriterTick \/ WriterSchema \/ WriterClosed
  <2>1. stored' = FlushedStore /\ window' = {} /\ winCp' = NoCp /\ owed' = owed
    BY <1>4 DEF WriterTick, WriterSchema, WriterClosed, Drain
  <2> QED BY <1>1, <1>3, <2>1, FlushShape DEF Shape
<1>5. CASE WriterLoad
  <2> DEFINE e == Head(chan)
  <2>1. e \in Events /\ EventShape(e) /\ e.kind = "load"
    BY <1>5, TypeTail, Receiving DEF WriterLoad, Shape
  <2>2. /\ \/ stored' = FlushedStore
           \/ stored' = [FlushedStore EXCEPT ![e.table] = @ \cup Content(e.table, e.upTo)]
        /\ owed' = e.cp /\ window' = {} /\ winCp' = NoCp
    BY <1>5 DEF WriterLoad, Drain
  <2> HIDE DEF e
  <2>3. e.table \in Tables /\ owed' <= target
    BY <2>1, <2>2 DEF Events, EventShape
  <2>4. \A i \in Content(e.table, e.upTo) : i = 0 \/ log[i] = e.table
    BY DEF Content
  <2>5. \A t \in Tables : \A i \in stored'[t] : i = 0 \/ log[i] = t
    BY <2>2, <2>3, <2>4, FlushShape, TypeFlush
  <2> QED BY <1>1, <1>3, <2>2, <2>3, <2>5 DEF Shape
<1>6. CASE PersistCheckpoint
  BY <1>1, <1>3, <1>6 DEF PersistCheckpoint, Shape
<1>7. CASE WriterRow
  <2>1. Head(chan) \in Events /\ EventShape(Head(chan)) /\ Head(chan).kind = "row"
    BY <1>7, TypeTail, Receiving DEF WriterRow, Shape
  <2>2. Head(chan).upTo # 0 /\ Head(chan).cp # NoCp
    BY <2>1, PositionTypes DEF Events, EventShape, Positions
  <2>3. window' = window \cup {Head(chan).upTo} /\ winCp' = Head(chan).cp
        /\ UNCHANGED <<stored, owed>>
    BY <1>7 DEF WriterRow, durableVars
  <2> QED BY <1>1, <1>3, <2>2, <2>3 DEF Shape
<1> QED BY <1>4, <1>5, <1>6, <1>7

LEMMA ShapeNext ==
  ASSUME TypeOK, Shape, [Next]_vars
  PROVE  Shape'
<1>1. CASE UNCHANGED vars
  BY <1>1 DEF vars, readerVars, sessionVars, durableVars, writerVars, Shape, EventShape
<1>2. CASE CrashRestart
  BY <1>2 DEF CrashRestart, durableVars, Shape
<1> QED BY <1>1, <1>2, ShapeChange, ShapeReader, ShapeWriter DEF Next

-----------------------------------------------------------------------------
(* The layouts.                                                            *)

LEMMA LayoutInit == Init => LayoutFirst
BY DEF Init, LayoutFirst, WindowLaid, QueueLaid, SessionLaid

\* Steps that leave the channel, the layouts and the window alone and do not take
\* a session past its schemas.
LEMMA LayoutQuiet ==
  ASSUME TypeOK, Shape, LayoutFirst,
         \/ \E t \in Tables : Change(t)
         \/ RecoverCheckpoint \/ OpenSnapshot \/ RecordPosition \/ EndSnapshot \/ StreamError
         \/ WriterTick \/ PersistCheckpoint \/ WriterClosed
  PROVE  LayoutFirst'
<1>1. /\ UNCHANGED <<chan, layouts>> /\ window' \subseteq window
      /\ \A i \in window : log'[i] = log[i]
  <2>1. CASE \E t \in Tables : Change(t)
    <3>1. \A i \in window : i \in 1..Len(log)
      <4>1. window \subseteq 0..Len(log) /\ 0 \notin window /\ Len(log) \in Nat
        BY PositionTypes DEF TypeOK, Shape
      <4> QED BY <4>1
    <3> QED BY <2>1, <3>1, LogGrows DEF Change, writerVars
  <2>2. CASE ~ \E t \in Tables : Change(t)
    BY <2>2
       DEF RecoverCheckpoint, OpenSnapshot, RecordPosition, EndSnapshot, StreamError, writerVars,
           WriterTick, PersistCheckpoint, WriterClosed, Drain
  <2> QED BY <2>1, <2>2
<1>2. WindowLaid' /\ QueueLaid'
  BY <1>1 DEF LayoutFirst, WindowLaid, QueueLaid, Announced
<1>3. \/ reader' = reader /\ (reader = "syncing" => todo' = todo)
      \/ reader' \in {"connecting", "stopped"}
      \/ reader' = "syncing" /\ todo' = Tables
      \/ reader \notin {"connecting", "stopped", "syncing"}
  BY DEF Change, RecoverCheckpoint, OpenSnapshot, RecordPosition, EndSnapshot, StreamError,
         WriterTick, PersistCheckpoint, WriterClosed, readerVars, sessionVars
<1>4. SessionLaid'
  BY <1>1, <1>3 DEF LayoutFirst, SessionLaid, Announced
<1> QED BY <1>2, <1>4 DEF LayoutFirst

\* The CDC task sends an event: the schemas come first.
LEMMA LayoutSend ==
  ASSUME TypeOK, LayoutFirst, ReadRow \/ \E t \in Tables : SyncSchema(t) \/ SnapshotTable(t)
  PROVE  LayoutFirst'
<1>1. UNCHANGED <<log, window, layouts>>
  BY DEF ReadRow, SyncSchema, SnapshotTable, writerVars
<1>2. PICK e \in Events :
        /\ Send(e)
        /\ \/ e.kind # "schema" /\ reader \in {"streaming", "copying"} /\ UNCHANGED reader
           \/ /\ e.kind = "schema" /\ reader = "syncing" /\ todo' = todo \ {e.table}
              /\ reader' \in {"syncing", "opening", "streaming"}
              /\ reader' # "syncing" => todo' = {}
  <2>1. CASE ReadRow
    <3>1. RowEvent(sent + 1) \in Events /\ RowEvent(sent + 1).kind = "row"
      BY <2>1, PositionTypes DEF ReadRow, RowEvent, Events, Positions
    <3> QED BY <2>1, <3>1 DEF ReadRow
  <2>2. ASSUME NEW t \in Tables, SyncSchema(t)
        PROVE  \E e \in Events :
                 /\ Send(e) /\ e.kind = "schema" /\ reader = "syncing" /\ todo' = todo \ {e.table}
                 /\ reader' \in {"syncing", "opening", "streaming"}
                 /\ reader' # "syncing" => todo' = {}
    <3>1. /\ SchemaEvent(t) \in Events /\ SchemaEvent(t).kind = "schema"
          /\ SchemaEvent(t).table = t
      BY PositionTypes DEF SchemaEvent, Events, Positions
    <3> QED BY <2>2, <3>1 DEF SyncSchema
  <2>3. ASSUME NEW t \in Tables, SnapshotTable(t)
        PROVE  \E e \in Events : Send(e) /\ e.kind # "schema" /\ reader = "copying" /\ UNCHANGED reader
    <3>1. LoadEvent(t) \in Events /\ LoadEvent(t).kind = "load"
      BY PositionTypes DEF LoadEvent, Events, Positions
    <3> QED BY <2>3, <3>1 DEF SnapshotTable
  <2> QED BY <2>1, <2>2, <2>3
<1>3. PICK n \in Nat :
        /\ n = Len(chan) + 1 /\ n = Len(chan') /\ DOMAIN chan = 1..(n - 1)
        /\ chan'[n] = e /\ n \in DOMAIN chan'
        /\ \A k \in DOMAIN chan : k \in DOMAIN chan' /\ chan'[k] = chan[k]
        /\ \A k \in DOMAIN chan' : k = n \/ k \in DOMAIN chan
  BY <1>2, Sending
<1>4. \A t, k : Announced(t, k) => Announced(t, k)'
  BY <1>3 DEF Announced
<1>5. Announced(e.table, n + 1)' \/ e.kind # "schema"
  BY <1>3 DEF Announced
<1>6. WindowLaid'
  BY <1>1 DEF LayoutFirst, WindowLaid
<1>7. QueueLaid'
  <2>1. ASSUME NEW k \in DOMAIN chan', chan'[k].kind # "schema", NEW t, t = chan'[k].table
        PROVE  t \in layouts \/ Announced(t, k)'
    <3>1. CASE k \in DOMAIN chan
      BY <1>3, <1>4, <2>1, <3>1 DEF LayoutFirst, QueueLaid
    <3>2. CASE k = n
      <4>1. t \in Tables /\ e.kind # "schema"
        BY <1>3, <2>1, <3>2 DEF Events
      <4>2. t \in layouts \/ Announced(t, n)
        BY <1>2, <1>3, <4>1 DEF LayoutFirst, SessionLaid
      <4> QED BY <1>4, <3>2, <4>2
    <3> QED BY <1>3, <3>1, <3>2
  <2> QED BY <1>1, <2>1 DEF QueueLaid, Announced
<1>8. SessionLaid'
  <2> SUFFICES ASSUME NEW t \in Tables \ layouts
               PROVE  \/ reader' \in {"connecting", "stopped"}
                      \/ reader' = "syncing" /\ t \in todo'
                      \/ Announced(t, n + 1)'
    BY <1>1, <1>3 DEF SessionLaid, Announced
  <2>1. Announced(t, n) => Announced(t, n + 1)'
    BY <1>3 DEF Announced
  <2>2. \/ reader \in {"connecting", "stopped"}
        \/ reader = "syncing" /\ t \in todo
        \/ Announced(t, n)
    BY <1>3 DEF LayoutFirst, SessionLaid
  <2> QED BY <1>2, <1>5, <2>1, <2>2
<1> QED BY <1>6, <1>7, <1>8 DEF LayoutFirst

\* The writer takes an event: a row that enters the window has its layout, and a
\* schema taken is a layout installed, or the snapshot is disturbed.
LEMMA LayoutTake ==
  ASSUME TypeOK, Shape, LayoutFirst, "schema" \notin disturbed',
         WriterSchema \/ WriterLoad \/ WriterRow
  PROVE  LayoutFirst'
<1>1. /\ chan # << >> /\ chan' = Tail(chan) /\ UNCHANGED <<log, reader, todo>>
  BY DEF WriterSchema, WriterLoad, WriterRow, readerVars, sessionVars
<1>2. PICK h \in Events : h = Head(chan) /\ h = chan[1]
  BY <1>1, TypeTail, Receiving
<1>3. layouts \subseteq layouts' /\ (h.kind = "schema" => h.table \in layouts')
  BY <1>2 DEF WriterSchema, ApplySchema, WriterLoad, WriterRow
<1>4. /\ Len(chan) \in Nat /\ Len(chan') = Len(chan) - 1 /\ DOMAIN chan = 1..Len(chan)
      /\ 1 \in DOMAIN chan
      /\ \A k \in DOMAIN chan' : k + 1 \in DOMAIN chan /\ chan'[k] = chan[k + 1]
      /\ \A k \in DOMAIN chan : k # 1 => k - 1 \in DOMAIN chan' /\ chan'[k - 1] = chan[k]
  BY <1>1, Receiving
<1>5. ASSUME NEW t, NEW k \in Int, Announced(t, k + 1)
      PROVE  t \in layouts' \/ Announced(t, k)'
  <2>1. PICK j \in DOMAIN chan : j < k + 1 /\ chan[j].kind = "schema" /\ chan[j].table = t
    BY <1>5 DEF Announced
  <2>2. CASE j = 1
    BY <1>2, <1>3, <2>1, <2>2
  <2>3. CASE j # 1
    <3>1. j - 1 \in DOMAIN chan' /\ chan'[j - 1] = chan[j] /\ j - 1 < k
      BY <1>4, <2>1, <2>3
    <3> QED BY <2>1, <3>1 DEF Announced
  <2> QED BY <2>2, <2>3
<1>6. QueueLaid'
  <2> SUFFICES ASSUME NEW k \in DOMAIN chan', chan'[k].kind # "schema", NEW t, t = chan'[k].table
               PROVE  t \in layouts' \/ Announced(t, k)'
    BY DEF QueueLaid, Announced
  <2>1. k + 1 \in DOMAIN chan /\ chan'[k] = chan[k + 1] /\ k \in Int
    BY <1>4
  <2>2. t \in layouts \/ Announced(t, k + 1)
    BY <2>1 DEF LayoutFirst, QueueLaid
  <2> QED BY <1>3, <1>5, <2>1, <2>2
<1>7. SessionLaid'
  <2> PICK n \in Int : n = Len(chan) /\ n = Len(chan') + 1
    BY <1>4
  <2> SUFFICES ASSUME NEW t \in Tables \ layouts'
               PROVE  \/ reader \in {"connecting", "stopped"}
                      \/ reader = "syncing" /\ t \in todo
                      \/ Announced(t, n)'
    BY <1>1 DEF SessionLaid, Announced
  <2>1. \/ reader \in {"connecting", "stopped"}
        \/ reader = "syncing" /\ t \in todo
        \/ Announced(t, Len(chan) + 1)
    BY <1>3 DEF LayoutFirst, SessionLaid
  <2> QED BY <1>5, <2>1
<1>8. WindowLaid'
  <2>1. CASE WriterRow
    <3>1. EventShape(h) /\ h.kind = "row" /\ window' = window \cup {h.upTo} /\ layouts' = layouts
      BY <1>2, <1>4, <2>1 DEF WriterRow, Shape
    <3>2. ~Announced(h.table, 1)
      BY <1>4 DEF Announced
    <3>3. h.table \in layouts
      BY <1>2, <1>4, <3>1, <3>2 DEF LayoutFirst, QueueLaid
    <3> QED BY <1>1, <3>1, <3>3 DEF LayoutFirst, WindowLaid, EventShape
  <2>2. CASE WriterSchema \/ WriterLoad
    BY <2>2 DEF WriterSchema, WriterLoad, Drain, WindowLaid
  <2> QED BY <2>1, <2>2
<1> QED BY <1>6, <1>7, <1>8 DEF LayoutFirst

LEMMA LayoutNext ==
  ASSUME TypeOK, Shape, LayoutFirst, [Next]_vars, "schema" \notin disturbed'
  PROVE  LayoutFirst'
<1>1. CASE UNCHANGED vars
  BY <1>1 DEF vars, readerVars, sessionVars, writerVars, LayoutFirst, WindowLaid, QueueLaid,
              SessionLaid, Announced
<1>2. CASE CrashRestart
  BY <1>2 DEF CrashRestart, LayoutFirst, WindowLaid, QueueLaid, SessionLaid
<1> QED BY <1>1, <1>2, LayoutQuiet, LayoutSend, LayoutTake DEF Next

-----------------------------------------------------------------------------
(* The rows behind the recorded position.                                  *)

\* What only grows: the log, the stored tables, the recorded position.
LEMMA Grows ==
  ASSUME TypeOK, [Next]_vars
  PROVE  /\ Len(log) \in Nat /\ Len(log') \in Nat /\ Len(log') >= Len(log)
         /\ \A i \in 1..Len(log) : log'[i] = log[i] /\ log[i] \in Tables
         /\ \A t \in Tables : stored[t] \subseteq stored'[t]
         /\ target \in Nat /\ target' \in Nat /\ target' >= target
<1>1. TypeOK'
  BY TypeNext
<1>2. target \in Nat /\ target' \in Nat /\ target' >= target /\ Len(log) \in Nat /\ Len(log') \in Nat
  <2>1. target \in Nat /\ Len(log) \in Nat
    BY PositionTypes
  <2>2. log' \in Seq(Tables) /\ target' \in 0..Len(log')
    BY <1>1 DEF TypeOK, Positions
  <2> QED BY <2>1, <2>2, TargetGrows
<1>3. Len(log') >= Len(log) /\ \A i \in 1..Len(log) : log'[i] = log[i]
  <2>1. CASE \E t \in Tables : Change(t)
    BY <1>2, <2>1, LogGrows
  <2>2. CASE UNCHANGED log
    BY <1>2, <2>2
  <2> QED BY <2>1, <2>2
       DEF Next, vars, SyncSchema, SnapshotTable, RecoverCheckpoint, OpenSnapshot,
           RecordPosition, EndSnapshot, ReadRow, StreamError, WriterTick, WriterSchema,
           WriterLoad, PersistCheckpoint, WriterRow, WriterClosed, CrashRestart
<1>4. \A t \in Tables : stored[t] \subseteq stored'[t]
  <2>1. CASE WriterTick \/ WriterSchema \/ WriterClosed
    BY <2>1 DEF WriterTick, WriterSchema, WriterClosed, FlushedStore
  <2>2. CASE WriterLoad
    <3> DEFINE e == Head(chan)
    <3>1. e.table \in Tables
      BY <2>2, TypeTail DEF WriterLoad, Events
    <3>2. \/ stored' = FlushedStore
          \/ stored' = [FlushedStore EXCEPT ![e.table] = @ \cup Content(e.table, e.upTo)]
      BY <2>2 DEF WriterLoad
    <3> HIDE DEF e
    <3>3. \A t \in Tables : stored[t] \subseteq FlushedStore[t]
      BY DEF FlushedStore
    <3>4. FlushedStore \in [Tables -> SUBSET Positions]
      BY TypeFlush
    <3> QED BY <3>1, <3>2, <3>3, <3>4
  <2>3. CASE UNCHANGED stored
    BY <2>3
  <2> QED BY <2>1, <2>2, <2>3
       DEF Next, vars, Change, SyncSchema, SnapshotTable, RecoverCheckpoint, OpenSnapshot,
           RecordPosition, EndSnapshot, ReadRow, StreamError, PersistCheckpoint, WriterRow,
           CrashRestart, durableVars
<1>5. \A i \in 1..Len(log) : log[i] \in Tables
  BY PositionTypes
<1> QED BY <1>2, <1>3, <1>4, <1>5

\* What is stored stays covered.
LEMMA HeldKept ==
  ASSUME TypeOK, [Next]_vars
  PROVE  \A p \in 0..Len(log) : Held(p) => Held(p)'
<1> SUFFICES ASSUME NEW p \in 0..Len(log), Held(p), NEW i \in (target' + 1)..p
             PROVE  i \in stored'[log'[i]]
  BY DEF Held
<1>1. i \in (target + 1)..p /\ i \in 1..Len(log)
  BY Grows
<1> QED BY <1>1, Grows DEF Held

\* What has arrived or is coming stays covered, if the step drops no row.
LEMMA ReachedKept ==
  ASSUME TypeOK, [Next]_vars,
         \A i \in 1..Len(log) : Arrived(i) => Arrived(i)',
         \A i \in 1..Len(log) : Coming(i) => Arrived(i)' \/ Coming(i)'
  PROVE  \A p \in 0..Len(log) : Reached(p) => Reached(p)'
<1> SUFFICES ASSUME NEW p \in 0..Len(log), Reached(p), NEW i \in (target' + 1)..p
             PROVE  Arrived(i)' \/ Coming(i)'
  BY DEF Reached
<1>1. i \in (target + 1)..p /\ i \in 1..Len(log)
  BY Grows
<1> QED BY <1>1 DEF Reached

\* The same for what is ahead in the channel, which moves from k to m.
LEMMA CompleteKept ==
  ASSUME TypeOK, [Next]_vars, NEW k, NEW m,
         \A i \in 1..Len(log) : Arrived(i) => Arrived(i)',
         \A i \in 1..Len(log) : Ahead(i, k) => Arrived(i)' \/ Ahead(i, m)'
  PROVE  \A p \in 0..Len(log) : Complete(p, k) => Complete(p, m)'
<1> SUFFICES ASSUME NEW p \in 0..Len(log), Complete(p, k), NEW i \in (target' + 1)..p
             PROVE  Arrived(i)' \/ Ahead(i, m)'
  BY DEF Complete
<1>1. i \in (target + 1)..p /\ i \in 1..Len(log)
  BY Grows
<1> QED BY <1>1 DEF Complete

\* Rows that have arrived stay, if the window is kept, or flushed with the layouts
\* of its tables.
LEMMA ArrivedKept ==
  ASSUME TypeOK, [Next]_vars,
         \/ window \subseteq window'
         \/ WindowLaid /\ \A t \in Tables : FlushedStore[t] \subseteq stored'[t]
  PROVE  \A i \in 1..Len(log) : Arrived(i) => Arrived(i)'
<1> TAKE i \in 1..Len(log)
<1>1. log'[i] = log[i] /\ log[i] \in Tables /\ stored[log[i]] \subseteq stored'[log[i]]
  BY Grows
<1>2. i \in window /\ WindowLaid => i \in FlushedStore[log[i]]
  BY <1>1 DEF FlushedStore, WindowLaid
<1> QED BY <1>1, <1>2 DEF Arrived

\* With the channel unchanged, the queue stays complete.
LEMMA QueueStays ==
  ASSUME TypeOK, [Next]_vars, UNCHANGED chan, QueueComplete,
         \A i \in 1..Len(log) : Arrived(i) => Arrived(i)'
  PROVE  /\ QueueComplete'
         /\ \A p \in 0..Len(log) : Reached(p) => Reached(p)'
<1>1. \A i, k : Ahead(i, k)' <=> Ahead(i, k)
  BY DEF Ahead, Rows
<1>2. \A i : Coming(i)' <=> Coming(i)
  BY DEF Coming, Rows
<1>3. ASSUME NEW k \in Rows
      PROVE  Complete(chan[k].upTo, k)'
  <2>1. chan[k].upTo \in 0..Len(log)
    BY PositionTypes DEF Rows, Events, Positions
  <2>2. \A p \in 0..Len(log) : Complete(p, k) => Complete(p, k)'
    BY <1>1, CompleteKept
  <2> QED BY <2>1, <2>2 DEF QueueComplete
<1>4. QueueComplete'
  BY <1>3 DEF QueueComplete, Rows
<1> QED BY <1>2, <1>4, ReachedKept

\* With an event sent, the queue stays complete if, when it is a row, the rows
\* before it have arrived or are coming.
LEMMA QueueSends ==
  ASSUME TypeOK, [Next]_vars, QueueComplete, NEW e \in Events, Send(e),
         \A i \in 1..Len(log) : Arrived(i) => Arrived(i)',
         e.kind = "row" =>
           \A i \in (target + 1)..e.upTo : Arrived(i) \/ Coming(i) \/ i = e.upTo
  PROVE  /\ QueueComplete'
         /\ \A p \in 0..Len(log) : Reached(p) => Reached(p)'
         /\ e.kind = "row" => Reached(e.upTo)'
         /\ Loads \subseteq Loads'
         /\ e.kind = "load" => Loads' # {}
<1>1. Rows \subseteq Rows' /\ Loads \subseteq Loads' /\ \A k \in Rows : chan'[k] = chan[k]
  BY Sending DEF Rows, Loads
<1>2. \A i : Coming(i) => Coming(i)'
  BY <1>1 DEF Coming
<1>3. \A i, k : Ahead(i, k) => Ahead(i, k)'
  BY <1>1 DEF Ahead
<1>4. \A p \in 0..Len(log) : Reached(p) => Reached(p)'
  BY <1>2, ReachedKept
<1>5. PICK n \in DOMAIN chan' : n = Len(chan) + 1 /\ chan'[n] = e
  BY Sending
<1>6. \A k \in Rows' : k = n \/ k \in Rows
  BY <1>5, Sending DEF Rows
<1>7. \A k \in Rows' : k <= n
  BY <1>5, Sending DEF Rows
<1>8. ASSUME NEW k \in Rows
      PROVE  Complete(chan[k].upTo, k)'
  <2>1. chan[k].upTo \in 0..Len(log) /\ chan'[k] = chan[k]
    BY <1>1, PositionTypes DEF Rows, Events, Positions
  <2>2. \A p \in 0..Len(log) : Complete(p, k) => Complete(p, k)'
    BY <1>3, CompleteKept
  <2> QED BY <2>1, <2>2 DEF QueueComplete
<1>9. ASSUME e.kind = "row"
      PROVE  Complete(e.upTo, n)' /\ Reached(e.upTo)'
  <2>1. n \in Rows'
    BY <1>5, <1>9 DEF Rows
  <2>2. ASSUME NEW i \in (target' + 1)..e.upTo
        PROVE  Arrived(i)' \/ (Coming(i)' /\ Ahead(i, n)')
    <3>1. i \in (target + 1)..e.upTo /\ i \in 1..Len(log)
      BY Grows DEF Events, Positions
    <3>2. Arrived(i) \/ Coming(i) \/ i = e.upTo
      BY <1>9, <3>1
    <3>3. CASE Arrived(i)
      BY <3>1, <3>3
    <3>4. CASE Coming(i)
      <4>1. Coming(i)'
        BY <1>2, <3>4
      <4> QED BY <4>1, <1>7 DEF Coming, Ahead
    <3>5. CASE i = e.upTo
      BY <1>5, <2>1, <3>5 DEF Coming, Ahead
    <3> QED BY <3>2, <3>3, <3>4, <3>5
  <2> QED BY <2>2 DEF Complete, Reached
<1>10. QueueComplete'
  <2>1. ASSUME NEW k \in Rows'
        PROVE  Complete(chan[k].upTo, k)'
    <3>1. CASE k \in Rows
      BY <3>1, <1>8
    <3>2. CASE k = n
      BY <1>5, <1>9, <2>1, <3>2 DEF Rows
    <3> QED BY <1>6, <3>1, <3>2
  <2> QED BY <2>1 DEF QueueComplete
<1>11. e.kind = "load" => n \in Loads'
  BY <1>5 DEF Loads
<1> QED BY <1>1, <1>4, <1>9, <1>10, <1>11

\* With the head received, the queue stays complete if a row goes to the window;
\* the rows up to it have arrived then.
LEMMA QueueTakes ==
  ASSUME TypeOK, [Next]_vars, QueueComplete, chan # << >>, chan' = Tail(chan),
         \A i \in 1..Len(log) : Arrived(i) => Arrived(i)',
         NEW r, r = Head(chan).upTo,
         Head(chan).kind = "row" => r \in window'
  PROVE  /\ QueueComplete'
         /\ \A p \in 0..Len(log) : Reached(p) => Reached(p)'
         /\ Head(chan).kind = "row" => Windowed(r)'
<1>1. \A j \in Rows : j # 1 => j - 1 \in Rows' /\ chan'[j - 1] = chan[j]
  BY Receiving DEF Rows
<1>2. \A j \in Rows' : j + 1 \in Rows /\ chan'[j] = chan[j + 1] /\ j \in Int
  BY Receiving DEF Rows
<1>3. \A i : 1 \in Rows /\ chan[1].upTo = i => Arrived(i)'
  BY Receiving DEF Rows, Arrived
<1>4. ASSUME NEW i, Coming(i)
      PROVE  Arrived(i)' \/ Coming(i)'
  <2>1. PICK j \in Rows : chan[j].upTo = i
    BY <1>4 DEF Coming
  <2>2. j # 1 => j - 1 \in Rows' /\ chan'[j - 1].upTo = i
    BY <1>1, <2>1
  <2> QED BY <1>3, <2>1, <2>2 DEF Coming
<1>5. ASSUME NEW k \in Rows'
      PROVE  Complete(chan[k].upTo, k)'
  <2>1. Complete(chan[k + 1].upTo, k + 1) /\ chan'[k] = chan[k + 1]
    BY <1>2 DEF QueueComplete
  <2>2. chan[k + 1].upTo \in 0..Len(log)
    BY <1>2, PositionTypes DEF Rows, Events, Positions
  <2>3. ASSUME NEW i, Ahead(i, k + 1)
        PROVE  Arrived(i)' \/ Ahead(i, k)'
    <3>1. PICK j \in Rows : j <= k + 1 /\ chan[j].upTo = i
      BY <2>3 DEF Ahead
    <3>2. j \in Int /\ k \in Int
      BY <1>2, Receiving DEF Rows
    <3>3. CASE j = 1
      BY <1>3, <3>1, <3>3
    <3>4. CASE j # 1
      <4>1. j - 1 \in Rows' /\ chan'[j - 1].upTo = i
        BY <1>1, <3>1, <3>4
      <4>2. j - 1 <= k
        BY <3>1, <3>2
      <4> QED BY <4>1, <4>2 DEF Ahead
    <3> QED BY <3>3, <3>4
  <2>4. \A p \in 0..Len(log) : Complete(p, k + 1) => Complete(p, k)'
    BY <2>3, CompleteKept
  <2> QED BY <2>1, <2>2, <2>4
<1>6. QueueComplete'
  BY <1>5 DEF QueueComplete
<1>7. \A p \in 0..Len(log) : Reached(p) => Reached(p)'
  BY <1>4, ReachedKept
<1>8. ASSUME Head(chan).kind = "row"
      PROVE  Windowed(r)'
  <2>1. 1 \in Rows /\ chan[1].upTo = r
    BY <1>8, Receiving DEF Rows
  <2>2. r \in 0..Len(log)
    BY <2>1, PositionTypes DEF Rows, Events, Positions
  <2>3. Complete(r, 1)
    BY <2>1 DEF QueueComplete
  <2>4. r \in window'
    BY <1>8
  <2>5. ASSUME NEW i \in (target' + 1)..r
        PROVE  Arrived(i)'
    <3>1. i \in (target + 1)..r /\ i \in 1..Len(log)
      BY <2>2, Grows
    <3>2. Arrived(i) \/ Ahead(i, 1)
      BY <2>3, <3>1 DEF Complete
    <3>3. Ahead(i, 1) => i = r
      <4>1. \A j \in Rows : j <= 1 => j = 1
        BY Receiving DEF Rows
      <4> QED BY <2>1, <4>1 DEF Ahead
    <3> QED BY <2>4, <3>1, <3>2, <3>3 DEF Arrived
  <2> QED BY <2>5 DEF Windowed
<1> QED BY <1>6, <1>7, <1>8

\* What the window's checkpoint covers stays covered while the window grows.
LEMMA WindowedKept ==
  ASSUME TypeOK, [Next]_vars, \A i \in 1..Len(log) : Arrived(i) => Arrived(i)'
  PROVE  \A p \in 0..Len(log) : Windowed(p) => Windowed(p)'
<1> SUFFICES ASSUME NEW p \in 0..Len(log), Windowed(p), NEW i \in (target' + 1)..p
             PROVE  Arrived(i)'
  BY DEF Windowed
<1>1. i \in (target + 1)..p /\ i \in 1..Len(log)
  BY Grows
<1> QED BY <1>1 DEF Windowed

\* MySQL commits a change, or the CDC task takes a step that sends nothing.
LEMMA StreamQuiet ==
  ASSUME TypeOK, Shape, StreamInv, [Next]_vars,
         \/ \E t \in Tables : Change(t)
         \/ RecoverCheckpoint \/ OpenSnapshot \/ RecordPosition \/ EndSnapshot \/ StreamError
  PROVE  StreamInv'
<1>1. UNCHANGED <<chan, stored, ckpt, window, winCp, owed, initialCp>>
  BY DEF Change, RecoverCheckpoint, OpenSnapshot, RecordPosition, EndSnapshot, StreamError,
         readerVars, durableVars, writerVars
<1>2. \A i \in 1..Len(log) : Arrived(i) => Arrived(i)'
  BY <1>1, ArrivedKept
<1>3. QueueComplete' /\ \A p \in 0..Len(log) : Reached(p) => Reached(p)'
  BY <1>1, <1>2, QueueStays DEF StreamInv
<1>4. CkptHeld'
  BY <1>1, HeldKept, PositionTypes DEF StreamInv, CkptHeld
<1>5. WindowComplete'
  BY <1>1, <1>2, WindowedKept, PositionTypes DEF StreamInv, WindowComplete
<1>6. (Backed <=> Backed') /\ (StartFrom # NoCp => Backed)
  BY <1>1 DEF StreamInv, CkptHeld, SnapshotBacked, Backed, StartFrom, Loads
<1>7. TypeOK' /\ target \in 0..Len(log) /\ NoCp \notin 0..Len(log)
  BY TypeNext, PositionTypes
<1>8. EndSnapshot => Reached(target)' /\ UNCHANGED target
  <2> SUFFICES ASSUME EndSnapshot PROVE Reached(target)' /\ UNCHANGED target
    OBVIOUS
  <2>1. UNCHANGED target /\ target \in Nat
    BY Grows DEF EndSnapshot, sessionVars
  <2> QED BY <2>1 DEF Reached
<1>9. StartComplete'
  <2>1. CASE EndSnapshot
    <3>1. StartFrom' \in {StartFrom, target'}
      BY <1>1, <1>8, <2>1 DEF StartFrom, EndSnapshot
    <3> QED BY <1>3, <1>8, <2>1, <3>1, PositionTypes DEF StreamInv, StartComplete, StartFrom
  <2>2. CASE ~EndSnapshot
    <3>1. StartFrom' = StartFrom
      BY <1>1, <2>2
         DEF StartFrom, Change, RecoverCheckpoint, OpenSnapshot, RecordPosition, StreamError,
             readerVars
    <3> QED BY <1>3, <3>1, PositionTypes DEF StreamInv, StartComplete, StartFrom
  <2> QED BY <2>1, <2>2
<1>10. SessionComplete'
  <2>1. CASE \E t \in Tables : Change(t)
    BY <1>3, <2>1, PositionTypes
       DEF Change, readerVars, sessionVars, StreamInv, SessionComplete
  <2>2. CASE RecoverCheckpoint
    <3>1. StartFrom # NoCp => Reached(StartFrom) /\ StartFrom \in 0..Len(log)
      BY PositionTypes DEF StreamInv, StartComplete, StartFrom
    <3> QED BY <1>3, <2>2, <3>1 DEF RecoverCheckpoint, SessionComplete
  <2>3. CASE OpenSnapshot \/ RecordPosition \/ StreamError
    BY <2>3 DEF OpenSnapshot, RecordPosition, StreamError, SessionComplete
  <2>4. CASE EndSnapshot
    BY <1>8, <2>4 DEF EndSnapshot, SessionComplete
  <2> QED BY <2>1, <2>2, <2>3, <2>4
<1>11. SnapshotBacked'
  <2>1. CASE \E t \in Tables : Change(t)
    BY <1>6, <2>1 DEF Change, readerVars, sessionVars, StreamInv, SnapshotBacked
  <2>2. CASE RecoverCheckpoint
    BY <1>6, <2>2 DEF RecoverCheckpoint, StreamInv, SnapshotBacked
  <2>3. CASE OpenSnapshot \/ RecordPosition \/ StreamError
    BY <1>6, <2>3 DEF OpenSnapshot, RecordPosition, StreamError, StreamInv, SnapshotBacked
  <2>4. CASE EndSnapshot
    BY <1>6, <2>4, SnapshotAssumption DEF EndSnapshot, sessionVars, StreamInv, SnapshotBacked
  <2> QED BY <2>1, <2>2, <2>3, <2>4
<1> QED BY <1>3, <1>4, <1>5, <1>9, <1>10, <1>11 DEF StreamInv

\* The CDC task sends an event.
LEMMA StreamSend ==
  ASSUME TypeOK, Shape, StreamInv, [Next]_vars,
         ReadRow \/ \E t \in Tables : SyncSchema(t) \/ SnapshotTable(t)
  PROVE  StreamInv'
<1>1. UNCHANGED <<stored, ckpt, window, winCp, owed, initialCp>>
  BY DEF ReadRow, SyncSchema, SnapshotTable, durableVars, writerVars
<1>2. \A i \in 1..Len(log) : Arrived(i) => Arrived(i)'
  BY <1>1, ArrivedKept
<1>3. CkptHeld'
  BY <1>1, HeldKept, PositionTypes DEF StreamInv, CkptHeld
<1>4. WindowComplete'
  BY <1>1, <1>2, WindowedKept, PositionTypes DEF StreamInv, WindowComplete
<1>5. CASE ReadRow
  <2>1. sent + 1 \in 1..Len(log) /\ log[sent + 1] \in Tables /\ Reached(sent)
        /\ sent \in Nat /\ reader = "streaming"
    BY <1>5, PositionTypes DEF ReadRow, StreamInv, SessionComplete
  <2>2. PICK e \in Events : e = RowEvent(sent + 1)
    <3>1. RowEvent(sent + 1) \in Events
      BY <2>1 DEF RowEvent, Events, Positions
    <3> QED BY <3>1
  <2>3. e.kind = "row" /\ e.upTo = sent + 1
    BY <2>2 DEF RowEvent
  <2>4. \A i \in (target + 1)..e.upTo : Arrived(i) \/ Coming(i) \/ i = e.upTo
    BY <2>1, <2>3, Grows DEF Reached
  <2>5. /\ QueueComplete' /\ \A p \in 0..Len(log) : Reached(p) => Reached(p)'
        /\ Reached(e.upTo)' /\ Loads \subseteq Loads'
    <3>1. Send(e)
      BY <1>5, <2>2 DEF ReadRow
    <3> QED BY <1>2, <2>3, <2>4, <3>1, QueueSends DEF StreamInv
  <2>6. sent' = e.upTo /\ jsonCp' = e.upTo /\ UNCHANGED <<reader, recovered, todo>>
    BY <1>5, <2>3 DEF ReadRow, sessionVars
  <2>7. StartComplete'
    <3>1. StartFrom' = StartFrom \/ StartFrom' = e.upTo
      BY <1>1, <2>6 DEF StartFrom
    <3> QED BY <2>5, <3>1, PositionTypes DEF StreamInv, StartComplete, StartFrom
  <2>8. SessionComplete'
    BY <2>1, <2>5, <2>6 DEF SessionComplete
  <2>9. SnapshotBacked'
    BY <1>1, <2>1, <2>5, <2>6 DEF StreamInv, SnapshotBacked, Backed
  <2> QED BY <1>3, <1>4, <2>5, <2>7, <2>8, <2>9 DEF StreamInv
<1>6. ASSUME NEW t \in Tables, SyncSchema(t)
      PROVE  StreamInv'
  <2>1. PICK e \in Events : e = SchemaEvent(t)
    <3>1. SchemaEvent(t) \in Events
      BY PositionTypes DEF SchemaEvent, Events, Positions
    <3> QED BY <3>1
  <2>2. e.kind # "row"
    BY <2>1 DEF SchemaEvent
  <2>3. /\ QueueComplete' /\ \A p \in 0..Len(log) : Reached(p) => Reached(p)'
        /\ Loads \subseteq Loads'
    <3>1. Send(e)
      BY <1>6, <2>1 DEF SyncSchema
    <3> QED BY <1>2, <2>2, <3>1, QueueSends DEF StreamInv
  <2>4. UNCHANGED <<jsonCp, recovered>> /\ StartFrom' = StartFrom
    BY <1>1, <1>6 DEF SyncSchema, StartFrom
  <2>5. Backed => Backed'
    BY <1>1, <2>3 DEF Backed
  <2>6. reader = "syncing"
        /\ \/ UNCHANGED reader
           \/ reader' = "opening"
           \/ reader' = "streaming" /\ sent' = recovered /\ recovered # NoCp
    BY <1>6 DEF SyncSchema
  <2>7. StartComplete'
    BY <2>3, <2>4, PositionTypes DEF StreamInv, StartComplete, StartFrom
  <2>8. SessionComplete'
    BY <2>3, <2>4, <2>6, PositionTypes DEF StreamInv, SessionComplete
  <2>9. SnapshotBacked'
    BY <2>4, <2>5, <2>6 DEF StreamInv, SnapshotBacked
  <2> QED BY <1>3, <1>4, <2>3, <2>7, <2>8, <2>9 DEF StreamInv
<1>7. ASSUME NEW t \in Tables, SnapshotTable(t)
      PROVE  StreamInv'
  <2>1. PICK e \in Events : e = LoadEvent(t)
    <3>1. LoadEvent(t) \in Events
      BY PositionTypes DEF LoadEvent, Events, Positions
    <3> QED BY <3>1
  <2>2. e.kind = "load"
    BY <2>1 DEF LoadEvent
  <2>3. /\ QueueComplete' /\ \A p \in 0..Len(log) : Reached(p) => Reached(p)'
        /\ Loads' # {}
    <3>1. Send(e)
      BY <1>7, <2>1 DEF SnapshotTable
    <3> QED BY <1>2, <2>2, <3>1, QueueSends DEF StreamInv
  <2>4. UNCHANGED <<jsonCp, recovered, reader>> /\ reader = "copying" /\ StartFrom' = StartFrom
    BY <1>1, <1>7 DEF SnapshotTable, StartFrom
  <2>5. StartComplete'
    BY <2>3, <2>4, PositionTypes DEF StreamInv, StartComplete, StartFrom
  <2>6. SessionComplete' /\ SnapshotBacked'
    BY <2>3, <2>4 DEF SessionComplete, SnapshotBacked, Backed
  <2> QED BY <1>3, <1>4, <2>3, <2>5, <2>6 DEF StreamInv
<1> QED BY <1>5, <1>6, <1>7

\* The writer flushes its window, with or without an event received.
LEMMA StreamFlush ==
  ASSUME TypeOK, Shape, StreamInv, WindowLaid, [Next]_vars,
         ckpt' = FlushedCp, window' = {}, winCp' = NoCp,
         \A t \in Tables : FlushedStore[t] \subseteq stored'[t],
         UNCHANGED readerVars,
         QueueComplete',
         \A p \in 0..Len(log) : Reached(p) => Reached(p)',
         Backed => Backed'
  PROVE  StreamInv'
<1>1. CkptHeld'
  <2>1. CASE window = {}
    BY <2>1, HeldKept, PositionTypes DEF StreamInv, CkptHeld, FlushedCp, readerVars
  <2>2. CASE window # {}
    <3>1. winCp # NoCp /\ winCp \in 0..Len(log) /\ Windowed(winCp) /\ ckpt' = winCp
      BY <2>2, PositionTypes DEF Shape, StreamInv, WindowComplete, FlushedCp
    <3>2. ASSUME NEW i \in (target' + 1)..winCp
          PROVE  i \in stored'[log'[i]]
      <4>1. i \in (target + 1)..winCp /\ i \in 1..Len(log) /\ log'[i] = log[i] /\ log[i] \in Tables
        BY <3>1, Grows
      <4>2. i \in FlushedStore[log[i]]
        BY <3>1, <4>1 DEF Windowed, Arrived, FlushedStore, WindowLaid
      <4> QED BY <4>1, <4>2
    <3>3. Held(ckpt)'
      BY <3>1, <3>2 DEF Held
    <3> QED BY <3>1, <3>3, HeldKept, PositionTypes DEF StreamInv, CkptHeld, readerVars
  <2> QED BY <2>1, <2>2
<1>2. WindowComplete'
  BY DEF WindowComplete
<1>3. ckpt # NoCp => ckpt' # NoCp
  BY DEF Shape, FlushedCp
<1>4. StartComplete'
  <2>1. StartFrom' = StartFrom \/ (StartFrom' = ckpt' /\ ckpt' # NoCp)
    BY <1>3 DEF StartFrom, readerVars
  <2>2. ckpt' # NoCp => Reached(ckpt)'
    BY <1>1 DEF CkptHeld, Held, Reached, Arrived
  <2> QED BY <2>1, <2>2, PositionTypes DEF StreamInv, StartComplete, StartFrom
<1>5. SessionComplete'
  BY PositionTypes DEF StreamInv, SessionComplete, readerVars, sessionVars
<1>6. SnapshotBacked'
  BY DEF StreamInv, SnapshotBacked, readerVars, sessionVars
<1> QED BY <1>1, <1>2, <1>4, <1>5, <1>6 DEF StreamInv

LEMMA StreamWriter ==
  ASSUME TypeOK, Shape, StreamInv, WindowLaid, [Next]_vars,
         WriterTick \/ WriterSchema \/ WriterLoad \/ PersistCheckpoint \/ WriterRow \/ WriterClosed
  PROVE  StreamInv'
<1>1. UNCHANGED readerVars
  BY DEF WriterTick, WriterSchema, WriterLoad, PersistCheckpoint, WriterRow, WriterClosed
<1>2. CASE WriterTick \/ WriterClosed
  <2>1. /\ ckpt' = FlushedCp /\ stored' = FlushedStore /\ window' = {} /\ winCp' = NoCp
        /\ UNCHANGED <<chan, owed>>
    BY <1>2 DEF WriterTick, WriterClosed, Drain
  <2>2. \A i \in 1..Len(log) : Arrived(i) => Arrived(i)'
    BY <2>1, ArrivedKept
  <2>3. QueueComplete' /\ \A p \in 0..Len(log) : Reached(p) => Reached(p)'
    BY <2>1, <2>2, QueueStays DEF StreamInv
  <2>4. Backed => Backed'
    BY <2>1 DEF Backed, Loads, FlushedCp, Shape
  <2> QED BY <1>1, <2>1, <2>3, <2>4, StreamFlush
<1>3. CASE WriterSchema \/ WriterLoad
  <2>1. /\ ckpt' = FlushedCp /\ window' = {} /\ winCp' = NoCp
        /\ chan # << >> /\ chan' = Tail(chan) /\ Head(chan).kind # "row"
        /\ \/ Head(chan).kind # "load" /\ UNCHANGED owed
           \/ Head(chan).kind = "load" /\ owed' = Head(chan).cp
    BY <1>3 DEF WriterSchema, WriterLoad, Drain
  <2>2. \A t \in Tables : FlushedStore[t] \subseteq stored'[t]
    <3>1. CASE stored' = FlushedStore
      BY <3>1
    <3>2. CASE WriterLoad
      <4> DEFINE e == Head(chan)
      <4>1. e.table \in Tables
        BY <3>2, TypeTail DEF WriterLoad, Events
      <4>2. \/ stored' = FlushedStore
            \/ stored' = [FlushedStore EXCEPT ![e.table] = @ \cup Content(e.table, e.upTo)]
        BY <3>2 DEF WriterLoad
      <4> HIDE DEF e
      <4> QED BY <4>1, <4>2, TypeFlush
    <3> QED BY <1>3, <3>1, <3>2 DEF WriterSchema
  <2>3. \A i \in 1..Len(log) : Arrived(i) => Arrived(i)'
    BY <2>2, ArrivedKept
  <2>4. QueueComplete' /\ \A p \in 0..Len(log) : Reached(p) => Reached(p)'
    BY <2>1, <2>3, QueueTakes DEF StreamInv
  <2>5. Backed => Backed'
    <3>1. CASE Head(chan).kind = "load"
      <4>1. EventShape(Head(chan))
        BY <2>1, Receiving DEF Shape
      <4> QED BY <2>1, <3>1, <4>1 DEF EventShape, Backed
    <3>2. CASE Head(chan).kind # "load"
      <4>1. \A k \in Loads : k - 1 \in Loads'
        BY <2>1, <3>2, Receiving DEF Loads
      <4> QED BY <2>1, <3>2, <4>1 DEF Backed, FlushedCp, Shape
    <3> QED BY <3>1, <3>2
  <2> QED BY <1>1, <2>1, <2>2, <2>4, <2>5, StreamFlush
<1>4. CASE PersistCheckpoint
  <2>1. /\ ckpt' = owed /\ owed # NoCp /\ owed' = NoCp
        /\ UNCHANGED <<log, target, chan, stored, window, winCp>>
    BY <1>1, <1>4 DEF PersistCheckpoint, readerVars, sessionVars
  <2>2. \A i \in 1..Len(log) : Arrived(i) => Arrived(i)'
    BY <2>1, ArrivedKept
  <2>3. QueueComplete' /\ \A p \in 0..Len(log) : Reached(p) => Reached(p)'
    BY <2>1, <2>2, QueueStays DEF StreamInv
  <2>4. owed <= target /\ owed \in Nat /\ target \in Nat
    BY <2>1, PositionTypes DEF Shape
  <2>5. Held(ckpt)' /\ Reached(ckpt)'
    BY <2>1, <2>4 DEF Held, Reached
  <2>6. CkptHeld'
    BY <1>1, <2>1, <2>5, HeldKept, PositionTypes DEF StreamInv, CkptHeld, readerVars
  <2>7. WindowComplete'
    BY <2>1, <2>2, WindowedKept, PositionTypes DEF StreamInv, WindowComplete
  <2>8. StartComplete'
    <3>1. StartFrom' = ckpt' \/ (StartFrom' = StartFrom /\ StartFrom # NoCp)
      BY <1>1, <2>1 DEF StartFrom, readerVars
    <3> QED BY <2>3, <2>5, <3>1, PositionTypes DEF StreamInv, StartComplete, StartFrom
  <2>9. SessionComplete'
    BY <1>1, <2>3, PositionTypes DEF StreamInv, SessionComplete, readerVars, sessionVars
  <2>10. SnapshotBacked'
    BY <2>1 DEF SnapshotBacked, Backed
  <2> QED BY <2>3, <2>6, <2>7, <2>8, <2>9, <2>10 DEF StreamInv
<1>5. CASE WriterRow
  <2>1. PICK r : r = Head(chan).upTo
    OBVIOUS
  <2>2. /\ chan # << >> /\ chan' = Tail(chan) /\ Head(chan).kind = "row"
        /\ window' = window \cup {r} /\ winCp' = Head(chan).cp
        /\ UNCHANGED <<stored, ckpt, owed>>
    BY <1>5, <2>1 DEF WriterRow, durableVars
  <2>3. winCp' = r
    BY <2>1, <2>2, Receiving DEF Shape, EventShape
  <2>4. \A i \in 1..Len(log) : Arrived(i) => Arrived(i)'
    BY <2>2, ArrivedKept
  <2>5. /\ QueueComplete' /\ \A p \in 0..Len(log) : Reached(p) => Reached(p)'
        /\ Windowed(r)'
    BY <2>1, <2>2, <2>4, QueueTakes DEF StreamInv
  <2>6. WindowComplete'
    BY <2>3, <2>5 DEF WindowComplete
  <2>7. CkptHeld'
    BY <1>1, <2>2, HeldKept, PositionTypes DEF StreamInv, CkptHeld, readerVars
  <2>8. StartComplete'
    <3>1. StartFrom' = StartFrom
      BY <1>1, <2>2 DEF StartFrom, readerVars
    <3> QED BY <2>5, <3>1, PositionTypes DEF StreamInv, StartComplete, StartFrom
  <2>9. SessionComplete'
    BY <1>1, <2>5, PositionTypes DEF StreamInv, SessionComplete, readerVars, sessionVars
  <2>10. SnapshotBacked'
    <3>1. \A k \in Loads : k - 1 \in Loads'
      BY <2>2, Receiving DEF Loads
    <3>2. Backed => Backed'
      BY <2>2, <3>1 DEF Backed
    <3> QED BY <1>1, <3>2 DEF StreamInv, SnapshotBacked, readerVars, sessionVars
  <2> QED BY <2>5, <2>6, <2>7, <2>8, <2>9, <2>10 DEF StreamInv
<1> QED BY <1>2, <1>3, <1>4, <1>5

\* A crash that hits a settled snapshot.
LEMMA StreamCrash ==
  ASSUME TypeOK, Shape, StreamInv, [Next]_vars, CrashRestart, SnapshotSettled
  PROVE  StreamInv'
<1>1. Loads = {} /\ owed = NoCp /\ reader = "streaming"
  BY DEF SnapshotSettled, Queued, Loads
<1>2. ckpt # NoCp /\ Held(ckpt)
  BY <1>1 DEF StreamInv, SnapshotBacked, Backed, CkptHeld
<1>3. Rows' = {} /\ ckpt' = ckpt /\ initialCp' = ckpt /\ winCp' = NoCp /\ reader' = "connecting"
  BY DEF CrashRestart, Rows, durableVars
<1>4. CkptHeld' /\ Held(ckpt)'
  BY <1>2, <1>3, HeldKept, PositionTypes DEF CkptHeld
<1>5. StartComplete'
  <2>1. StartFrom' = ckpt'
    BY <1>2, <1>3 DEF StartFrom
  <2>2. Reached(ckpt)'
    BY <1>4 DEF Held, Reached, Arrived
  <2> QED BY <2>1, <2>2 DEF StartComplete
<1> QED BY <1>2, <1>3, <1>4, <1>5
     DEF StreamInv, WindowComplete, QueueComplete, SessionComplete, SnapshotBacked, Backed

LEMMA StreamInit == Init => StreamInv
BY DEF Init, StreamInv, CkptHeld, WindowComplete, QueueComplete, StartComplete, StartFrom,
       SessionComplete, SnapshotBacked, Rows

\* What has hit the snapshot is not forgotten.
LEMMA DisturbedGrows ==
  ASSUME [Next]_vars
  PROVE  disturbed \subseteq disturbed'
BY DEF Next, vars, countVars, Change, SyncSchema, SnapshotTable, RecoverCheckpoint,
       OpenSnapshot, RecordPosition, EndSnapshot, ReadRow, StreamError, Disturb, WriterTick,
       WriterSchema, ApplySchema, WriterLoad, PersistCheckpoint, WriterRow, WriterClosed,
       CrashRestart

LEMMA StreamNext ==
  ASSUME TypeOK, Shape, [Next]_vars,
         "schema" \notin disturbed => LayoutFirst,
         {"crash", "schema"} \cap disturbed = {} => StreamInv
  PROVE  {"crash", "schema"} \cap disturbed' = {} => StreamInv'
<1> SUFFICES ASSUME {"crash", "schema"} \cap disturbed' = {}
             PROVE  StreamInv'
  OBVIOUS
<1>1. StreamInv /\ WindowLaid
  BY DisturbedGrows DEF LayoutFirst
<1>2. CASE UNCHANGED vars
  BY <1>1, <1>2
     DEF vars, readerVars, sessionVars, durableVars, writerVars, StreamInv, CkptHeld, Held,
         WindowComplete, Windowed, QueueComplete, Complete, StartComplete, StartFrom,
         SessionComplete, Reached, SnapshotBacked, Backed, Arrived, Coming, Ahead, Rows, Loads
<1>3. CASE CrashRestart
  <2>1. SnapshotSettled
    BY <1>3 DEF CrashRestart, Disturb
  <2> QED BY <1>1, <1>3, <2>1, StreamCrash
<1> QED BY <1>1, <1>2, <1>3, StreamQuiet, StreamSend, StreamWriter DEF Next

-----------------------------------------------------------------------------
(* The tables of an undisturbed snapshot.                                  *)

LEMMA LoadInit == Init => LoadInv
BY DEF Init, LoadInv, NothingLoaded, NoLoadsYet, ViewExact, ToCopy, LoadsExact, AllLoaded,
       Unloaded, StartFrom, Loads, Rows

\* A loaded table stays loaded until another snapshot is taken.
LEMMA LoadedKept ==
  ASSUME TypeOK, [Next]_vars, UNCHANGED target
  PROVE  \A t \in Tables : Loaded(t) => Loaded(t)'
<1> TAKE t \in Tables
<1>1. Content(t, target)' \subseteq Content(t, target)
  <2>1. target \in Nat /\ target <= Len(log)
    BY PositionTypes
  <2> QED BY <2>1, Grows DEF Content
<1>2. stored[t] \subseteq stored'[t]
  BY Grows
<1> QED BY <1>1, <1>2 DEF Loaded

\* MySQL commits a change, or the CDC task takes a step that sends nothing and
\* records no position.
LEMMA LoadQuiet ==
  ASSUME TypeOK, Shape, StreamInv, LoadInv, [Next]_vars, disturbed' = {},
         \/ \E t \in Tables : Change(t)
         \/ RecoverCheckpoint \/ OpenSnapshot \/ EndSnapshot
  PROVE  LoadInv'
<1>1. UNCHANGED <<chan, stored, ckpt, window, winCp, owed, initialCp, target>>
  BY DEF Change, RecoverCheckpoint, OpenSnapshot, EndSnapshot, readerVars, sessionVars,
         durableVars, writerVars
<1>2. \A t \in Tables : Loaded(t) => Loaded(t)'
  BY <1>1, LoadedKept
<1>3. Loads' = Loads /\ Rows' = Rows /\ \A t : LoadQueued(t)' <=> LoadQueued(t)
  BY <1>1 DEF Loads, Rows, LoadQueued
<1>4. LoadsExact'
  BY <1>1, <1>3 DEF LoadInv, LoadsExact
<1>5. CASE \E t \in Tables : Change(t)
  <2>1. UNCHANGED <<reader, recovered, todo, view, jsonCp>> /\ StartFrom' = StartFrom
    BY <1>1, <1>5 DEF Change, readerVars, sessionVars, StartFrom
  <2>2. reader # "positioning"
    BY <1>5 DEF Change
  <2>3. Unloaded' <=> Unloaded
    BY <2>1 DEF Unloaded
  <2> QED BY <1>1, <1>2, <1>3, <1>4, <2>1, <2>2, <2>3
       DEF LoadInv, NothingLoaded, NoLoadsYet, ViewExact, ToCopy, AllLoaded
<1>6. CASE RecoverCheckpoint
  <2>1. reader = "connecting" /\ reader' = "syncing" /\ recovered' = StartFrom
        /\ UNCHANGED jsonCp
    BY <1>6 DEF RecoverCheckpoint
  <2>2. Unloaded' <=> Unloaded
    BY <2>1 DEF Unloaded
  <2> QED BY <1>1, <1>2, <1>3, <1>4, <2>1, <2>2
       DEF LoadInv, NothingLoaded, NoLoadsYet, ViewExact, ToCopy, AllLoaded
<1>7. CASE OpenSnapshot
  <2>1. reader = "opening" /\ reader' = "positioning" /\ view' = Len(log) /\ UNCHANGED <<log, jsonCp>>
    BY <1>7 DEF OpenSnapshot
  <2>2. Unloaded' /\ Unloaded
    BY <2>1 DEF Unloaded
  <2> QED BY <1>1, <1>2, <1>3, <1>4, <2>1, <2>2
       DEF LoadInv, NothingLoaded, NoLoadsYet, ViewExact, ToCopy, AllLoaded
<1>8. CASE EndSnapshot
  <2>1. reader = "copying" /\ reader' = "streaming" /\ todo = {}
    BY <1>8 DEF EndSnapshot
  <2>2. ~Unloaded' /\ ~Unloaded
    BY <2>1 DEF Unloaded
  <2> QED BY <1>1, <1>2, <1>3, <1>4, <2>1, <2>2
       DEF LoadInv, NothingLoaded, NoLoadsYet, ViewExact, ToCopy, AllLoaded
<1> QED BY <1>5, <1>6, <1>7, <1>8

\* The position is recorded: no change came in between.
LEMMA LoadRecord ==
  ASSUME TypeOK, LoadInv, RecordPosition
  PROVE  LoadInv'
<1>1. /\ reader = "positioning" /\ reader' = "copying" /\ target' = Len(log) /\ todo' = Tables
      /\ UNCHANGED <<log, view, chan, stored, window, owed>>
  BY DEF RecordPosition, durableVars, writerVars
<1>2. Unloaded /\ ~Unloaded'
  BY <1>1 DEF Unloaded
<1>3. Loads' = {} /\ Rows' = {} /\ window' = {} /\ \A t \in Tables : stored'[t] = {}
  BY <1>1, <1>2 DEF LoadInv, NothingLoaded, NoLoadsYet, Loads, Rows
<1>4. view' = target'
  BY <1>1 DEF LoadInv, ViewExact
<1> QED BY <1>1, <1>2, <1>3, <1>4
     DEF LoadInv, NothingLoaded, NoLoadsYet, ViewExact, ToCopy, LoadsExact, AllLoaded, LoadQueued

\* The CDC task sends something that is not a load.
LEMMA LoadSend ==
  ASSUME TypeOK, Shape, StreamInv, LoadInv, [Next]_vars,
         ReadRow \/ \E t \in Tables : SyncSchema(t)
  PROVE  LoadInv'
<1>1. UNCHANGED <<stored, ckpt, window, winCp, owed, initialCp, target, view, log>>
  BY DEF ReadRow, SyncSchema, sessionVars, durableVars, writerVars
<1>2. \A t \in Tables : Loaded(t) => Loaded(t)'
  BY <1>1, LoadedKept
<1>3. PICK e \in Events : Send(e) /\ e.kind # "load" /\ (e.kind = "row" => ReadRow)
  <2>1. CASE ReadRow
    <3>1. RowEvent(sent + 1) \in Events
      BY <2>1, PositionTypes DEF ReadRow, RowEvent, Events, Positions
    <3>2. Send(RowEvent(sent + 1)) /\ RowEvent(sent + 1).kind = "row"
      BY <2>1 DEF ReadRow, RowEvent
    <3> QED BY <2>1, <3>1, <3>2
  <2>2. ASSUME NEW t \in Tables, SyncSchema(t)
        PROVE  \E e \in Events : Send(e) /\ e.kind # "load" /\ (e.kind = "row" => ReadRow)
    <3>1. SchemaEvent(t) \in Events
      BY PositionTypes DEF SchemaEvent, Events, Positions
    <3>2. Send(SchemaEvent(t)) /\ SchemaEvent(t).kind = "schema"
      BY <2>2 DEF SyncSchema, SchemaEvent
    <3> QED BY <3>1, <3>2
  <2> QED BY <2>1, <2>2
<1>4. Loads' = Loads /\ \A k \in Loads : chan'[k] = chan[k]
  BY <1>3, Sending DEF Loads
<1>5. \A t : LoadQueued(t)' <=> LoadQueued(t)
  BY <1>4 DEF LoadQueued
<1>6. \A j \in Rows' : j \in Rows \/ (e.kind = "row" /\ \A k \in Loads : j > k)
  BY <1>3, Sending DEF Rows, Loads
<1>7. LoadsExact'
  BY <1>1, <1>4, <1>6 DEF LoadInv, LoadsExact
<1>8. CASE ReadRow
  <2>1. reader = "streaming" /\ reader' = "streaming"
    BY <1>8 DEF ReadRow
  <2>2. ~Unloaded' /\ ~Unloaded
    BY <2>1 DEF Unloaded
  <2> QED BY <1>1, <1>2, <1>5, <1>7, <2>1, <2>2
       DEF LoadInv, NothingLoaded, NoLoadsYet, ViewExact, ToCopy, AllLoaded
<1>9. ASSUME NEW t \in Tables, SyncSchema(t)
      PROVE  LoadInv'
  <2>1. /\ reader = "syncing" /\ UNCHANGED <<recovered, jsonCp>>
        /\ \/ reader' = "syncing"
           \/ reader' = "opening" /\ recovered = NoCp
           \/ reader' = "streaming" /\ recovered # NoCp
    BY <1>9 DEF SyncSchema
  <2>2. Unloaded' <=> Unloaded
    BY <2>1 DEF Unloaded
  <2>3. Rows' \subseteq Rows
    <3>1. e.kind # "row"
      BY <1>3, <2>1 DEF ReadRow
    <3> QED BY <1>6, <3>1
  <2> QED BY <1>1, <1>2, <1>4, <1>5, <1>7, <2>1, <2>2, <2>3
       DEF LoadInv, NothingLoaded, NoLoadsYet, ViewExact, ToCopy, AllLoaded
<1> QED BY <1>8, <1>9

\* The CDC task sends a table of the snapshot.
LEMMA LoadSnapshotTable ==
  ASSUME TypeOK, Shape, StreamInv, LoadInv, [Next]_vars, NEW t \in Tables, SnapshotTable(t)
  PROVE  LoadInv'
<1>1. /\ UNCHANGED <<stored, ckpt, window, winCp, owed, initialCp, target, view, log, reader>>
      /\ reader = "copying" /\ t \in todo /\ todo' = todo \ {t}
  BY DEF SnapshotTable, durableVars, writerVars
<1>2. \A u \in Tables : Loaded(u) => Loaded(u)'
  BY <1>1, LoadedKept
<1>3. PICK e \in Events : Send(e) /\ e.kind = "load" /\ e.table = t /\ e.upTo = target
  <2>1. LoadEvent(t) \in Events
    BY PositionTypes DEF LoadEvent, Events, Positions
  <2>2. Send(LoadEvent(t)) /\ LoadEvent(t).kind = "load" /\ LoadEvent(t).table = t
        /\ LoadEvent(t).upTo = target
    BY <1>1 DEF SnapshotTable, LoadEvent, LoadInv, ViewExact
  <2> QED BY <2>1, <2>2
<1>4. PICK n \in DOMAIN chan' : n = Len(chan) + 1 /\ chan'[n] = e
  BY <1>3, Sending
<1>5. Loads' = Loads \cup {n} /\ n \notin Loads /\ \A k \in Loads : chan'[k] = chan[k]
  BY <1>3, <1>4, Sending DEF Loads
<1>6. Rows' = {}
  BY <1>1, <1>3, Sending DEF LoadInv, ViewExact, Rows
<1>7. ~LoadQueued(t) /\ stored[t] = {} /\ window = {}
  BY <1>1 DEF LoadInv, ToCopy, ViewExact
<1>8. \A u : LoadQueued(u)' <=> LoadQueued(u) \/ u = t
  BY <1>3, <1>4, <1>5 DEF LoadQueued
<1>9. LoadsExact'
  <2>1. \A k \in Loads : chan[k].table # t
    BY <1>7 DEF LoadQueued
  <2>2. ASSUME NEW k \in Loads
        PROVE  /\ chan'[k].upTo = target' /\ stored'[chan'[k].table] = {} /\ window' = {}
               /\ \A j \in Loads' : j # k => chan'[j].table # chan'[k].table
    <3>1. /\ chan[k].upTo = target /\ stored[chan[k].table] = {}
          /\ \A j \in Loads : j # k => chan[j].table # chan[k].table
      BY DEF LoadInv, LoadsExact
    <3>2. chan'[k] = chan[k] /\ chan'[n].table = t /\ chan[k].table # t
      BY <1>3, <1>4, <1>5, <2>1
    <3>3. \A j \in Loads : chan'[j] = chan[j]
      BY <1>5
    <3> QED BY <1>1, <1>5, <1>7, <3>1, <3>2, <3>3
  <2>3. /\ chan'[n].upTo = target' /\ stored'[chan'[n].table] = {} /\ window' = {}
        /\ \A j \in Loads' : j # n => chan'[j].table # chan'[n].table
    BY <1>1, <1>3, <1>4, <1>5, <1>7, <2>1
  <2> QED BY <1>5, <1>6, <2>2, <2>3 DEF LoadsExact
<1>10. ToCopy'
  BY <1>1, <1>8 DEF LoadInv, ToCopy
<1>11. AllLoaded'
  BY <1>1, <1>2, <1>8 DEF LoadInv, AllLoaded, Unloaded
<1>12. ~Unloaded'
  BY <1>1 DEF Unloaded
<1> QED BY <1>1, <1>6, <1>9, <1>10, <1>11, <1>12
     DEF LoadInv, NothingLoaded, NoLoadsYet, ViewExact

\* An error ends the session: the snapshot was settled before it.
LEMMA LoadStreamError ==
  ASSUME TypeOK, StreamInv, LoadInv, [Next]_vars, disturbed' = {},
         StreamError \/ CrashRestart
  PROVE  LoadInv'
<1>1. SnapshotSettled
  BY DEF StreamError, CrashRestart, Disturb
<1>2. reader = "streaming" /\ Loads = {} /\ owed = NoCp /\ ckpt # NoCp
  BY <1>1 DEF SnapshotSettled, Queued, Loads, StreamInv, SnapshotBacked, Backed
<1>3. \A t \in Tables : Loaded(t)
  BY <1>2 DEF LoadInv, AllLoaded, Unloaded, LoadQueued
<1>4. /\ UNCHANGED <<stored, ckpt, target>> /\ owed' = NoCp /\ reader' \in {"connecting", "stopped"}
      /\ StartFrom' # NoCp
  BY <1>2 DEF StreamError, CrashRestart, StartFrom, sessionVars, durableVars, writerVars
<1>5. Loads' = {}
  BY <1>2 DEF StreamError, CrashRestart, Loads
<1>6. \A t \in Tables : Loaded(t)'
  BY <1>3, <1>4, LoadedKept
<1>7. ~Unloaded'
  BY <1>4 DEF Unloaded
<1> QED BY <1>4, <1>5, <1>6, <1>7
     DEF LoadInv, NothingLoaded, NoLoadsYet, ViewExact, ToCopy, LoadsExact, AllLoaded

\* The loads and the rows of the channel, when its head is taken.
LEMMA Shifted ==
  ASSUME TypeOK, chan # << >>, chan' = Tail(chan)
  PROVE  /\ Loads \subseteq Int /\ Loads' \subseteq Int /\ Rows' \subseteq Int
         /\ \A k \in Loads : k # 1 => k - 1 \in Loads' /\ chan'[k - 1] = chan[k]
         /\ \A k \in Loads' : k + 1 \in Loads /\ k + 1 # 1 /\ chan'[k] = chan[k + 1]
         /\ \A j \in Rows' : j + 1 \in Rows
<1>1. DOMAIN chan \subseteq Int /\ DOMAIN chan' \subseteq 1..(Len(chan) - 1) /\ Len(chan) \in Int
  BY Receiving
<1>2. Loads \subseteq DOMAIN chan /\ Loads' \subseteq DOMAIN chan' /\ Rows' \subseteq DOMAIN chan'
  BY DEF Loads, Rows
<1>3. \A k \in Loads : k # 1 => k - 1 \in Loads' /\ chan'[k - 1] = chan[k]
  BY Receiving DEF Loads
<1>4. \A k \in Loads' : k + 1 \in Loads /\ chan'[k] = chan[k + 1]
  BY Receiving DEF Loads
<1>5. \A j \in Rows' : j + 1 \in Rows
  BY Receiving DEF Rows
<1>6. \A k \in Loads' : k + 1 # 1
  BY <1>1, <1>2
<1>7. Loads \subseteq Int /\ Loads' \subseteq Int /\ Rows' \subseteq Int
  BY <1>1, <1>2
<1> QED BY <1>3, <1>4, <1>5, <1>6, <1>7

\* What is left of the channel, when no load is taken from it.
LEMMA LoadsLeft ==
  ASSUME TypeOK,
         \/ UNCHANGED chan
         \/ chan # << >> /\ chan' = Tail(chan) /\ Head(chan).kind # "load",
         LoadsExact, UNCHANGED target,
         Loads # {} => window' = {} /\ UNCHANGED stored
  PROVE  /\ LoadsExact'
         /\ \A t : LoadQueued(t)' <=> LoadQueued(t)
         /\ Loads = {} => Loads' = {}
         /\ Rows = {} => Rows' = {}
<1>1. CASE UNCHANGED chan
  <2>1. Loads' = Loads /\ Rows' = Rows
    BY <1>1 DEF Loads, Rows
  <2> QED BY <1>1, <2>1 DEF LoadsExact, LoadQueued
<1>2. CASE chan # << >> /\ chan' = Tail(chan) /\ Head(chan).kind # "load"
  <2>1. \A k \in Loads : k - 1 \in Loads' /\ chan'[k - 1] = chan[k]
    BY <1>2, Shifted, Receiving DEF Loads
  <2>2. \A k \in Loads' : k + 1 \in Loads /\ chan'[k] = chan[k + 1] /\ k \in Int
    BY <1>2, Shifted
  <2>3. \A j \in Rows' : j + 1 \in Rows /\ j \in Int
    BY <1>2, Shifted
  <2>4. ASSUME NEW t
        PROVE  LoadQueued(t)' <=> LoadQueued(t)
    BY <2>1, <2>2 DEF LoadQueued
  <2>5. ASSUME NEW k \in Loads'
        PROVE  /\ chan'[k].upTo = target' /\ stored'[chan'[k].table] = {} /\ window' = {}
               /\ \A j \in Loads' : j # k => chan'[j].table # chan'[k].table
               /\ \A j \in Rows' : j > k
    <3>1. k + 1 \in Loads /\ chan'[k] = chan[k + 1] /\ k \in Int
      BY <2>2
    <3>2. /\ chan[k + 1].upTo = target /\ stored[chan[k + 1].table] = {}
          /\ \A j \in Loads : j # k + 1 => chan[j].table # chan[k + 1].table
          /\ \A j \in Rows : j > k + 1
      BY <3>1 DEF LoadsExact
    <3>3. ASSUME NEW j \in Loads', j # k
          PROVE  chan'[j].table # chan'[k].table
      <4>1. j + 1 \in Loads /\ chan'[j] = chan[j + 1] /\ j + 1 # k + 1
        BY <2>2, <3>1, <3>3
      <4> QED BY <3>1, <3>2, <4>1
    <3>4. \A j \in Rows' : j > k
      BY <2>3, <3>1, <3>2
    <3> QED BY <3>1, <3>2, <3>3, <3>4
  <2>6. LoadsExact'
    BY <2>5 DEF LoadsExact
  <2> QED BY <2>2, <2>3, <2>4, <2>6
<1> QED BY <1>1, <1>2

\* The writer takes a step that leaves the snapshot alone: before the tables are
\* copied, while they are sent and as long as one is queued it stores nothing.
LEMMA LoadKept ==
  ASSUME TypeOK, LoadInv, [Next]_vars, UNCHANGED <<log, readerVars>>,
         \/ UNCHANGED chan
         \/ chan # << >> /\ chan' = Tail(chan) /\ Head(chan).kind # "load",
         owed' = owed \/ owed' = NoCp,
         ckpt # NoCp => ckpt' # NoCp,
         Unloaded => UNCHANGED ckpt,
         Unloaded \/ reader = "copying" \/ Loads # {} => window' = {} /\ UNCHANGED stored
  PROVE  LoadInv'
<1>1. UNCHANGED <<initialCp, reader, recovered, todo, view, target, jsonCp>>
  BY DEF readerVars, sessionVars
<1>2. /\ LoadsExact'
      /\ \A t : LoadQueued(t)' <=> LoadQueued(t)
      /\ Loads = {} => Loads' = {}
      /\ Rows = {} => Rows' = {}
  BY <1>1, LoadsLeft DEF LoadInv
<1>3. \A t \in Tables : Loaded(t) => Loaded(t)'
  BY <1>1, LoadedKept
<1>4. Unloaded' <=> Unloaded
  BY <1>1 DEF Unloaded, StartFrom
<1>5. NothingLoaded'
  BY <1>1, <1>2, <1>4 DEF LoadInv, NothingLoaded
<1>6. NoLoadsYet'
  BY <1>1, <1>2 DEF LoadInv, NoLoadsYet
<1>7. ViewExact'
  BY <1>1, <1>2 DEF LoadInv, ViewExact
<1>8. ToCopy'
  BY <1>1, <1>2 DEF LoadInv, ToCopy
<1>9. AllLoaded'
  BY <1>1, <1>2, <1>3, <1>4 DEF LoadInv, AllLoaded
<1> QED BY <1>2, <1>5, <1>6, <1>7, <1>8, <1>9 DEF LoadInv

\* With an empty window a flush changes nothing.
LEMMA EmptyFlush ==
  ASSUME TypeOK, window = {}
  PROVE  FlushedStore = stored /\ FlushedCp = ckpt
BY DEF TypeOK, FlushedStore, FlushedCp

LEMMA LoadWriter ==
  ASSUME TypeOK, Shape, LoadInv, [Next]_vars,
         WriterTick \/ WriterSchema \/ PersistCheckpoint \/ WriterRow \/ WriterClosed
  PROVE  LoadInv'
<1>1. UNCHANGED <<log, readerVars>>
  BY DEF WriterTick, WriterSchema, PersistCheckpoint, WriterRow, WriterClosed
<1>2. Unloaded \/ reader = "copying" \/ Loads # {} => window = {}
  BY DEF LoadInv, NothingLoaded, ViewExact, LoadsExact
<1>3. CASE WriterTick \/ WriterSchema \/ WriterClosed
  <2>1. /\ stored' = FlushedStore /\ ckpt' = FlushedCp /\ window' = {} /\ owed' = owed
        /\ \/ UNCHANGED chan
           \/ chan # << >> /\ chan' = Tail(chan) /\ Head(chan).kind # "load"
    BY <1>3 DEF WriterTick, WriterSchema, WriterClosed, Drain
  <2>2. ckpt # NoCp => ckpt' # NoCp
    BY <2>1 DEF FlushedCp, Shape
  <2>3. Unloaded \/ reader = "copying" \/ Loads # {} => UNCHANGED <<stored, ckpt>>
    BY <1>2, <2>1, EmptyFlush
  <2> QED BY <1>1, <2>1, <2>2, <2>3, LoadKept
<1>4. CASE PersistCheckpoint
  <2>1. ~Unloaded
    BY <1>4 DEF PersistCheckpoint, LoadInv, NoLoadsYet, Unloaded
  <2>2. UNCHANGED <<chan, stored, window>> /\ ckpt' # NoCp /\ owed' = NoCp
    BY <1>4 DEF PersistCheckpoint
  <2> QED BY <1>1, <1>2, <2>1, <2>2, LoadKept
<1>5. CASE WriterRow
  <2>1. /\ UNCHANGED <<stored, ckpt, owed>>
        /\ chan # << >> /\ chan' = Tail(chan) /\ Head(chan).kind = "row"
    BY <1>5 DEF WriterRow, durableVars
  <2>2. 1 \in Rows
    BY <2>1, Receiving DEF Rows
  <2>3. Loads = {}
    <3>1. \A k \in Loads : k >= 1
      BY <2>1, Receiving DEF Loads
    <3>2. \A k \in Loads : 1 > k
      BY <2>2 DEF LoadInv, LoadsExact
    <3>3. Loads \subseteq Int
      BY <2>1, Receiving DEF Loads
    <3> QED BY <3>1, <3>2, <3>3
  <2>4. ~Unloaded /\ reader # "copying"
    BY <2>2 DEF LoadInv, NothingLoaded, ViewExact
  <2> QED BY <1>1, <2>1, <2>3, <2>4, LoadKept
<1> QED BY <1>3, <1>4, <1>5

\* The writer takes a load: the table is there and empty, so its file is copied.
LEMMA LoadCopies ==
  ASSUME TypeOK, LayoutFirst, LoadInv, [Next]_vars, disturbed' = {}, WriterLoad
  PROVE  LoadInv'
<1>1. /\ chan # << >> /\ chan' = Tail(chan) /\ Head(chan).kind = "load"
      /\ ckpt' = FlushedCp /\ window' = {}
      /\ UNCHANGED <<log, initialCp, reader, recovered, todo, view, target, jsonCp>>
  BY DEF WriterLoad, Drain, readerVars, sessionVars
<1>2. PICK t \in Tables : t = Head(chan).table
  <2>1. Head(chan) \in Events
    BY <1>1, TypeTail
  <2> QED BY <2>1 DEF Events
<1>3. 1 \in Loads /\ chan[1] = Head(chan)
  BY <1>1, Receiving DEF Loads
<1>4. /\ Head(chan).upTo = target /\ stored[t] = {} /\ window = {}
      /\ \A j \in Loads : j # 1 => chan[j].table # t
  BY <1>2, <1>3 DEF LoadInv, LoadsExact
<1>5. FlushedStore = stored /\ ckpt' = ckpt
  BY <1>1, <1>4, EmptyFlush
<1>6. stored' = [stored EXCEPT ![t] = @ \cup Content(t, target)]
  <2>1. ~Announced(t, 1)
    BY <1>1, Receiving DEF Announced
  <2>2. t \in created
    BY <1>1, <1>2, <1>3, <2>1, Receiving DEF LayoutFirst, QueueLaid, TypeOK
  <2> QED BY <1>2, <1>4, <1>5, <2>2 DEF WriterLoad, Copies
<1>7. stored' \in [Tables -> SUBSET Positions'] /\ stored \in [Tables -> SUBSET Positions]
  BY TypeNext DEF TypeOK
<1>8. Loaded(t)' /\ \A u \in Tables : u # t => stored'[u] = stored[u]
  <2>1. Content(t, target)' = Content(t, target)
    BY <1>1 DEF Content
  <2> QED BY <1>6, <1>7, <2>1 DEF Loaded
<1>9. \A k \in Loads : k # 1 => k - 1 \in Loads' /\ chan'[k - 1] = chan[k]
  BY <1>1, Shifted
<1>10. \A k \in Loads' : k + 1 \in Loads /\ k + 1 # 1 /\ chan'[k] = chan[k + 1] /\ k \in Int
  BY <1>1, Shifted
<1>11. \A j \in Rows' : j + 1 \in Rows /\ j \in Int
  BY <1>1, Shifted
<1>12. ASSUME NEW u \in Tables, LoadQueued(u), u # t
       PROVE  LoadQueued(u)'
  BY <1>2, <1>3, <1>9, <1>12 DEF LoadQueued
<1>13. \A u : LoadQueued(u)' => LoadQueued(u)
  BY <1>10 DEF LoadQueued
<1>14. LoadsExact'
  <2>1. ASSUME NEW k \in Loads'
        PROVE  /\ chan'[k].upTo = target' /\ stored'[chan'[k].table] = {} /\ window' = {}
               /\ \A j \in Loads' : j # k => chan'[j].table # chan'[k].table
               /\ \A j \in Rows' : j > k
    <3>1. k + 1 \in Loads /\ chan'[k] = chan[k + 1] /\ k \in Int /\ chan[k + 1].table # t
      BY <1>4, <1>10
    <3>2. /\ chan[k + 1].upTo = target /\ stored[chan[k + 1].table] = {}
          /\ \A j \in Loads : j # k + 1 => chan[j].table # chan[k + 1].table
          /\ \A j \in Rows : j > k + 1
      BY <3>1 DEF LoadInv, LoadsExact
    <3>3. chan[k + 1].table \in Tables
      BY <3>1, PositionTypes DEF Loads, Events
    <3>4. ASSUME NEW j \in Loads', j # k
          PROVE  chan'[j].table # chan'[k].table
      <4>1. j + 1 \in Loads /\ chan'[j] = chan[j + 1] /\ j \in Int
        BY <1>10
      <4>2. j + 1 # k + 1
        BY <3>1, <3>4, <4>1
      <4> QED BY <3>1, <3>2, <4>1, <4>2
    <3>5. \A j \in Rows' : j > k
      BY <1>11, <3>1, <3>2
    <3> QED BY <1>1, <1>8, <3>1, <3>2, <3>3, <3>4, <3>5
  <2> QED BY <2>1 DEF LoadsExact
<1>15. reader \notin {"connecting", "syncing", "opening", "positioning"}
  BY <1>3 DEF LoadInv, NoLoadsYet
<1>16. ~Unloaded /\ ~Unloaded'
  BY <1>1, <1>15 DEF Unloaded
<1>17. ViewExact'
  BY <1>1, <1>11, <1>15 DEF LoadInv, ViewExact
<1>18. ToCopy'
  <2>1. ASSUME reader = "copying", NEW u \in todo
        PROVE  stored'[u] = {} /\ ~LoadQueued(u)'
    <3>1. stored[u] = {} /\ ~LoadQueued(u) /\ u \in Tables
      BY <2>1 DEF LoadInv, ToCopy, TypeOK
    <3>2. u # t
      BY <1>2, <1>3, <3>1 DEF LoadQueued
    <3> QED BY <1>8, <1>13, <3>1, <3>2
  <2> QED BY <1>1, <2>1 DEF ToCopy
<1>19. AllLoaded'
  <2>1. \A u \in Tables : Loaded(u) => Loaded(u)'
    BY <1>1, LoadedKept
  <2> QED BY <1>1, <1>8, <1>12, <1>16, <2>1 DEF LoadInv, AllLoaded
<1> QED BY <1>1, <1>14, <1>15, <1>16, <1>17, <1>18, <1>19
     DEF LoadInv, NothingLoaded, NoLoadsYet

LEMMA LoadNext ==
  ASSUME TypeOK, Shape, LayoutFirst, StreamInv, LoadInv, [Next]_vars, disturbed' = {}
  PROVE  LoadInv'
<1>1. CASE UNCHANGED vars
  BY <1>1 DEF vars, readerVars, sessionVars, durableVars, writerVars, LoadInv, NothingLoaded,
              NoLoadsYet, ViewExact, ToCopy, LoadsExact, AllLoaded, Unloaded, Loaded, LoadQueued,
              StartFrom, Content, Loads, Rows
<1> QED BY <1>1, LoadQuiet, LoadRecord, LoadSend, LoadSnapshotTable, LoadStreamError, LoadWriter,
           LoadCopies DEF Next

-----------------------------------------------------------------------------
(* The properties.                                                         *)

LEMMA Invariance == Spec => []IInv
<1>1. Init => IInv
  BY TypeInit, ShapeInit, LayoutInit, StreamInit, LoadInit DEF IInv
<1>2. IInv /\ [Next]_vars => IInv'
  <2> SUFFICES ASSUME IInv, [Next]_vars PROVE IInv'
    OBVIOUS
  <2>1. TypeOK /\ Shape /\ TypeOK' /\ Shape'
    BY TypeNext, ShapeNext DEF IInv
  <2>2. {"crash", "schema"} \cap disturbed' = {} => StreamInv'
    BY <2>1, StreamNext DEF IInv
  <2>4. "schema" \notin disturbed' => LayoutFirst'
    BY <2>1, LayoutNext, DisturbedGrows DEF IInv
  <2>3. ASSUME disturbed' = {}
        PROVE  LoadInv'
    <3>1. disturbed = {}
      BY <2>3, DisturbedGrows
    <3>2. LayoutFirst /\ StreamInv /\ LoadInv
      BY <3>1 DEF IInv
    <3> QED BY <2>1, <2>3, <3>2, LoadNext
  <2> QED BY <2>1, <2>2, <2>3, <2>4 DEF IInv
<1> QED BY <1>1, <1>2, PTL DEF Spec

\* What has arrived or is coming is in the writer's hands.
LEMMA ReachedDelivered ==
  ASSUME TypeOK, Shape, NEW i \in 1..Len(log), Arrived(i) \/ Coming(i)
  PROVE  Delivered(log[i], i)
<1>1. CASE Arrived(i)
  BY <1>1 DEF Arrived, Delivered
<1>2. CASE Coming(i)
  <2>1. PICK k \in Rows : chan[k].upTo = i
    BY <1>2 DEF Coming
  <2>2. chan[k] \in Queued /\ chan[k].kind = "row" /\ EventShape(chan[k])
    BY <2>1 DEF Rows, Queued, Shape
  <2> QED BY <2>1, <2>2 DEF EventShape, Delivered
<1> QED BY <1>1, <1>2

\* A row behind the recorded position is delivered or will still be read.
LEMMA StreamCovers ==
  ASSUME TypeOK, Shape, StreamInv, reader # "stopped", NEW i \in (target + 1)..Len(log)
  PROVE  Delivered(log[i], i) \/ StillRead(log[i], i)
<1>1. target \in Nat /\ i \in 1..Len(log) /\ i > target
  BY PositionTypes
<1>2. ASSUME NEW p \in 0..Len(log), Reached(p), i <= p
      PROVE  Delivered(log[i], i)
  BY <1>1, <1>2, ReachedDelivered DEF Reached
<1>3. CASE reader = "streaming"
  <2>1. sent \in 0..Len(log) /\ Reached(sent)
    BY <1>3, PositionTypes DEF StreamInv, SessionComplete
  <2> QED BY <1>2, <1>3, <2>1 DEF StillRead
<1>4. CASE reader = "connecting"
  <2>1. StartFrom # NoCp => StartFrom \in 0..Len(log) /\ Reached(StartFrom)
    BY PositionTypes DEF StreamInv, StartComplete, StartFrom
  <2> QED BY <1>2, <1>4, <2>1 DEF StillRead
<1>5. CASE reader = "syncing"
  <2>1. recovered # NoCp => recovered \in 0..Len(log) /\ Reached(recovered)
    BY <1>5, PositionTypes DEF StreamInv, SessionComplete
  <2> QED BY <1>2, <1>5, <2>1 DEF StillRead
<1>6. CASE reader = "copying"
  BY <1>1, <1>6 DEF StillRead
<1>7. CASE reader \in {"opening", "positioning"}
  BY <1>7 DEF StillRead
<1> QED BY <1>3, <1>4, <1>5, <1>6, <1>7 DEF TypeOK

\* Whatever errors hit a snapshot while the process lives, and as long as every
\* table has its layout, no row behind the recorded position is lost between a reconnect and the stream it starts
\* (LiveCdc::run and run_once, src/cdc/live.rs).
THEOREM StreamNeverLoses == Spec => []StreamLosesNothing
<1>1. IInv => StreamLosesNothing
  BY StreamCovers DEF IInv, StreamLosesNothing
<1> QED BY <1>1, Invariance, PTL

\* At every moment every row of every table has been delivered to the writer or
\* will still be read, if nothing disturbs the snapshot before it is loaded: the
\* tables' files and the stream behind them leave no gap.
THEOREM HandoverLeavesNoGap == Spec => []NoGap
<1>1. ASSUME IInv
      PROVE  NoGap
  <2> SUFFICES ASSUME disturbed = {}, reader # "stopped",
                      NEW t \in Tables, NEW i \in Content(t, Len(log))
               PROVE  Delivered(t, i) \/ StillRead(t, i)
    BY DEF NoGap
  <2>1. TypeOK /\ Shape /\ StreamInv /\ LoadInv
    BY <1>1 DEF IInv
  <2>2. i \in 0..Len(log) /\ (i = 0 \/ log[i] = t) /\ Len(log) \in Nat /\ target \in 0..Len(log)
    BY <2>1, PositionTypes DEF Content
  <2>3. CASE i > target
    <3>1. i \in (target + 1)..Len(log) /\ log[i] = t
      BY <2>2, <2>3
    <3> QED BY <2>1, <3>1, StreamCovers
  <2>4. CASE i <= target /\ Unloaded
    BY <2>4 DEF Unloaded, StillRead
  <2>5. CASE i <= target /\ ~Unloaded
    <3>1. Loaded(t) \/ LoadQueued(t) \/ (reader = "copying" /\ t \in todo)
      BY <2>1, <2>5 DEF LoadInv, AllLoaded
    <3>2. CASE Loaded(t)
      BY <2>2, <2>5, <3>2 DEF Loaded, Content, Delivered
    <3>3. CASE LoadQueued(t)
      <4>1. PICK k \in Loads : chan[k].table = t
        BY <3>3 DEF LoadQueued
      <4>2. chan[k].upTo = target /\ chan[k].kind = "load" /\ chan[k] \in Queued
        BY <2>1, <4>1 DEF LoadInv, LoadsExact, Loads, Queued
      <4> QED BY <2>5, <4>1, <4>2 DEF Delivered
    <3>4. CASE reader = "copying" /\ t \in todo
      <4>1. view = target
        BY <2>1, <3>4 DEF LoadInv, ViewExact
      <4> QED BY <2>5, <3>4, <4>1 DEF StillRead
    <3> QED BY <3>1, <3>2, <3>3, <3>4
  <2> QED BY <2>2, <2>3, <2>4, <2>5
<1> QED BY <1>1, Invariance, PTL

\* A settled snapshot is loaded.
LEMMA SettledLoaded ==
  ASSUME LoadInv, SnapshotSettled
  PROVE  \A t \in Tables : Loaded(t)
BY DEF LoadInv, AllLoaded, Unloaded, LoadQueued, Loads, Queued, SnapshotSettled

\* The store's checkpoint promises no more than the store holds, once an
\* undisturbed snapshot is settled: a process that starts over from it
\* (recover_checkpoint) completes the store.
THEOREM CheckpointAlwaysCovers == Spec => []CheckpointCovers
<1>1. ASSUME IInv
      PROVE  CheckpointCovers
  <2> SUFFICES ASSUME disturbed = {}, SnapshotSettled, ckpt # NoCp,
                      NEW t \in Tables, NEW i \in Content(t, ckpt)
               PROVE  i \in stored[t]
    BY DEF CheckpointCovers
  <2>1. TypeOK /\ StreamInv /\ LoadInv
    BY <1>1 DEF IInv
  <2>2. i \in 0..ckpt /\ (i = 0 \/ log[i] = t) /\ target \in Nat /\ ckpt \in Nat
    BY <2>1, PositionTypes DEF Content
  <2>3. CASE i <= target
    <3>1. i \in Content(t, target)
      BY <2>2, <2>3 DEF Content
    <3> QED BY <2>1, <3>1, SettledLoaded DEF Loaded
  <2>4. CASE i > target
    <3>1. i \in (target + 1)..ckpt /\ log[i] = t
      BY <2>2, <2>4
    <3> QED BY <2>1, <3>1 DEF StreamInv, CkptHeld, Held
  <2> QED BY <2>2, <2>3, <2>4
<1> QED BY <1>1, Invariance, PTL

\* Once a pipeline whose snapshot was not disturbed is caught up, its store holds
\* exactly the rows of the source, whatever errors and crashes came behind the
\* snapshot.
THEOREM UndisturbedComplete == Spec => []UndisturbedBackfill
<1>1. ASSUME IInv
      PROVE  UndisturbedBackfill
  <2> SUFFICES ASSUME disturbed = {}, CaughtUp, NEW t \in Tables
               PROVE  stored[t] = Content(t, Len(log))
    BY DEF UndisturbedBackfill, BackfillComplete
  <2>1. TypeOK /\ Shape /\ StreamInv /\ LoadInv /\ SnapshotSettled
    BY <1>1 DEF IInv, CaughtUp
  <2>2. reader = "streaming" /\ sent = Len(log) /\ chan = << >> /\ window = {}
    BY DEF CaughtUp, SnapshotSettled
  <2>3. stored[t] \subseteq Content(t, Len(log))
    BY <2>1 DEF TypeOK, Shape, Positions, Content
  <2>4. ASSUME NEW i \in Content(t, Len(log))
        PROVE  i \in stored[t]
    <3>1. i \in 0..Len(log) /\ (i = 0 \/ log[i] = t) /\ Len(log) \in Nat /\ target \in 0..Len(log)
      BY <2>1, PositionTypes DEF Content
    <3>2. CASE i <= target
      <4>1. i \in Content(t, target)
        BY <3>1, <3>2 DEF Content
      <4> QED BY <2>1, <4>1, SettledLoaded DEF Loaded
    <3>3. CASE i > target
      <4>1. i \in (target + 1)..sent /\ log[i] = t
        BY <2>2, <3>1, <3>3
      <4>2. Rows = {}
        BY <2>2 DEF Rows
      <4> QED BY <2>1, <2>2, <4>1, <4>2
           DEF StreamInv, SessionComplete, Reached, Arrived, Coming
    <3> QED BY <3>1, <3>2, <3>3
  <2> QED BY <2>3, <2>4
<1> QED BY <1>1, Invariance, PTL

=============================================================================
