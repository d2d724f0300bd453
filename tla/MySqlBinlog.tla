----------------------------- MODULE MySqlBinlog -----------------------------
(***************************************************************************)
(* The MySQL server as the pipeline sees it: one replicated table and the  *)
(* binary log of its row changes.  The server is not part of the           *)
(* repository; it is modelled from what src/cdc/live.rs reads from it.     *)
(*                                                                         *)
(* A position is a number of logged rows.  Rows are grouped in rows        *)
(* events: all rows of an event have the same kind, and the only positions *)
(* a client sees are the ends of events.  A statement may be split over    *)
(* several rows events, of which only the first is preceded by a table     *)
(* map.                                                                    *)
(*                                                                         *)
(* Bounds: MaxRows rows are logged, MaxEventRows of them in one event.     *)
(***************************************************************************)
EXTENDS Coalescer, FiniteSets

CONSTANTS
  MaxRows,          \* rows logged
  MaxEventRows,     \* rows in one rows event
  SplitStatements,  \* may a statement be split over several rows events?
  Vacating,         \* may rows be deleted, or change their primary key?
  KeyReuse          \* may a key vacated by a primary-key change be used again,
                    \* or a primary-key change take over a vacated key?

ASSUME BinlogAssumption ==
  /\ MaxRows \in Nat
  /\ MaxEventRows \in Nat \ {0}
  /\ SplitStatements \in BOOLEAN
  /\ Vacating \in BOOLEAN
  /\ KeyReuse \in BOOLEAN

VARIABLES
  log,    \* the logged rows
  hist,   \* hist[i] is the table after the first i logged rows
  freed,  \* keys vacated so far, by a delete or a primary-key change
  moved   \* keys vacated so far by a primary-key change

binlogVars == <<log, hist, freed, moved>>

\* One logged row: what it did, whether its event ends with it, and whether
\* its event has a table map of its own.
LogRows == [op : RowOps, last : BOOLEAN, own : BOOLEAN]

\* The table as it is now.
Current == hist[Len(log)]

\* The last row of the event that holds row i.
EventEnd(i) ==
  CHOOSE j \in i..Len(log) : log[j].last /\ \A m \in i..(j - 1) : ~ log[m].last

\* Row i is in the binary log: its event is complete.
Logged(i) == i \in 1..Len(log) /\ \E j \in i..Len(log) : log[j].last

\* Rows of the event being written, none if the last event is complete.
OpenRows == {i \in 1..Len(log) : ~ Logged(i)}

\* Keys the first i rows vacated, and those they vacated by a move.
FreedBy(l, i) == {k \in Keys : \E j \in 1..i : k \in Vacated(l[j].op)}
MovedBy(l, i) == {k \in Keys : \E j \in 1..i : k \in MovedAway(l[j].op)}

BinlogInit ==
  /\ log = << >>
  /\ \E t \in Table : hist = [i \in {0} |-> t]
  /\ freed = {}
  /\ moved = {}

\* The server executes op and logs the row; last says whether it ends its
\* event, own whether the event has its own table map.
LogRow(op, last, own) ==
  LET n    == Len(log)
      open == n > 0 /\ ~ log[n].last
  IN  /\ n < MaxRows
      /\ Loggable(Current, op)
      /\ Vacating \/ Vacated(op) = {}
      /\ KeyReuse \/ NoReuse(op, freed, moved)
      /\ ~ last => Cardinality(OpenRows) + 1 < MaxEventRows
      /\ open => op.kind = log[n].op.kind /\ own = log[n].own
      /\ ~ own => n > 0 /\ op.kind = log[n].op.kind /\ (open \/ SplitStatements)
      /\ log' = Append(log, [op |-> op, last |-> last, own |-> own])
      /\ hist' = [i \in 0..(n + 1) |-> IF i = n + 1 THEN ApplyOp(Current, op) ELSE hist[i]]
      /\ freed' = freed \cup Vacated(op)
      /\ moved' = moved \cup MovedAway(op)

=============================================================================
