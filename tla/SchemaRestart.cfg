SPECIFICATION Spec
CONSTANTS
  Tables = {"t", "u", "x"}
  Columns = {"k", "a", "b", "c"}
  Key = "k"
  Shapes <- MCShapes
  Initial <- MCInitialTables
  ExcludedTables = {"x"}
  ExcludedColumns = {"b"}
  Drops <- MCDrops
  TableRenames <- MCTableRenames
  ColumnRenames <- MCColumnRenames
  Backfills = FALSE
  Lag = FALSE
  Replayable <- MCReplayAll
  Rewindable <- MCRewindable
  MaxEvents = 1
  MaxFaults = 1
  None = None
  Null = Null
CHECK_DEADLOCK FALSE
INVARIANT DdlApplies
