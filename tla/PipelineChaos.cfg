SPECIFICATION Spec
CONSTANTS
  Keys = {k1, k2}
  Vals = {v1, v2}
  Absent = Absent
  NoKey = NoKey
  NoCp = NoCp
  MaxRows = 2
  MaxEventRows = 2
  SplitStatements = TRUE
  Vacating = TRUE
  KeyReuse = TRUE
  BatchSize = 2
  ChannelCapacity = 2
  MaxFlushFailures = 2
  MaxReconnects = 1
  MaxFlushErrors = 1
  MaxSchemaErrors = 1
  MaxStreamErrors = 2
  MaxCrashes = 1
CHECK_DEADLOCK FALSE
SYMMETRY Symmetry
INVARIANTS RollbackBounded RowsFromBinlog
