SPECIFICATION RestartedSpec
CONSTANTS
  Keys = {k1, k2}
  Vals = {v1, v2}
  Absent = Absent
  NoKey = NoKey
  NoCp = NoCp
  MaxRows = 3
  MaxEventRows = 1
  SplitStatements = FALSE
  Vacating = FALSE
  KeyReuse = FALSE
  BatchSize = 2
  ChannelCapacity = 2
  MaxFlushFailures = 2
  MaxReconnects = 2
  MaxFlushErrors = 1
  MaxSchemaErrors = 0
  MaxStreamErrors = 2
  MaxCrashes = 1
CHECK_DEADLOCK FALSE
SYMMETRY Symmetry
INVARIANTS ReplayRepairs CaughtUpExact
