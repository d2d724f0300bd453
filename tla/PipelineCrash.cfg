SPECIFICATION FairSpec
CONSTANTS
  Keys = {k1, k2}
  Vals = {v1, v2}
  Absent = Absent
  NoKey = NoKey
  NoCp = NoCp
  MaxRows = 3
  MaxEventRows = 1
  SplitStatements = FALSE
  Vacating = TRUE
  KeyReuse = FALSE
  BatchSize = 2
  ChannelCapacity = 1
  MaxFlushFailures = 2
  MaxReconnects = 0
  MaxFlushErrors = 2
  MaxSchemaErrors = 0
  MaxStreamErrors = 0
  MaxCrashes = 1
CHECK_DEADLOCK FALSE
INVARIANTS TypeOK DurablePrefix PendingExact IInv
PROPERTIES ImplementsReplica Convergence
