SPECIFICATION FairSpec
CONSTANTS
  Accounts = {a1}
  Keyed = {a1}
  Tables = {t1, t2}
  Queries = {{t1}}
  DeltaLists = {}
  Batches = {{t1}}
  Conns = {c1}
  SubIds = {s1}
  MaxConns = 1
  BroadcastCapacity = 1
  MaxDeltaRows = 1
  MaxChanges = 2
  MaxSubscribes = 2
  MaxEvalErrors = 1
  MaxSilent = 1
  Nothing = Nothing
CHECK_DEADLOCK FALSE
INVARIANTS SnapshotCoversBatch NotForgotten
PROPERTY Refreshed
