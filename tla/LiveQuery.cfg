SPECIFICATION Spec
CONSTANTS
  Accounts = {a1, a2}
  Keyed = {a1}
  Tables = {t1, t2}
  Queries = {{t1}}
  DeltaLists = {{t1}}
  Batches = {{t1, t2}}
  Conns = {c1, c2}
  SubIds = {s1}
  MaxConns = 1
  BroadcastCapacity = 1
  MaxDeltaRows = 1
  MaxChanges = 2
  MaxSubscribes = 1
  MaxEvalErrors = 0
  MaxSilent = 1
  Nothing = Nothing
CHECK_DEADLOCK FALSE
INVARIANTS TypeOK AccountIsolation SnapshotCoversBatch DeltasComplete ConnectionLimit
SYMMETRY Symmetry
