SPECIFICATION Spec
CONSTANTS
  Tables = {t1, t2}
  NoCp = NoCp
  ChannelCapacity = 2
  MaxReconnects = 1
  MaxChanges = 3
  MaxStreamErrors = 2
  MaxCrashes = 1
  MaxRefused = 1
CHECK_DEADLOCK FALSE
SYMMETRY Symmetry
INVARIANTS TypeOK NoGap CheckpointCovers StreamLosesNothing UndisturbedBackfill
