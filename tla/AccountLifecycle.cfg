SPECIFICATION FewFilesSpec
CONSTANTS
  Ids = {a, b}
  Configs <- MCConfigs
  Handlers = {h1}
  Reconciler = Reconciler
  MaxAccounts = 1
  SameId = FALSE
  Readd = FALSE
  MaxEdits = 1
  MaxRequests = 1
  MaxFaults = 1
  Nobody = Nobody
  Malformed = Malformed
CHECK_DEADLOCK FALSE
INVARIANTS TypeOK OneRunningWriter NoOrphan RegistryLive AccountLimit 
PROPERTIES EditsApplied
