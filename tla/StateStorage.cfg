SPECIFICATION FairStorageSpec
CONSTANTS
  States <- MCStates
  Persisted <- MCPersisted
  Statuses <- MCStatuses
  Undefined = Undefined
  Default <- MCDefault
  Size <- MCSize
  Ops = {o1, o2}
INVARIANTS
  SettledFileAgrees
  StorageIInv
PROPERTIES
  RestartKeepsSettledValue
  CellBehaviour
  HeardReportBecomesDurable
