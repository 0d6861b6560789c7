SPECIFICATION ChainsSpec
CONSTANTS
  Listed = {e1}
  Ids = {i1, i2, i3}
  Runs = {r1, r2}
  None = None
SYMMETRY IdSymmetry
INVARIANTS
  CleanupSparesOwnRows
  LoneRunLeavesList
  ChainsIInv
  SerialRunsKeepKeysUnique
PROPERTIES
  SerialRunsSpareListed
