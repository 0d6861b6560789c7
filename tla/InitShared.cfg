SPECIFICATION FairSpec
CONSTANTS
  Callers = {c1, c2}
  InitAllOrder <- SharedOrder
  StateOf <- SharedStateOf
  Unchecked = {"chains"}
  States <- SharedStates
  Persisted = {}
  Undefined = Undefined
  Default <- SharedDefault
  Ops = {}
INVARIANTS
  TypeOK
  ProcessingHasRunner
  LoneInitAllReportsEach
PROPERTIES
  ProcessingEndsWithItsRunner
  EveryCallEnds
  ProcessingEnds
