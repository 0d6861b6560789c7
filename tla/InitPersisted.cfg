SPECIFICATION CronSpec
CONSTANTS
  Callers = {c1}
  InitAllOrder <- OneOrder
  StateOf <- OneStateOf
  Unchecked = {}
  States <- OneState
  Persisted <- OneState
  Undefined = Undefined
  Default <- OneDefault
  Ops = {o1, o2}
PROPERTIES
  CronRepairs
  StorageBehaviour
