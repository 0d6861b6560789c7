CONSTANTS
  Requests = {q1}
  evm = evm
  sol = sol
  Wallets = {evm, sol}
  Currencies = {usd}
  StatusColumns = {"txs", "analytics"}
  Statuses = {"NOT_INITED_YET", "IS_INITING", "INITED", "ERROR"}
  MaxSecond = 1
  Inits = {i1, i2}
  GroupOf <- MCGroupOf
  MaxJobs = 2
SPECIFICATION FairStatusesSpec
CONSTRAINT NoChanges
INVARIANTS
  StatusesIInv
PROPERTIES
  AccountSpec
  InitingEnds
