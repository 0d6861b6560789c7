CONSTANTS
  Requests = {q1}
  evm = evm
  sol = sol
  Wallets = {evm}
  Currencies = {usd}
  StatusColumns = {"txs", "analytics"}
  Statuses = {"NOT_INITED_YET", "IS_INITING", "INITED", "ERROR"}
  MaxSecond = 2
  Inits = {i1, i2}
  GroupOf <- MCGroupOf
  MaxJobs = 2
SPECIFICATION StatusesSpec
CONSTRAINT TransactionsOnly
SYMMETRY InitSymmetry
INVARIANT InitingHasCause
INVARIANT CalmInitsDoNotDouble
