SPECIFICATION MCSpec
CONSTANTS
  c1 = c1
  c2 = c2
  p1 = p1
  p2 = p2
  r1 = r1
  r2 = r2
  v1 = v1
  v2 = v2
  eth = eth
  usdt = usdt
  Requests = {r1, r2}
  Amounts = {1, 2, 3}
  Terms <- MCTerms
  Coins = {eth, usdt}
  NativeCoin = eth
  MaxRecords = 2
  None = None
  Payers = {p1, p2}
  Wallets <- MCWallets
  MaxHeld = 20
  Nothing = Nothing
  Sales = {1, 2}
  SwapChains = {c1, c2}
  FeeChains = {c1}
  NativeName <- MCNativeName
  NativeSymbol <- MCNativeSymbol
  FixedFee = 1
  CoinChains = {c1}
  Sums = {1, 2}
  Backs = {9, 10}
  Percents = {14, 500, 996, 1000}
  Visits = {v1, v2}
  Absent = Absent
INVARIANTS
  CexKeepsItsWord
  DealsAreKept
  WidgetShowsTheQuote
PROPERTIES
  WhatIsToldStays
  SettledIsTold
CHECK_DEADLOCK FALSE
