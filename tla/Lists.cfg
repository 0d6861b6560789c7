SPECIFICATION MCSpec
CONSTANTS
  c1 = c1
  c2 = c2
  c3 = c3
  t1 = t1
  t2 = t2
  eth = eth
  usd = usd
  dai = dai
  zerox = zerox
  debridge = debridge
  rango = rango
  halted = halted
  Rows <- MCRows
  Chains = {c1, c2}
  Tokens = {t1, t2}
  Searches <- MCSearches
  Sizes = {1, 2}
  MaxMoves = 2
  Services = {zerox, debridge, rango, halted}
  CanSingle = {zerox, rango}
  CanMulti = {debridge, rango}
  ZeroX = zerox
  Coins <- MCCoins
  Listings <- MCListings
  UserChains = {c1, c2}
  MaxRelists = 1
  Nothing = Nothing
  TicksPerHour = 2
  HoursPerDay = 2
  MonthStarts <- MCMonthStarts
  YearMonths = 3
  Nows <- MCNows
  Recorded <- MCRecorded
  MaxSnapshots = 4
  NoPrice = NoPrice
INVARIANTS
  ListsTellTheTable
  OffersCanBeTaken
  ChartCoversItsPeriod
CHECK_DEADLOCK FALSE
