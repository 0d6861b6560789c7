CONSTANTS
  Requests = {q1, q2}
  Wallets = {w1}
  usd = usd
  initing = initing
  Currencies = {usd, eur}
  StatusColumns = {"txs"}
  Statuses = {idle, initing}
  MaxSecond = 2
SPECIFICATION AccountSpec
CONSTRAINT SessionOrPortfolio
SYMMETRY RequestSymmetry
INVARIANTS
  StoredTokenIsKnown
  AccountIInv
PROPERTIES
  SavesUndoOnlyLateChanges
  RetiredTokensStayDead
