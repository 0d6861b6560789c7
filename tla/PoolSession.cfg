SPECIFICATION PoolSpec
CONSTANTS
  Modals = {m1, m2}
  Requests = {q1, q2}
  mine = mine
  foreign = foreign
  hot = hot
  cold = cold
  Positions = {mine, foreign}
  Owner <- MCOwner
  RangeOf <- MCRangeOf
  UserWallets = {hot}
  PoolTicks <- MCPoolTicks
  Sliders <- MCSliders
  RawLevel <- MCRawLevel
  Spacing = 2
  MaxTick = 3
  Span = 1
  None = None
CONSTRAINT Scenarios
SYMMETRY Symmetric
INVARIANTS
  PoolIInv
  FormsWhatItShows
  IncreaseFindsItsPosition
  SlidersShownAsSet
PROPERTIES
  SlidersKeepTheSession
