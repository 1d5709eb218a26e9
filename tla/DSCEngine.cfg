SPECIFICATION Spec
CONSTANTS
  a = a
  b = b
  eng = eng
  weth = weth
  wbtc = wbtc
  Users <- TwoUsers
  Engine = eng
  Tokens <- OneToken
  PRECISION = 100
  ADDITIONAL_FEED_PRECISION = 5
  MAX_UINT = 1000
  TIMEOUT = 1
  Answers <- SlidingAnswers
  MaxMoves = 2
  InitialPrice = 40
  Wallet = 20
  CollateralAmounts = {10}
  DSCAmounts = {5, 15}
SYMMETRY UserSymmetry
INVARIANTS
  DepositsAreHeld
  SupplyIsOwed
  BrokenPositionsCanBeClosed
  DepositorsCanLeave
PROPERTIES
  WithdrawalsLeaveHealthy
  SeizedOnLiquidationTerms
