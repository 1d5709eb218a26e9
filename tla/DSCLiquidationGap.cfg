SPECIFICATION Spec
CONSTANTS
  a = a
  b = b
  eng = eng
  weth = weth
  wbtc = wbtc
  Users <- TwoUsers
  Engine = eng
  Tokens <- OneToken
  PRECISION = 100
  ADDITIONAL_FEED_PRECISION = 50
  MAX_UINT = 1000
  TIMEOUT = 1
  Answers <- LowAnswers
  MaxMoves = 2
  InitialPrice = 4
  Wallet = 20
  CollateralAmounts = {20}
  DSCAmounts = {5, 14}
SYMMETRY UserSymmetry
INVARIANTS
  LiquidatableAbovePar
