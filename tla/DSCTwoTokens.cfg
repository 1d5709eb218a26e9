SPECIFICATION Spec
CONSTANTS
  a = a
  b = b
  eng = eng
  weth = weth
  wbtc = wbtc
  Users <- TwoUsers
  Engine = eng
  Tokens <- TwoTokens
  PRECISION = 100
  ADDITIONAL_FEED_PRECISION = 50
  MAX_UINT = 1000
  TIMEOUT = 0
  Answers <- FallingAnswers
  MaxMoves = 1
  InitialPrice = 4
  Wallet = 20
  CollateralAmounts = {20}
  DSCAmounts = {15}
SYMMETRY UserSymmetry
PROPERTIES
  UnreadableFeedFreezes
