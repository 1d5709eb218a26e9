SPECIFICATION ContractsSpec
CONSTANTS
  p1 = p1
  p2 = p2
  p3 = p3
  u1 = u1
  u2 = u2
  Nobody = Nobody
  Players <- ThreePlayers
  Rejecting <- OneRejecting
  i_entranceFee = 2
  i_interval = 1
  MsgValues = {0, 2, 3}
  Funds = 4
  RandomWords <- SmallWords
  MaxPlayers = 4
  Holders <- TwoHolders
  PRECISION_FACTOR = 2
  InitialRate = 2
  LowerRates = {1}
  TokenAmounts = {0, 1}
  MAX = 20
  MaxNow = 3
  MaxDeposited = 2
  MaxRewards = 1
  MaxMessages = 2
  MaxTransactions = 4
  Donors <- ThreePlayers
  i_owner = p1
  MINIMUM_USD = 2
  Prices <- FeedAnswers
  FEED_SCALE = 2
  ETHER = 4
  WORD = 64
  Donations = {1, 2}
  MaxFunds = 3
  Minters <- TwoHolders
  Uris = {1, 2}
  MaxTokens = 2
SYMMETRY HolderSymmetry
INVARIANTS
  TicketsAreInThePot
  AnswerFindsItsRound
  TokensAreAccountedFor
  FundsAreTheFunders
  TokensAreAsMinted
PROPERTIES
  DrawsPayOneTicketHolder
  BalancesOnlyGrow
\* A winner that rejects the prize stops the raffle; the bounds stop the others.
CHECK_DEADLOCK FALSE
