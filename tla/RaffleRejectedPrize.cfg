SPECIFICATION FairSpec
CONSTANTS
  p1 = p1
  p2 = p2
  p3 = p3
  Nobody = Nobody
  Players <- TwoPlayers
  Rejecting <- OneRejecting
  i_entranceFee = 2
  i_interval = 1
  MsgValues = {0, 2, 3}
  Funds = 4
  RandomWords <- SmallWords
  MaxPlayers = 4
PROPERTIES
  DrawsFinish
\* The raffle really stops here.
CHECK_DEADLOCK FALSE
