SPECIFICATION FairNodeSpec
CONSTANTS
  a = a
  b = b
  a0 = a0
  a1 = a1
  a2 = a2
  b0 = b0
  Txs <- TwoSenders
  sender <- MCsender
  nonce <- MCnonce
  gas_price <- MCprice
  gas_limit <- MCgas
  TransactionOrder = "Fees"
  block_gas_limit = 2
  MaxUnlocks = 2
  InitialMode = "Mixed"
  MaxTransactions = 1
  ForceTransactions <- ForceB0
  Requests = {"send", "setAutomine", "setInterval"}
  MaxRequests = 1
  MaxQueued = 1
INVARIANTS
  ForcedOpenTheChain
PROPERTIES
  ReadyLeavesPool
CHECK_DEADLOCK FALSE
