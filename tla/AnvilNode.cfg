SPECIFICATION NodeSpec
CONSTANTS
  a = a
  b = b
  a0 = a0
  a1 = a1
  a2 = a2
  b0 = b0
  Txs <- ThreeTxs
  sender <- MCsender
  nonce <- MCnonce
  gas_price <- MCprice
  gas_limit <- MCgas
  TransactionOrder = "Fees"
  block_gas_limit = 3
  MaxUnlocks = 2
  InitialMode = "Auto"
  MaxTransactions = 2
  ForceTransactions <- NoForced
  Requests = {"sendRaw", "drop", "dropAll", "evm_mine"}
  MaxRequests = 1
  MaxQueued = 1
INVARIANTS
  NodeIsConsistent
PROPERTIES
  ImplementsLedger
CHECK_DEADLOCK FALSE
