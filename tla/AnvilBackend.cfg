SPECIFICATION MCSpec
CONSTANTS
  a = a
  b = b
  a0 = a0
  a0x = a0x
  a1 = a1
  a1x = a1x
  a2 = a2
  b0 = b0
  Txs <- SixTxs
  sender <- MCsender
  nonce <- MCnonce
  gas_price <- MCprice
  gas_limit <- MCgas
  TransactionOrder = "Fees"
  block_gas_limit = 3
  MaxUnlocks = 3
  Accounts = {a}
  in_memory_limit = 2
  max_on_disk_limit = 2
  MIN_HISTORY_LIMIT = 1
  transaction_block_keeper = 2
  Serial = TRUE
  OnlyLiveSnapshots = TRUE
  MaxHashes = 3
  MaxSnapshots = 2
  MaxRestarts = 2
  Timestamps = {1, 4}
  Amounts = {0, 2}
  Start = 2
  MaxCurrent = 4
  MaxBlocks = 3
  Bodies <- MCBodies
  fee_history_limit = 2
  MAX_BLOCK_COUNT = 2
  block_gas = 4
  initial_base_fee = 16
  Fees = {0}
  keepalive = 1
  MaxMade = 3
  MaxClock = 2
INVARIANTS
  PoolIndicesAgree
  RejectedLeavesNoTrace
  PoolFollowsState
  ChainHangsTogether
  StatesAreOfTheirBlocks
  TimestampsKeepTheirOrder
  FeeHistoryIsTrue
  LogsArriveOnce
PROPERTIES
  RevertRestores
  PolledStaysActive
CHECK_DEADLOCK FALSE
