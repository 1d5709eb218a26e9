SPECIFICATION ChainSpec
CONSTANTS
  Accounts = {a}
  in_memory_limit = 2
  max_on_disk_limit = 0
  MIN_HISTORY_LIMIT = 1
  transaction_block_keeper = 0
  Serial = FALSE
  OnlyLiveSnapshots = TRUE
  MaxHashes = 3
  MaxSnapshots = 1
  MaxRestarts = 0
INVARIANT StateIsOfBestBlock
CHECK_DEADLOCK FALSE
