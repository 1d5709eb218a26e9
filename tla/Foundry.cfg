SPECIFICATION FoundrySpec
CONSTANTS
  Test = "test"
  Sender = "sender"
  Contracts = {"test", "a"}
  Impostors = {"imp", "a"}
  Origins <- TheOrigins
  Broadcasters = {"sender", "deployer"}
  Logs = {"l1", "l2"}
  Reasons = {"x", "y"}
  Plays <- ThePlays
  StartNonce = 1
  MaxDepth = 3
  MaxCheats = 2
  MaxCalls = 3
  VmAccount = "vm"
  Caller = "caller"
  Accounts = {"x"}
  Deployed = "c"
  Urls = {"u"}
  Blocks = {1, 2}
  Rolls = {9}
  Scripts <- TheScripts
  Kinds = {"transact", "call"}
  MaxForks = 2
  MaxSnapshots = 1
  MaxWrites = 2
  MaxRuns = 3
  MaxSteps = 6
  Deployments <- TheDeployments
  batch_size = 3
  Buffered = 2
  Prices = {1, 2}
  MaxCommands = 4
  MaxFaults = 3
  Targets <- TheTargets
  Inputs = {"a", "b"}
  Configs <- TheConfigs
  campaign_depth = 3
  campaign_runs = 2
  max_assume_rejects = 1
  shrink_run_limit = 3
  MaxTests = 2
INVARIANTS
  SendersAreReal
  PassMeansExpectationsMet
  RecordingTellsReverts
  BroadcastNoncesFollow
  ForksAreSeparate
  WritesSurviveSwitches
  FailuresAreNotLost
  SlowSendsAfterSuccess
  CompleteMeansAllMined
  VerdictsAreRight
CHECK_DEADLOCK FALSE
