SPECIFICATION NodeSpec
CONSTANTS
  Block <- FileBlock
  Genesis = "g"
  NoBlock = "none"
  Chain <- FileChain
  BlockWork <- FileWork
  TotalWork <- FileTotal
  BadTimestamp = {}
  BadBody = {}
  MaxReorgDepth = 2
  RuntimeMaxReorgDepth = 2
  AllowDeepReorg = FALSE
  MaxLosses = 2
  PoolTx <- SmallTx
  TxSpends <- SmallSpends
  TxOutputs <- SmallOutputs
  TxSize <- SmallSize
  TxRank <- SmallRank
  TxFlaw <- SmallFlaw
  PoolSpace = 4
  PoolCount = 3
  OrphanLimit = 2
  BlockSpace = 3
  Maturity = 2
  HeightModulus = 16
  Tips <- TwoTips
  Submitters = {"net"}
  Writer = {"w1", "w2"}
  WalletKey = {"k1", "k2"}
  MaxWalletCrashes = 1
  TornBlock = "torn"
  MaxMishaps = 2
  Worker = {0, 1}
  BlockCycles = 1
  ChunkSize = 2
  MaxIterations = 5
  NonceSpan = 10
  MaxTip = 4
  MaxVersion = 2
INVARIANTS
  PartsTypeOK
  ActiveChainSound
  HeightFilesServeChain
  CheckpointOnChain
  RestartedChainSound
  RefusesOnlyLaggingHeaders
  PoolConsistent
  OrphansWaitForMissing
  PoolOnActiveChain
  TemplateValid
  AckedKeysLoadable
  VersionTellsJob
  NoncesDisjoint
PROPERTIES
  ImplementsActiveChain
  RestartKeepsChain
