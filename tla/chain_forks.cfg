SPECIFICATION LiveSpec
CONSTANTS
  Block <- ForkBlock
  Genesis = "g"
  NoBlock = "none"
  Chain <- ForkChain
  BlockWork <- ForkWork
  TotalWork <- ForkTotal
  BadTimestamp = {"x2"}
  BadBody = {"x1"}
  MaxReorgDepth = 1
  RuntimeMaxReorgDepth = 1
  AllowDeepReorg = FALSE
  MaxLosses = 0
  d1 = d1
  DepositQueue <- OneDeposit
  Redemption = {r1}
  ScanLimit = 9
  EvmConfirmations = 1
  BatchBlocks = 1
  MaxEvmBlock = 2
  MaxSubmits = 2
  MaxFaults = 1
  MaxTroubles = 1
INVARIANTS
  TypeOK
  ActiveChainSound
  Bookkeeping
  HeadersPersisted
PROPERTIES
  ImplementsActiveChain
  RecursionEnds
  DepositMinted
  RedemptionReleased
