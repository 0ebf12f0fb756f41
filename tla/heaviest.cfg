SPECIFICATION RunSpec
CONSTANTS
  Block <- ForkBlock
  Genesis = "g"
  NoBlock = "none"
  Chain <- ForkChain
  BlockWork <- ForkWork
  TotalWork <- ForkTotal
  BadTimestamp = {}
  BadBody = {"x1"}
  MaxReorgDepth = 2
  RuntimeMaxReorgDepth = 2
  AllowDeepReorg = FALSE
  MaxLosses = 0
INVARIANT
  HeaviestActive
