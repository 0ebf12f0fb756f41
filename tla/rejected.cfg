SPECIFICATION RunSpec
CONSTANTS
  Block <- ForkBlock
  Genesis = "g"
  NoBlock = "none"
  Chain <- ForkChain
  BlockWork <- ForkWork
  TotalWork <- ForkTotal
  BadTimestamp = {"b2"}
  BadBody = {"x1"}
  MaxReorgDepth = 1
  RuntimeMaxReorgDepth = 1
  AllowDeepReorg = FALSE
  MaxLosses = 0
INVARIANT
  RejectedNotKnown
