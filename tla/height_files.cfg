SPECIFICATION Spec
CONSTANTS
  Block <- FileBlock
  Genesis = "g"
  NoBlock = "none"
  Chain <- FileChain
  BlockWork <- FileWork
  TotalWork <- FileTotal
  BadTimestamp = {}
  BadBody = {}
  MaxReorgDepth = 2
  RuntimeMaxReorgDepth = 2
  AllowDeepReorg = FALSE
  MaxLosses = 2
PROPERTY
  RestartRestoresHeightFiles
