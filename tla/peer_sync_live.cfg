SPECIFICATION SyncSpec
CONSTANTS
  Peer = {p1, p2}
  NoPeer = none
  MaxHeight = 2
  MaxHeaders = 1
  MaxParallel = 1
  MaxDrops = 0
  Node = {"a", "b"}
  Group <- OneGroup
  Rank <- SameRank
  BanScore = 1
  MaxDials = 2
  OutboundLimit = 2
  InboundLimit = 4
  MaxDown = 1
  MaxPerPeer = 2
  MaxUpsets = 1
PROPERTIES
  LateNodeSyncs
  WalletSettlesOpen
  KnownPeerReconnects
