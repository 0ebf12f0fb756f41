SPECIFICATION Spec
CONSTANTS
  Peer = {p1, p2}
  NoPeer = none
  MaxHeight = 2
  MaxHeaders = 1
  MaxParallel = 1
  MaxDrops = 0
PROPERTIES
  WalletOpensApproved
