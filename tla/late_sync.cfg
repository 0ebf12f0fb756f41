SPECIFICATION FairSpec
CONSTANTS
  Peer = {p1, p2}
  NoPeer = none
  MaxHeight = 1
  MaxHeaders = 1
  MaxParallel = 1
  MaxDrops = 1
PROPERTIES
  LateNodeSyncs
