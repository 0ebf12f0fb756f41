SPECIFICATION NetworkSpec
CONSTANTS
  Peer = {p1, p2}
  NoPeer = none
  MaxHeight = 2
  MaxHeaders = 2
  MaxParallel = 1
  MaxDrops = 1
  d1 = d1
  DepositQueue <- OneDeposit
  Redemption = {r1}
  ScanLimit = 9
  EvmConfirmations = 1
  BatchBlocks = 1
  MaxEvmBlock = 2
  MaxSubmits = 2
  MaxFaults = 2
  MaxTroubles = 1
  Party = {A, B}
  MaxCalls = 1
  MaxFrames = 1
  RpcThreads = 2
  InboxLimit = 1
  MailNode = {"s", "r", "t"}
  Origin = "s"
  Advertised = {"s", "r"}
  MaxOpen = 2
  MaxMailLoss = 1
  Node = {"a"}
  Group <- OneGroup
  Rank <- SameRank
  BanScore = 1
  MaxDials = 2
  OutboundLimit = 2
  InboundLimit = 4
  MaxDown = 1
  MaxPerPeer = 2
  MaxUpsets = 3
SYMMETRY Symmetry
INVARIANTS
  NetworkTypeOK
  DownloadedOnce
  BookedIsOutstanding
  QueueWaitsForSlot
  SupplyBacked
  PaidOncePerFault
  RedemptionsTracked
  FinishedIsPaid
  FramesOfThisCall
  ConnectedIsAccepted
  AloneOnlyIfIgnored
  PendingIsUnderWay
PROPERTIES
  WalletOpensCaughtUp
  VerifiedByReplica
