SPECIFICATION MailSpec
CONSTANTS
  MailNode = {"s", "r", "t"}
  Origin = "s"
  Advertised = {"s", "r", "t"}
  MaxOpen = 1
  MaxMailLoss = 0
INVARIANTS
  SlashedOnlyOnFailure
