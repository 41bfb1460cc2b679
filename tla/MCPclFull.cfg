SPECIFICATION FairDocSpec
CONSTANTS
  MaxSendBuffs = 8
  QueueSize = 16
  Stripes <- RealPages
  Broken = FALSE
  MaxPages = 5
  Languages = {"PWG"}
  MarginStrips = {}
INVARIANTS
  NothingRefused
  CallsInOrder
PROPERTIES
  PluginReturns
CHECK_DEADLOCK FALSE
