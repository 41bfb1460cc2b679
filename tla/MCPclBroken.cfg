SPECIFICATION DocSpec
CONSTANTS
  MaxSendBuffs = 3
  QueueSize = 4
  Stripes <- MixedPages
  Broken = TRUE
  MaxPages = 3
  Languages <- AllLanguages
  MarginStrips = {2}
INVARIANTS
  OneOwner
  PermitsKept
  BuffersAreSafe
  DocumentIsSound
  PagesArrive
CHECK_DEADLOCK FALSE
