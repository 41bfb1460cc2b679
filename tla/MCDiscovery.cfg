SPECIFICATION FairSpec
CONSTANTS
  Responders <- TwoHosts
  Packet <- Packets
  Addresses <- OneAddress
  Names <- ThreeNames
  MaxSessions = 2
  MaxLosses = 1
  SendFails = TRUE
INVARIANTS
  SessionIsTrue
PROPERTIES
  DiscoveryServes
  ListeningFinds
CHECK_DEADLOCK FALSE
