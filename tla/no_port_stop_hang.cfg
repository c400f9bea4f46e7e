SPECIFICATION SetupFairSpec
CHECK_DEADLOCK FALSE
CONSTANTS
  PortEntries <- SmallPortEntries
  MaxPorts = 2
  MaxUsers = 2
  SslLibMissing = FALSE
  DomainNames = {"default", "d"}
PROPERTY
  StopReturns
