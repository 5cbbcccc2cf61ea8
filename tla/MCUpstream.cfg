SPECIFICATION Spec
CONSTANTS
  PullInterval = 2
  StatInterval = 3
  MaxPower = 22
  DownlinkCap = 1
  TokenMod = 4
  Seed = 3
  Txpks <- Requests
  MaxDownlinks = 2
  MaxUplinks = 1
  MaxTicks = 3
  MaxFaults = 1
INVARIANTS
  UpstreamInv
  ClaimCovers
CHECK_DEADLOCK FALSE
