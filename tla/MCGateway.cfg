SPECIFICATION FairSpec
CONSTANTS
  Wrap = 24
  SetupLead = 2
  TxStartComp = 1
  MaxAhead = 5
  DownlinkCap = 1
  UplinkCap = 1
  MaxStep = 1
  MaxSetup = 1
  StartTime = 23
  LastArrival = 24
  MaxTime = 29
  MaxDownlinks = 3
  MaxUplinks = 2
  MaxFaults = 1
INVARIANTS GatewayInv OnTarget
PROPERTIES MissedForAReason JobsEnd
CHECK_DEADLOCK FALSE
