SPECIFICATION Spec
CONSTANTS
  MaxStaFailures = 2
  MaxSecs = 3
  OutCap = 1
  Addresses = {1, 2}
  MaxFaults = 2
  MaxOut = 2
INVARIANTS
  NetworkInv
  StatusTruthful
  LostWithSession
PROPERTIES
  FallsBack
  Announced
CHECK_DEADLOCK FALSE
