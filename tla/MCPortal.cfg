SPECIFICATION Spec
CONSTANTS
  Tasks = {t1, t2}
  Apps = {app}
  Pages = {page}
  MAX_REQUEST = 6
  Terminator = 2
  Requests <- MCRequests
  MaxCalls = 3
  MaxFaults = 1
INVARIANTS PortalInv ToldTheTruth
PROPERTIES SavedThenRestarts BackToListening
CHECK_DEADLOCK FALSE
