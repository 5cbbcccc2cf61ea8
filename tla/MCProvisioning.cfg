SPECIFICATION FairSpec
CONSTANTS
  Conns = {c1, c2}
  HubCap = 1
  PortalCap = 1
  Text <- MCText
  Empty = ""
  Default <- MCDefault
  SerialCommands <- MCSerialCommands
  Updates <- MCUpdates
  Schema = 1
  MaxSerial = 2
  MaxPosts = 2
  MaxFaults = 1
  MaxBoots = 1
INVARIANTS StoredAsAcknowledged AnswersOwnUpdate
PROPERTIES PostEnds ImplementsService OmittedAsBooted
CHECK_DEADLOCK FALSE
