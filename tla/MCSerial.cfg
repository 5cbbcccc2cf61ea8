SPECIFICATION Spec
CONSTANTS
  MAX_SSID_LEN = 2
  MAX_PASSWORD_LEN = 3
  MAX_HOST_LEN = 2
  MAX_CLIENT_ID_LEN = 1
  Commands <- MCCommands
  NetworkConfig <- MCNetworkConfig
  HubStatus <- MCHubStatus
  Statuses = {0}
  MaxPacket = 11
  CommandCap = 1
  HubCap = 1
  ResponseCap = 1
  MaxCommands = 3
  MaxEarly = 1
  MaxNoise = 1
  MaxBreaks = 1
INVARIANTS SerialInv InStep Understood
PROPERTY Served
CHECK_DEADLOCK FALSE
