SPECIFICATION FairSpec
CONSTANTS
  MaxInFlight = 2
  CommandCap = 1
  ResponseCap = 2
  MqttInCap = 1
  MqttOutCap = 1
  SeqMod = 2
  Bursts = {3}
  MaxDownlinks = 3
  MaxSerial = 1
  MaxRx = 1
INVARIANTS Correlated ReportedTruthfully LossesCounted
PROPERTY Resolved
