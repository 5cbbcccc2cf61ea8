SPECIFICATION Spec
CONSTANTS
  MaxInFlight = 2
  CommandCap = 2
  ResponseCap = 2
  MqttInCap = 1
  MqttOutCap = 1
  SeqMod = 8
  Bursts = {1, 3}
  MaxDownlinks = 3
  MaxSerial = 2
  MaxRx = 1
INVARIANT NoLeak
