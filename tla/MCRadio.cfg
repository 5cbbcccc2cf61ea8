SPECIFICATION FairSpec
CONSTANTS
  Configs = {sf7, sf12}
  Default = sf7
  MaxCommands = 2
  MaxPackets = 2
  MaxFaults = 2
INVARIANTS FlagTruthful AirClaimed PublishedOnce
PROPERTIES NoSilentLoss OnAirAsClaimed StaysAlive
