SPECIFICATION FairSpec
CONSTANTS
  k1 = k1
  k2 = k2
  NoConfig = NoConfig
  IceConfigs = {k1, k2}
  MaxReconnectAttempts = 5
  MaxInFlight = 2
INVARIANTS ConnectionIsSound
PROPERTIES DisconnectIsFinal OutageEnds
