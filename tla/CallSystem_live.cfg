SPECIFICATION FairSpec
CONSTANTS
  a = a
  b = b
  c = c
  NoPeer = NoPeer
  Clients = {a, b}
  Unstable = {b}
  MaxCalls = 2
  MaxFaults = 1
  MaxCandidates = 0
PROPERTIES CallsEnd NegotiationCompletes
CHECK_DEADLOCK FALSE
