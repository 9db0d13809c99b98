SPECIFICATION Spec
CONSTANTS
  a = a
  b = b
  c = c
  NoPeer = NoPeer
  Clients = {a, b, c}
  Unstable = {}
  MaxCalls = 2
  MaxFaults = 0
  MaxCandidates = 0
INVARIANTS NegotiatesWithPeer
CHECK_DEADLOCK FALSE
