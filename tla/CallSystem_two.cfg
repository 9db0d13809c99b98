SPECIFICATION Spec
CONSTANTS
  a = a
  b = b
  c = c
  NoPeer = NoPeer
  Clients = {a, b}
  Unstable = {b}
  MaxCalls = 2
  MaxFaults = 1
  MaxCandidates = 1
INVARIANTS EngineFollowsCall Agreement PeerLossIsNoticed RingIsCalledOff
PROPERTIES ImplementsLifecycle
CHECK_DEADLOCK FALSE
