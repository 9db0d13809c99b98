SPECIFICATION WindowsSpec
CONSTANTS
  p = p
  q = q
  NoPeer = NoPeer
  Peers = {p, q}
  MaxRings = 3
  MaxCalls = 3
INVARIANTS WindowsFollowCall PicturesFollowCall
PROPERTIES RingingStops StopEnds
CHECK_DEADLOCK FALSE
