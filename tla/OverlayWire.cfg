CONSTANTS
  p1 = p1
  p2 = p2
  p3 = p3
  Origin = origin
  Peers = {p1, p2}
  NoAddr = none
  IdSpace = 5
  LayerSpace = 8
  Stale <- ZeroBytes
  Prompt = FALSE
  OriginWarm = TRUE
  Budget <- WireBudget
SPECIFICATION Spec
SYMMETRY PeerSymmetry
CHECK_DEADLOCK FALSE
INVARIANTS
  ChildCountExact
  FallbackReturns
  ListIdsDistinct
  UnjoinedIsIdle
