CONSTANTS
  p1 = p1
  p2 = p2
  p3 = p3
  Origin = origin
  Peers = {p1, p2}
  NoAddr = none
  IdSpace = 8
  LayerSpace = 8
  Stale <- ZeroBytes
  Prompt = FALSE
  OriginWarm = TRUE
  Budget <- ChurnBudget
SPECIFICATION Spec
SYMMETRY PeerSymmetry
CHECK_DEADLOCK FALSE
INVARIANTS
  NoDuplicateChild
