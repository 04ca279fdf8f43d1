CONSTANTS
  p1 = p1
  p2 = p2
  p3 = p3
  Origin = origin
  Peers = {p1, p2, p3}
  NoAddr = none
  IdSpace = 8
  LayerSpace = 8
  Stale <- ZeroBytes
  Prompt = TRUE
  OriginWarm = TRUE
  Budget <- JoinBudget
SPECIFICATION Spec
SYMMETRY PeerSymmetry
CHECK_DEADLOCK FALSE
INVARIANTS
  JoinedIsTree
  IdsDistinct
  ListsTruthful
PROPERTIES
  IdKept
  JoinsTree
