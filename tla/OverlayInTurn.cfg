CONSTANTS
  p1 = p1
  p2 = p2
  p3 = p3
  Origin = origin
  Peers = {p1, p2, p3}
  NoAddr = none
  IdSpace = 8
  LayerSpace = 8
  Stale <- ZeroBytes
  Prompt = TRUE
  OriginWarm = TRUE
  Budget <- FairBudget
SPECIFICATION InTurnSpec
CHECK_DEADLOCK FALSE
PROPERTIES
  AllJoin
