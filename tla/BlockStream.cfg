CONSTANTS
  p1 = p1
  p2 = p2
  Origin = origin
  Nobody = nobody
  Peers = {p1, p2}
  Parent <- Chain
  Sizes <- ThreeClusters
  Lead = 1
  DefaultCache = 5
  Fresh <- ZeroMemory
  Budget <- OneFault
  Faults = 2
SPECIFICATION FairSpec
CHECK_DEADLOCK FALSE
INVARIANTS
  FilesAgree
  
  EndedByLoss
  
  HeadersCount

  
