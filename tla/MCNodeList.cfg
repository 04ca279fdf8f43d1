CONSTANTS
  Ids = {0, 1, 2, 3}
  Layers = {0, 1}
  MaxRecs = 3
  MaxPushed = 3
  MyId = 2
  MyLayer = 1
SPECIFICATION Spec
INVARIANTS
  StoresAgree
  PriorAgrees
  ExceptAgrees
  OriginFirstOnce
