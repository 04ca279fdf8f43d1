CONSTANTS
  Slots <- TwoSlots
  ClusterSize = 2
  MaxCluster = 1
  MaxSetups = 2
SPECIFICATION Spec
CHECK_DEADLOCK FALSE
INVARIANTS
  TypeOK
  BitsClean
  StartsAsTold
PROPERTIES
  SilentLeaves
