SPECIFICATION BSpec
CONSTANTS
  None = None
  Torn = Torn
  MaxBuild = 1
  EnvBeside = FALSE
INVARIANTS
  OnlyTheTreeDiffers
CHECK_DEADLOCK FALSE
