SPECIFICATION BSpec
CONSTANTS
  None = None
  Torn = Torn
  MaxBuild = 1
  EnvBeside = FALSE
INVARIANTS
  BTypeOK
  AcceptedIsSigned
  GoodReleasePasses
  SpoiltIsCaught
CHECK_DEADLOCK FALSE
