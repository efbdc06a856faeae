SPECIFICATION LSpec
CONSTANTS
  v1 = v1
  v2 = v2
  r1 = r1
  r2 = r2
  Other = Other
  None = None
  Foreign = Foreign
  Round = {v1}
  Release = {r1}
  Fault = {"clear", "disk"}
  Garbled = {"signer", "count"}
  MaxBoots = 3
INVARIANTS
  LTypeOK
  PassMeansGoldenBoot
  EvidenceOfOneBoot
  FreshMeansRestarted
  StaleMeansNotRestarted
PROPERTIES
  GoodBoardPasses
