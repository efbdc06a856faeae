SPECIFICATION UFairSpec
CONSTANTS
  r1 = r1
  r2 = r2
  r4 = r4
  u1 = u1
  o1 = o1
  Torn = Torn
  None = None
  FactoryImage = r1
  Version <- MCVersion
  Golden <- MCGolden
  Server = {u1}
  Installer = {u1}
  Image = {r1, r2, r4}
  Session = {u1}
  Manifest <- MCManifest
  Fault <- AllFaults
INVARIANTS
  UTypeOK
PROPERTIES
  DoneMeansDone
  GoldensFollowCommit
  UpdateReturns
  GoodUpdateSucceeds
