SPECIFICATION Spec
CONSTANTS
  r1 = r1
  r2 = r2
  r4 = r4
  s1 = s1
  s2 = s2
  Torn = Torn
  None = None
  FactoryImage = r1
  Version <- MCVersion
  Session = {s1, s2}
  Installer = {s1, s2}
  Image = {r1, r2}
  Manifest <- MCTwoReleases
INVARIANTS
  InstallHonest
