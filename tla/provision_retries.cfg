SPECIFICATION PSpec
CONSTANTS
  s1 = s1
  s2 = s2
  None = None
  Session = {s1}
  Verb <- AllVerbs
  Fault <- AllFaults
  MaxCount = 3
INVARIANTS
  PTypeOK
PROPERTIES
  OkMeansProvisioned
  ClosedRetrySucceeds
  ForeignAuthsChangeNothing
