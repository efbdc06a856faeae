SPECIFICATION PSpec
CONSTANTS
  s1 = s1
  s2 = s2
  None = None
  Session = {s1, s2}
  Verb = {"provision-fwkey"}
  Fault = {"reset"}
  MaxCount = 3
PROPERTIES
  OkMeansProvisioned
CHECK_DEADLOCK FALSE
