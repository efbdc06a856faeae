SPECIFICATION PSpec
CONSTANTS
  s1 = s1
  s2 = s2
  None = None
  Session = {s1}
  Verb = {"provision-fwkey"}
  Fault = {"reset"}
  MaxCount = 3
INVARIANTS
  GuardedBoardIsProvisioned
