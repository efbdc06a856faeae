SPECIFICATION FSpec
CONSTANTS
  b1 = b1
  b2 = b2
  r1 = r1
  r2 = r2
  x = x
  u1 = u1
  u2 = u2
  e1 = e1
  e2 = e2
  None = None
  Torn = Torn
  Board = {b1}
  Release = {r1, x}
  Unexpected = {x}
  Silent = {x}
  Unstamped = {}
  Updater = {u1}
  Enroller = {e1}
  Verb <- Both
  Shared = FALSE
  MaxFirmware = 1
PROPERTIES
  NeverOnTrustAgain
