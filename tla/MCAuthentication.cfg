SPECIFICATION Spec
CONSTANTS
  r1 = r1
  r2 = r2
  l1 = l1
  l2 = l2
  u1 = u1
  p1 = p1
  p2 = p2
  None = None
  Requests = {r1, r2}
  Lookups = {l1, l2}
  Upns = {u1}
  Passwords = {p1, p2}
  Creds <- MCCreds
  TTL = 1
  MaxEntries = 1
  Capacity = 1
  MaxLife = 1
  MaxWait = 1
SYMMETRY Symmetry
INVARIANTS
  OwnRecentGroups
  OneVerdict
  NobodyStranded
