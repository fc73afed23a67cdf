CONSTANTS
  a1 = a1
  a2 = a2
  f1 = f1
  f2 = f2
  p1 = p1
  p2 = p2
  c1 = c1
  c2 = c2
  Accounts = {a1, a2}
  Flows = {f1, f2}
  Agents = {p1, p2}
  Calls = {c1, c2}
  None = None
  MaxGrants = 2
SPECIFICATION Spec
SYMMETRY Symmetric
INVARIANTS
  TypeOK
  OnlyOverlapsAreUndone
  ExchangedOnce
  DisconnectRevokes
  GrantsFollowConnections
