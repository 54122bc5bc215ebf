SPECIFICATION MCSpec
CONSTANTS
  c1 = c1
  c2 = c2
  t1 = t1
  t2 = t2
  r1 = r1
  a = a
  v1 = v1
  v2 = v2
  p1 = p1
  s1 = s1
  s2 = s2
  NoName = NoName
  NoConnector = NoConnector
  NoServer = NoServer
  NoPrincipal = NoPrincipal
  Connectors = {c1, c2}
  Tools = {t1, t2}
  OwnerOf <- MCOwnerOf
  Names = {a}
  Requests = {r1}
  MaxPerConnector = 1
  Servers = {v1, v2}
  Principals = {p1}
  Sessions = {s1, s2}
  MaxSessions = 1
  MaxRebuilds = 2
  MaxChanges = 2
SYMMETRY MCSymmetry
INVARIANTS
  SessionsTypeOK
  SessionCap
  IndexIsTable
  SettledSessionsCurrent
PROPERTIES
  ImplementsTable
