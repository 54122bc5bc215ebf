SPECIFICATION RegistrySpec
CONSTANTS
  c1 = c1
  c2 = c2
  t1 = t1
  t2 = t2
  t3 = t3
  r1 = r1
  r2 = r2
  a = a
  b = b
  NoName = NoName
  NoConnector = NoConnector
  Connectors = {c1, c2}
  Tools = {t1, t2, t3}
  OwnerOf <- MCOwnerOf
  Names = {a, b}
  Requests = {r1, r2}
  MaxPerConnector = 2
INVARIANTS
  DeletedIsUnregistered
