CONSTANTS
  t1 = t1  t2 = t2
  k1 = k1  k2 = k2
  o1 = o1  o2 = o2
  u1 = u1  u2 = u2
  p1 = p1  p2 = p2
  s1 = s1  s2 = s2
  Calls = {c1, c2}
  Tools = {t1, t2}
  ConnectorOf <- MCConnectorOf
  OrgOf <- MCOrgOf
  CachedTools = {t1, t2}
  ProxiedTools = {t1}
  BridgedTools = {t2}
  StaticTools = {t1}
  Callers = {u1, u2}
  CallerOrg <- MCCallerOrg
  CallerScope <- MCCallerScope
  CallerTools <- MCCallerTools
  ServerCallers = {u1}
  Params = {p1}
  Digest <- MCDigest
  Nothing = Nothing
  RateLimit = 1
  ProxyLimit = 1
  MaxReloads = 1
  MaxFaults = 1
  Ingests = {c1, c2}
  Sources = {s1, s2}
  Chunk = 1
  MaxPerIngest = 2
  MaxRows = 3
  MaxUnnamed = 1
  MaxStarts = 2
  Idling = Idling
SPECIFICATION RunSpec
INVARIANTS
  RunTypeOK
  RowsTellCalls
  ServerCallStaysInOrg
  CallsActOnce
  CountersEnd
  RowsCountedOnce
SYMMETRY MCSymmetry
CHECK_DEADLOCK FALSE
