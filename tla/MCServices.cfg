SPECIFICATION ServicesSpec
CONSTANTS
  c1 = c1  c2 = c2
  t1 = t1  t2 = t2  t3 = t3
  r1 = r1  r2 = r2
  a = a  b = b
  k1 = k1  k2 = k2
  NoName = NoName
  NoConnector = NoConnector
  Connectors = {c1, c2}
  Tools = {t1, t2, t3}
  OwnerOf <- MCOwnerOf
  Names = {a, b}
  Requests = {r1, r2}
  MaxPerConnector = 1
  NoCall = NoCall
  Calls = {k1, k2}
  MaxTokens = 2
  LoginCalls = {k1, k2}
  MaxLogins = 2
  MaxLoginFaults = 1
  NoLoginToken = NoLoginToken
INVARIANTS
  ServicesTypeOK
  IndexAgrees
  UpstreamAgrees
  SettledServesRows
  ForcedLoginIsNew
  RowIsNewest
PROPERTIES
  OthersUntouched
  EventuallyServed
  EveryCallEnds
