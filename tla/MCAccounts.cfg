SPECIFICATION AccountsSpec
CONSTANTS
  u1 = u1  u2 = u2  u3 = u3
  i1 = i1  i2 = i2
  q1 = q1  q2 = q2
  Users = {u1, u2, u3}
  Invites = {i1, i2}
  Requests = {q1, q2}
  NoUser = NoUser
  NoOrg = NoOrg
  NoInvite = NoInvite
  Cloud = FALSE
  Open = TRUE
  Seeds <- MCSeeds
  MaxOrgs = 3
  MaxRequests = 3
  MaxBreaks = 1
  Tokens = {u1, u2, u3}
  Callers = {q1, q2}
  NoToken = NoToken
  MaxCalls = 5
  Tenants = {i1, i2}
  TrialKeys = {k1}
  PaidKeys = {k2}
  NoLicense = NoLicense
  NoTenant = NoTenant
  Deskers = {q1, q2}
  Cap = 1
  MaxAsks = 4
  MaxTurns = 1
  Skills = {i1, i2}
  Rules = {q1, q2}
  SkillServers = {v1}
  SkillConnectors = {c1}
  Workspace = Workspace
  NoSkill = NoSkill
  Askers = {q1, q2}
  MaxItems = 2
  MaxEdits = 2
  MaxAsked = 2
  OAuthClients = {i1, i2}
  Persons = {p1}
  Flows = {f1}
  Codes = {q1, q2}
  Trades = {1, 2}
  Nobody = Nobody
  NoRow = NoRow
INVARIANTS
  AccountsTypeOK
  ActiveOrgIsJoined
  UsedInviteJoined
  OneTimeWorksOnce
  RowTellsVerdict
  ActiveRulesWereApproved
PROPERTIES
  SelfDeletionLeavesAdmin
SYMMETRY MCSymmetry
CHECK_DEADLOCK FALSE
