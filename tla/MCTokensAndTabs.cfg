SPECIFICATION TabsSpec
CONSTANTS
  k1 = k1
  k2 = k2
  NoCall = NoCall
  Calls = {k1, k2}
  MaxTokens = 3
  CronRuns = {k1, k2}
  Batches = {1, 2}
  TrialEnds = 3
  LastDay = 3
  MaxCronRuns <- MCMaxCronRuns
  NotRunning = NotRunning
  NoBatch = NoBatch
  MaxSignIns = 3
  Profile <- MCProfile
  MaxWebClicks = 3
  MaxWebFaults = 1
  NoSession = NoSession
  NoAccount = NoAccount
SYMMETRY MCSymmetry
INVARIANTS
  MutexIsRefresh
  StoredRefreshAccepted
  TabsTypeOK
  CronsActOnce
  SessionIsOfOneLogin
PROPERTY ExpiredOnlyAfterFailure
CHECK_DEADLOCK FALSE
