SPECIFICATION BrowserSpec
CONSTANTS
  MaxSignIns = 3
  Profile <- MCProfile
  MaxWebClicks = 0
  MaxWebFaults = 1
  NoSession = NoSession
  NoAccount = NoAccount
INVARIANT NewUserIsWelcomed
CHECK_DEADLOCK FALSE
