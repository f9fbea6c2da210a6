SPECIFICATION FairSpec
CONSTANTS
  User = {u1, u2}
  App = {i1}
  None = None
  MaxLogins = 2
  MaxStale = 1
  MaxUpsets = 1
  MaxIpc = 1
INVARIANT TypeOK
INVARIANT WipeJustified
PROPERTY LoggedOutStays
PROPERTY SessionReachesApps
PROPERTY LogoutReachesApps
PROPERTY BlockReachesDesktop
CHECK_DEADLOCK FALSE
