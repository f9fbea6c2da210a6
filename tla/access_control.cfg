SPECIFICATION FairSpec
CONSTANTS
  u1 = u1
  staff = staff
  p1 = p1
  p2 = p2
  User = {a1, a2, u1}
  Role = {admin, staff}
  App = {p1, p2, p3}
  Code = {c1}
  Req = {r1, r2}
  Admin = admin
  None = None
  FirstAccounts <- MCAccounts
  FirstApps <- MCApps
  FirstRows <- MCRows
  MaxEdits = 2
INVARIANT TypeOK
INVARIANT RoleDecides
INVARIANT TrapNeverOpens
INVARIANT SpentCodeRefused
PROPERTY LastAdminLost
PROPERTY BlockClosesAccess
CHECK_DEADLOCK FALSE
