SPECIFICATION Spec
CONSTANTS
  User = {u1}
  Token = {t1, t2}
  Sid = {s1}
  Req = {r1, r2}
  None = None
  AccountOps = {"block"}
  Careful = {}
SYMMETRY Symmetry
INVARIANT BlockedCannotLogin
