SPECIFICATION Spec
CONSTANTS
  User = {u1}
  Token = {t1, t2, t3}
  Careful = {t1}
  Sid = {s1}
  Req = {r1, r2}
  None = None
  AccountOps = {"block", "unblock", "disableMfa"}
SYMMETRY Symmetry
INVARIANT SpentCredentialRefused
INVARIANT BlockedCannotRenew
INVARIANT SecondFactorRequired
INVARIANT OneLivePerLogin
PROPERTY ChainRefinement
