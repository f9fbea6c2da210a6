SPECIFICATION FairSpec
CONSTANTS
  User = {u1, u2}
  Token = {t1, t2, t3}
  Sid = {s1}
  Req = {r1, r2}
  None = None
  AccountOps = {}
  Careful = {}
PROPERTY EveryRequestAnswered
PROPERTY TableRefinement
