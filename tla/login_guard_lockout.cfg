SPECIFICATION Spec
CONSTANTS
  Ip = {i1, i2}
  Req = {r1, r2}
  MaxRequests = 2
  Window = 2
  MaxFailed = 2
  Lockout = 3
SYMMETRY Symmetry
INVARIANT LockoutEnforced
