SPECIFICATION FairSpec
CONSTANTS
  Ip = {i1}
  Req = {r1, r2}
  MaxRequests = 2
  Window = 3
  MaxFailed = 2
  Lockout = 1
INVARIANT AttemptsBounded
PROPERTY WindowReopens
PROPERTY WindowArmedOnce
