SPECIFICATION Spec
CONSTANTS
  User = {u1}
  Link = {l1}
  Secret = {s1, s2, s3}
  Req = {r1, r2}
  None = None
  MfaRequired = FALSE
  MaxEdits = 1
INVARIANT TypeOK
INVARIANT LinkKeepsItsWord
INVARIANT ChangeAnnounced
INVARIANT FactorWhole
