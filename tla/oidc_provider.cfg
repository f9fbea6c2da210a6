SPECIFICATION ProviderSpec
CONSTANTS
  User = {u1, u2}
  Client = {c1, c2}
  Careful = {c1}
  Grant = {g1, g2, g3}
  Req = {r1, r2, r3}
  None = None
  AccessToken = {t1}
  Caller = {k1, k2, k3}
  NoToken = NoToken
  Ttl = 2
  MaxNow = 8
SYMMETRY Symmetry
INVARIANT TypeOK
INVARIANT SpentGrantRefused
INVARIANT GrantsStayBound
INVARIANT BlockedGetsNothing
INVARIANT CarefulSingleUse
PROPERTY BookRefinement
INVARIANT TokensTypeOK
PROPERTY RevokedUntilExpiry
