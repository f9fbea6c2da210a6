SPECIFICATION Spec
CONSTANTS
  User = {u1}
  Client = {c1}
  Careful = {}
  Grant = {g1, g2, g3}
  Req = {r1, r2}
  None = None
SYMMETRY Symmetry
INVARIANT SingleUse
