CONSTANTS
  h1 = h1
  h2 = h2
  r1 = r1
  r2 = r2
  Helpers = {h1, h2}
  Receipts = {r1, r2}
  Users = {100, 101}
  Verbs = {"txn"}
  Resolutions <- AllResolutions
  Faults = {}
  Nobody = Nobody
  Other = Other
  NoCid = NoCid
  MaxDbVer = 0
  MaxSrcVer = 0
SPECIFICATION Spec
SYMMETRY Symm
INVARIANTS
  TypeOK
  AuthorisedEffect
PROPERTIES
  ImplementsIntent
