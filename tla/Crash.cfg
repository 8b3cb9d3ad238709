CONSTANTS
  h1 = h1
  h2 = h2
  r1 = r1
  r2 = r2
  Helpers = {h1, h2}
  Receipts = {r1, r2}
  Users = {100}
  Verbs = {"txn"}
  Resolutions <- FewResolutions
  Faults = {"kill"}
  Nobody = Nobody
  Other = Other
  NoCid = NoCid
  MaxDbVer = 1
  MaxSrcVer = 0
SPECIFICATION Spec
SYMMETRY Symm
INVARIANTS
  AuthorisedEffect
  PlanIsCurrent
PROPERTIES
  FrontendProtectsDb
