CONSTANTS
  h1 = h1
  h2 = h2
  r1 = r1
  r2 = r2
  Helpers = {h1, h2}
  Receipts = {r1}
  Users = {100}
  Verbs = {"txn", "hold", "configure", "update"}
  Resolutions <- FewResolutions
  Faults = {"io", "broker"}
  Nobody = Nobody
  Other = Other
  NoCid = NoCid
  MaxDbVer = 0
  MaxSrcVer = 1
SPECIFICATION Spec
SYMMETRY Symm
CONSTRAINT RefreshInPlay
INVARIANTS
  PlanIsCurrent
  NotIssuedIsHonest
  TrustedRefusalIsUnspent
  SuccessIsReal
  SuccessIsHealthy
