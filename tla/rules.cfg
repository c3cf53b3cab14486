SPECIFICATION RulesSpec
CONSTANTS
  u1 = u1
  u2 = u2
  Users = {u1, u2}
  MaxRows = 3
  MaxTime = 3
  RatifyWithin = 0
  ShadowFor = 1
INVARIANTS
  TidyUnlessDisturbed
  LookupIsHistory
  EmergenciesEnd
SYMMETRY UserSymmetry
CHECK_DEADLOCK FALSE
