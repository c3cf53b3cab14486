SPECIFICATION Spec
CONSTANTS
  manager = manager
  officer = officer
  w1 = w1
  w2 = w2
  s1 = s1
  Reviewers = {manager, officer}
  RoleOf <- Officers
  Writers = {w1, w2}
  Signals = {s1}
  Files <- SampleFiles
  MaxRows = 2
  MaxFaults = 1
INVARIANTS
  GrantsMatchTheFile
  DecisionsAreLogged
  WriterIsIdempotent
PROPERTIES
  DecisionsSettle
CHECK_DEADLOCK FALSE
