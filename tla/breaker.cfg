SPECIFICATION BreakerFairSpec
CONSTANTS
  c1 = c1
  c2 = c2
  c3 = c3
  Callers = {c1, c2, c3}
  FailureThreshold = 2
  Window = 3
  Cooldown = 2
PROPERTIES
  TripsAreEarned
  Recovers

