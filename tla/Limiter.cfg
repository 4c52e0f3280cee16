CONSTANTS
  k1 = k1
  k2 = k2
  k3 = k3
  k4 = k4
  u1 = u1
  u2 = u2
  i1 = i1
  i2 = i2
  Calls = {k1, k2, k3, k4}
  UserOf <- MCUserOf
  IPOf <- MCIPOf
  Settings <- MCSettings
  Fallback <- MCFallback
  MaxAttempts = 2
  MaxTime = 3
SPECIFICATION Spec
INVARIANTS
  CountsInv
  BurstBound
  RetryAfterSuffices
PROPERTIES
  RejectionsAreEarned
