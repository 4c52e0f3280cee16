CONSTANTS
  c1 = c1
  c2 = c2
  Conns = {c1, c2}
  MaxSends = 3
  MaxMessages = 3
  MaxAttempts = 2
  BatchSize = 2
SPECIFICATION Spec
SYMMETRY ConnSymmetry
INVARIANTS
  HeardInOrder
  StoredWasHeard
  GracefulLosesNothing
  SendInv
