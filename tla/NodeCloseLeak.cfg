CONSTANTS
  c1 = c1
  c2 = c2
  c3 = c3
  r1 = r1
  r2 = r2
  Conns = {c1, c2}
  Rooms = {r1}
  RoomOf <- MCOneRoom
  None = None
SPECIFICATION Spec
INVARIANTS
  CloseEndsAllSubscriptions
