CONSTANTS
  c1 = c1
  c2 = c2
  c3 = c3
  c4 = c4
  c5 = c5
  r1 = r1
  r2 = r2
  Conns = {c1, c2}
  Rooms = {r1, r2}
  RoomOf <- MCRoomOf
  None = None
SPECIFICATION SubSpec
INVARIANTS
  OneSubscriptionPerRoom
