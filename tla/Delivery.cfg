CONSTANTS
  c1 = c1
  c2 = c2
  r1 = r1
  Conns = {c1, c2}
  Rooms = {r1}
  RoomOf <- MCOneRoom
  None = None
  MaxMessages = 2
  SendCap = 1
SPECIFICATION FairSpec
INVARIANTS
  NoGap
  DeliveryInv
PROPERTIES
  DropsAreCounted
  EventuallyDelivered
  ConsumersStop
