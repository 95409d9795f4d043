SPECIFICATION MCSpec
CONSTANTS
  k1 = k1
  k2 = k2
  None = None
  Keys = {k1, k2}
  Qty <- OneTwo
  Capacity = 3
  Clients = {c1, c2}
  Relays = {v1}
  MaxFaults = 1
SYMMETRY AnyClient
INVARIANT SeatsAreSound
INVARIANT SeatDebtIsRecorded
PROPERTY ImplementsSeatMap
