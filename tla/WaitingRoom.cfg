SPECIFICATION Spec
CONSTANTS
  None = None
  Users = {u1, u2}
  Watchers = {u1}
  Requests = {r1}
  Tps = 2
  TokenTTL = 1
  MaxClock = 4
  MaxStock = 1
  MaxFaults = 1
  Rate = 2
  Heartbeat = 2
  Closings = {0, 1}
  MaxEdits = 1
  Cap = 0
  MaxDead = 0
INVARIANT StreamsAreSound
INVARIANT PaceIsKept
CONSTRAINT Bounded
