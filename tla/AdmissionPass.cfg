SPECIFICATION FairSpec
CONSTANTS
  None = None
  Users = {u1}
  Watchers = {u1}
  Requests = {r1, r2}
  Tps = 2
  TokenTTL = 2
  MaxClock = 5
  MaxStock = 2
  MaxFaults = 1
  Rate = 1
  Heartbeat = 2
  Closings = {1}
  MaxEdits = 0
  Cap = 0
  MaxDead = 1
INVARIANT PassMatchesOrder
INVARIANT BreakerIsFresh
PROPERTY WaitersAreTold
