SPECIFICATION FairSpec
CONSTANTS
  k1 = k1
  k2 = k2
  alice = alice
  None = None
  Keys = {k1, k2}
  Users = {alice}
  UserOf <- AllAlice
  Qty <- OneAndTwo
  Total = 3
  Limit = 2
  Consumers = {c1}
  Reclaimers = {r1}
  Relays = {v1, v2}
  MaxDeliveries = 2
  MaxAttempts = 3
  MaxFaults = 3
CONSTRAINT Bounded
INVARIANT ReturnsAreSound
INVARIANT CountersAreSound
PROPERTY PollIsFinal
PROPERTY ImplementsSale
PROPERTY IntentsSettle
PROPERTY DebtsArePaid
