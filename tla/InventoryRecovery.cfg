SPECIFICATION FairSpec
CONSTANTS
  k1 = k1
  k2 = k2
  alice = alice
  Keys = {k1, k2}
  Users = {alice}
  UserOf <- AllAlice
  Qty <- OneEach
  Total = 1
  Limit = 1
  MaxLosses = 1
INVARIANT RestIsExact
INVARIANT DriftHasCause
PROPERTY DriftIsSeen
CHECK_DEADLOCK FALSE
