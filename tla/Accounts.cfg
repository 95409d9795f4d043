SPECIFICATION FairSpec
CONSTANTS
  Users = {u1, u2}
  Procs = {p1, p2}
  MaxRequests = 3
  FailureLimit = 1
  Worker = w
  NationalIds = {n1, n2}
  Visitors = {u1}
  Batch = 1
  Owner = u1
  Buyer = u2
  FirstId = n1
CONSTRAINT Bounded
INVARIANT LockoutBoundsGuesses
INVARIANT RevocationIsSound
INVARIANT PiiIsSound
PROPERTY GraceRunsOnce
PROPERTY RotationEnds
CHECK_DEADLOCK FALSE
