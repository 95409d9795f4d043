SPECIFICATION MCSpec
CONSTANTS
  p1 = p1
  p2 = p2
  Events <- TwoEvents
  Mixes <- GoodAndPoison
  Passes = {p1, p2}
  Lookahead = 2
  Retention = 1
  MonthLength = 2
  MaxClock = 4
  MaxFaults = 2
  MaxLen = 1
  Batch = 2
  MaxDeliveries = 2
INVARIANT AuditIsSound
INVARIANT DuplicatesNeedFaults
INVARIANT DefaultIsAlarm
PROPERTY RetentionIsKept
PROPERTY EventsLand
PROPERTY OldRowsGo
