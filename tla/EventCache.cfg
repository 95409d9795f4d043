SPECIFICATION MCSpec
CONSTANTS
  p1 = p1
  p2 = p2
  r1 = r1
  r2 = r2
  r3 = r3
  t1 = t1
  t2 = t2
  t3 = t3
  a1 = a1
  None = None
  Orphan = Orphan
  Event = Event
  Zones = {z1}
  Admins = {a1, a2}
  MaxVersion = 2
  MaxFaults = 1
  Procs = {p1, p2}
  Readers = {r1, r3}
  Tasks = {t1, t2, t3}
  ProcOf <- TwoProcesses
INVARIANT CacheIsSound
PROPERTY NoLostUpdate
PROPERTY ReadersAnswered
PROPERTY CacheConverges
