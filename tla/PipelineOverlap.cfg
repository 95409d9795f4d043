SPECIFICATION Spec
CONSTANTS
  k1 = k1
  k2 = k2
  alice = alice
  None = None
  Keys = {k1}
  Users = {alice}
  UserOf <- OnlyAlice
  Qty <- OneTicket
  Total = 1
  Limit = 1
  Consumers = {c1}
  Reclaimers = {r1}
  Relays = {v1}
  MaxDeliveries = 2
  MaxAttempts = 1
  MaxFaults = 1
INVARIANT DeadLetterNeverOversells
