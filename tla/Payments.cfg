SPECIFICATION FairSpec
CONSTANTS
  None = None
  Orders = {o1}
  Clients = {c1, c2}
  Handlers = {h1, h2}
  MaxFaults = 2
  Allowed = {"miscapture", "lost"}
INVARIANT PaymentsSafe
PROPERTY T2SparesPayers
PROPERTY ImplementsDeal
PROPERTY ChargesAreAnswered
PROPERTY PendingEnds
