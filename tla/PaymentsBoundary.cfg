SPECIFICATION Spec
CONSTANTS
  None = None
  Orders = {o1}
  Clients = {c1}
  Handlers = {h1}
  MaxFaults = 0
  Allowed = {}
PROPERTY ExpirySparesPayers
