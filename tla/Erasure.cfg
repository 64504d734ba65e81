\* A request and an admin forget a buyer with or without a customer row, while an order ships.
SPECIFICATION FairSpec
CONSTANTS
  None = None
  Anon = Anon
  Customers = {b1, b2}
  Mailers = {m1}
  MaxMailAttempts = 3
  Refusals = 0
  MailDeaths = 0
  MailStalls = 0
  Sales = {o1, o2}
  Shippers = {s1}
  Targets = {"IN_TRANSIT"}
  MaxShipments = 1
  MaxUpdates = 1
  ShipDeaths = 0
  Requests = {r1}
  Clerks = {k1, k2}
  MaxDsarAttempts = 3
  DsarDeaths = 2
  DsarStalls = 1
  MaxErasures = 1
INVARIANTS
  ErasureIsComplete
  AuditedOnce
PROPERTIES
  DsarIsFulfilled
CHECK_DEADLOCK FALSE
