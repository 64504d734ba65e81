\* Two people update one shipment three times; deliveries are refused, die and stall.
SPECIFICATION FairSpec
CONSTANTS
  None = None
  Anon = Anon
  Customers = {b1}
  Mailers = {m1, m2}
  MaxMailAttempts = 3
  Refusals = 1
  MailDeaths = 1
  MailStalls = 1
  Sales = {o1}
  Shippers = {s1, s2}
  Targets = {"IN_TRANSIT", "DELIVERED"}
  MaxShipments = 1
  MaxUpdates = 3
  ShipDeaths = 1
  Requests = {}
  Clerks = {k1}
  MaxDsarAttempts = 3
  DsarDeaths = 0
  DsarStalls = 0
  MaxErasures = 0
INVARIANTS
  DeparturesAreTold
  SentOncePerFault
PROPERTIES
  BuyerIsWritten
CHECK_DEADLOCK FALSE
