\* Payments and refunds are reflected although an attempt, a request and a job stall on the way.
SPECIFICATION FairSpec
CONSTANTS
  None = None
  Orders = {o1}
  Carts = {c1}
  Locations = {l1}
  Qty = 2
  Price = 1
  MaxRefunds = 2
  DashboardRefunds = 0
  CheckoutFaults = 0
  Workers = {w1}
  MaxAttempts = 3
  WorkerFaults = 1
  Stalls = 0
  Evictions = 0
  MarkerLosses = 0
  Admins = {a1, a2}
  RequestFaults = 1
  ReturnIds = {}
  Clerks = {}
  ClerkFaults = 0
  Keepers = {}
  Deltas = {}
  Types = {}
  MaxRequests = 0
  InitialStock <- OneEach
PROPERTIES
  PaymentIsCaptured
  
  RefundIsReflected
CHECK_DEADLOCK FALSE
