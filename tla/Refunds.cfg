\* Two admin refunds of one order; two workers.
SPECIFICATION Spec
CONSTANTS
  None = None
  Orders = {o1}
  Carts = {c1}
  Locations = {l1}
  Qty = 2
  Price = 1
  MaxRefunds = 2
  DashboardRefunds = 0
  CheckoutFaults = 0
  Workers = {w1, w2}
  MaxAttempts = 3
  WorkerFaults = 0
  Stalls = 0
  Evictions = 0
  MarkerLosses = 0
  Admins = {a1, a2}
  RequestFaults = 1
  ReturnIds = {}
  Clerks = {}
  ClerkFaults = 0
  Keepers = {}
  Deltas = {}
  Types = {}
  MaxRequests = 0
  InitialStock <- OneEach
INVARIANTS
  RefundsAreBacked
  SettledRecorded
PROPERTIES
  
  BooksFollowMoney
CHECK_DEADLOCK FALSE
