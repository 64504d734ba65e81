\* Every component at once: types, the stock ledger and the returns desk, next to a dashboard refund and a stalled job.
SPECIFICATION Spec
CONSTANTS
  None = None
  Orders = {o1}
  Carts = {c1}
  Locations = {l1}
  Qty = 1
  Price = 1
  MaxRefunds = 1
  DashboardRefunds = 1
  CheckoutFaults = 1
  Workers = {w1}
  MaxAttempts = 3
  WorkerFaults = 0
  Stalls = 1
  Evictions = 0
  MarkerLosses = 0
  Admins = {a1}
  RequestFaults = 1
  ReturnIds = {r1}
  Clerks = {k1}
  ClerkFaults = 1
  Keepers = {x1}
  Deltas <- UpAndDown
  Types = {"RECEIVE", "ADJUSTMENT"}
  MaxRequests = 1
  InitialStock <- NoStock
INVARIANTS
  TypeOK
  LedgerBalanced
  
CHECK_DEADLOCK FALSE
