\* Two orders from two carts; webhooks at least once; one worker that may fail.
SPECIFICATION Spec
CONSTANTS
  None = None
  Orders = {o1, o2}
  Carts = {c1, c2}
  Locations = {l1, l2}
  Qty = 2
  Price = 1
  MaxRefunds = 0
  DashboardRefunds = 0
  CheckoutFaults = 1
  Workers = {w1}
  MaxAttempts = 3
  WorkerFaults = 1
  Stalls = 0
  Evictions = 1
  MarkerLosses = 1
  Admins = {}
  RequestFaults = 0
  ReturnIds = {}
  Clerks = {}
  ClerkFaults = 0
  Keepers = {}
  Deltas = {}
  Types = {}
  MaxRequests = 0
  InitialStock <- TwoShelves
INVARIANTS
  PayableOrderExists
  SoldOnce
  
  SettledAgrees
  
PROPERTIES
  PaidStaysPaid
SYMMETRY CaptureSymmetry
CHECK_DEADLOCK FALSE
