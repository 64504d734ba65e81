\* Two tabs of one browser on one product whose price and stock change; four clicks in all.
SPECIFICATION Spec
CONSTANTS
  None = None
  Variants = {v1}
  Prices = {1, 2}
  InitialPrices = {1}
  MaxStock = 2
  Tokens = {k1, k2}
  Stale = Stale
  Slots = {x1, x2}
  MaxOffers = 1
  Tabs = {t1, t2}
  Terms = {q1, q2}
  Products = {p1}
  OrderNumbers = {n1}
  MaxClicks = 4
INVARIANTS
  LinesWereOffered
  PagesTellTheTruth
  WaitsForAnAnswer
SYMMETRY ShopSymmetry
CHECK_DEADLOCK FALSE
