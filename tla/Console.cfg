\* Every page of the console over three rows, with two requests on their way, one write and one fault.
SPECIFICATION FairSpec
CONSTANTS
  None = None
  r1 = r1
  r2 = r2
  r3 = r3
  Order <- TwoRowsAndNew
  Slots = {k1, k2}
  Filters = {"all", "some"}
  Sizes = {1, 2}
  MaxClicks <- ClicksPerPage
  MaxWrites = 1
  MaxFaults = 1
INVARIANTS
  ListIsCurrent
  WindowWaits
PROPERTIES
  ProgressIsFollowed
CHECK_DEADLOCK FALSE
