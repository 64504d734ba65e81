\* One window with two calls at a time: an access token expires, the user logs out and in, a request may die.
SPECIFICATION FairSpec
CONSTANTS
  None = None
  Browsers = {b1}
  Windows = {n1}
  Calls = {c1, c2}
  MaxLogins = 2
  MaxExpiries = 1
  MaxLogouts = 1
  Deaths = 1
INVARIANTS
  TokensAreStored
  
PROPERTIES
  CallsSettle
CHECK_DEADLOCK FALSE
