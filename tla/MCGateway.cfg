SPECIFICATION FairGatewaySpec
CONSTANTS
  u1 = u1
  c1 = c1
  proxy = proxy
  id1 = id1
  Users = {u1}
  Addresses = {c1, proxy}
  Trusted = {proxy}
  TrustProxy = TRUE
  SafeIds = {id1}
  Arrivals <- MCArrivals
  Keys <- MCKeys
  Limit = 1
  Window = 2
  Second = 2
  MaxTime = 3
  MaxRequests = 2
INVARIANTS OneStory CountsAgree Charged
PROPERTY Answered
CHECK_DEADLOCK FALSE
