SPECIFICATION FairClientSpec
CONSTANTS
  User = u1
  Users = {u1}
  t1 = t1
  t2 = t2
  Tabs = {t1, t2}
  MaxTokens = 3
  MaxCalls = 2
  MaxRequests = 4
  MaxExpired = 1
INVARIANTS FrugalRefresh StoredGood LogoutEnds
PROPERTY Settles
CHECK_DEADLOCK FALSE
