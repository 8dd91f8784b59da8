SPECIFICATION Spec
CONSTANTS
  u1 = u1
  u2 = u2
  t1 = t1
  Users = {u1, u2}
  Owner = u1
  Tasks = {t1}
  MaxRequests = 3
  MaxInFlight = 2
PROPERTY TerminalSealed
