SPECIFICATION Spec
CONSTANTS
  u1 = u1
  u2 = u2
  t1 = t1
  Users = {u1, u2}
  Owner = u1
  Viewer = u2
  Tasks = {t1}
  Comments <- MCComments
  Earlier = 2
  BatchSize = 1
  MaxRequests = 2
  MaxInFlight = 2
  MaxChanges = 1
INVARIANTS CommentTrail LogKept Justified OverviewFits
CHECK_DEADLOCK FALSE
