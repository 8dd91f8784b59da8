SPECIFICATION Spec
CONSTANTS
  u1 = u1
  u2 = u2
  t1 = t1
  Users = {u1, u2}
  Owner = u1
  Tasks = {t1}
  MaxRequests = 4
  MaxInFlight = 2
INVARIANTS TypeOK AuditTrail NoticeBacked AssignedOnce NoGhostAssignee AuditChain
PROPERTY LifecycleSpec
