SPECIFICATION Spec
CONSTANTS
  u1 = u1
  u2 = u2
  u3 = u3
  Users = {u1, u2, u3}
  Owner = u1
  MaxRequests = 5
  MaxInFlight = 2
INVARIANTS TypeOK HierarchyKept
PROPERTY MembershipSpec
CHECK_DEADLOCK FALSE
