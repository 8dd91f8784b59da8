SPECIFICATION Spec
CONSTANTS
  Default = "main"
  Slugs = {"main", "acme", "new"}
  Users = {"a1", "a2", "n1", "o1"}
  Home <- MCHome
  Admins = {"a1", "a2", "o1"}
  Requests <- MCRequests
  MaxRequests = 3
  MaxInFlight = 2
INVARIANTS TenantsApart AdminRemains Replaced
PROPERTY TenantLife
CHECK_DEADLOCK FALSE
