SPECIFICATION Spec
CONSTANTS
  u1 = u1
  Users = {u1}
  MaxTokens = 4
  MaxCalls = 3
INVARIANTS StaleRejected OneGoodToken
PROPERTIES SessionSpec DeadForGood
