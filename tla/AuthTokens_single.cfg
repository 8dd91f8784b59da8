SPECIFICATION Spec
CONSTANTS
  u1 = u1
  u2 = u2
  Users = {u1}
  MaxTokens = 3
  MaxCalls = 3
INVARIANT SingleUse
