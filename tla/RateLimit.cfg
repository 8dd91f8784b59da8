SPECIFICATION Spec
CONSTANTS
  k1 = k1
  Keys = {k1}
  Limit = 3
  Window = 6
  Second = 3
  MaxTime = 11
INVARIANTS SlidingLimit RetryAfterHonest
