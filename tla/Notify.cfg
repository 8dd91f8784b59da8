SPECIFICATION FairSpec
CONSTANTS
  Messages = {m1, m2, m3, m4}
  MaxRetries = 2
  MaxSlips = 1
  RedisFails = TRUE
INVARIANTS TypeOK OneCopyPerSlip NotLost
PROPERTY Stored
CHECK_DEADLOCK FALSE
