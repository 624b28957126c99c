SPECIFICATION FairWindowSpec
CONSTANTS
  Grace = 30
  Timeout = 60
  RetryDelay = 8
  MaxRetries = 5
  NoJoin = NoJoin
INVARIANT WindowInv
PROPERTY RequestLeaves
