SPECIFICATION FairSpec
CONSTANTS
  Tls = FALSE
  ReresolveAfter = 3
INVARIANT LinkSafe
PROPERTIES QueryEnds Recovers
