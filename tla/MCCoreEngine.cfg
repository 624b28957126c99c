SPECIFICATION FairSpec
CONSTANTS
  time = time
  news = news
  clock = clock
  alarm = alarm
  NoApp = NoApp
  Builtins <- MCBuiltins
  Pushable <- MCPushable
  Scripts <- MCScripts
  Headless <- MCHeadless
  Arrangements <- MCArrangements
  Booted <- MCBooted
  Kinds <- MCKinds
  Dwell = 2
  Transition = 1
  ReadTime = 2
  Capacity = 2
  MaxMoves = 2
  MaxNotifs = 2
  Limit = 2
INVARIANT IInv
PROPERTIES NotCutShort KeepsShowing EveryAppIsShown QueueDrains
