SPECIFICATION FairSpec
CONSTANTS
  Scripts = {s1, s2}
  CommandFilter = cmd
  Filters = {a, b, c}
  HaPrefixes = {p1, p2}
  Apps = {clock}
  None = None
  MaxTopics = 2
  QueueCap = 2
  Interval = 2
  MaxEvents = 3
  MaxPackets = 2
INVARIANTS SessionInv NothingDropped RetainedIsCurrent OneAdvert
PROPERTIES CatchesUp
