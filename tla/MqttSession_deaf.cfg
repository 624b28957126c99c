SPECIFICATION Spec
CONSTANTS
  Scripts = {s1, s2}
  CommandFilter = cmd
  Filters = {a, cmd}
  HaPrefixes = {p1, p2}
  Apps = {clock}
  None = None
  MaxTopics = 2
  QueueCap = 2
  Interval = 2
  MaxEvents = 3
  MaxPackets = 2
INVARIANTS CommandsAreHeard
