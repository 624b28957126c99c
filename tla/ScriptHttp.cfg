SPECIFICATION FairSpec
CONSTANTS
  Scripts = {script}
  QueueCap = 2
  ResultCap = 1
  MaxPending = 2
  MaxId = 2
  MaxGen = 2
  None = None
INVARIANT HttpInv
PROPERTIES SlotsFreed ScriptHears OthersServed
