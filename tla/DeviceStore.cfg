SPECIFICATION FairSpec
CONSTANTS
  Values = {factory, new}
  Default = factory
  NoFile = NoFile
  Part = Part
  SaveDelay = 2
  Fade = 2
  MaxEvents = 3
  MaxRestores = 1
INVARIANTS StoreInv ToldIsStored
PROPERTIES RequestRuns
