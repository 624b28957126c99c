SPECIFICATION FairSpec
CONSTANTS
  Scripts = {clock, weather}
  Sources = {plain, settings}
  Configurable = {settings}
  NoSource = NoSource
  NoStore = NoStore
  FlushInterval = 2
  MaxWrites = 2
  MaxConfigs = 1
  MaxUploads = 2
  MaxFails = 1
  MaxRestarts = 1
INVARIANTS IInv LossWindow RunsWhatIsStored
PROPERTIES StorageIsWriteBack WritesLand
