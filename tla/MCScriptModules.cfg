SPECIFICATION FairSpec
CONSTANTS
  Names <- MCNames
  SourcesOf <- MCSourcesOf
  None = None
  ReloadDepth = 3
  Limit = 4
  MaxRefusals = 1
  MaxRestarts = 1
INVARIANTS ModulesInv ImportersAreFresh RunsWhatIsSaved
PROPERTIES ReloadEnds
