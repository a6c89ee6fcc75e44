SPECIFICATION FairSpec
CONSTANTS
  Named = {"hb", "bellevue"}
  MaxFixes = 3
INVARIANTS
  DevicePlaceIsDated
PROPERTIES
  AgreeInForeground
  NoPromptUnasked
  WaitEnds
