SPECIFICATION CommandSpec
CONSTANTS
  setting = setting
  Process = {p1, p2}
  Target <- OpenCodeTargets
  Setting <- OneSetting
  Shape <- EachShape
  Edited <- SomeEdits
  Missing = Missing
  Truncated = Truncated
  Typo = Typo
  Torn = Torn
  Ours = Ours
  Older = Older
  Removes = TRUE
  MaxRuns = 1
  MaxEdits = 1
  MaxCrashes = 1
SYMMETRY Symmetry
INVARIANTS UserPartsStay TypoStopsEverything DoneMeansConfigured SecondRunIsNoOp PluginComesBack
CHECK_DEADLOCK FALSE
