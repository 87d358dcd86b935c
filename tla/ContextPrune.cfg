SPECIFICATION PruneSpec
CONSTANTS
  read = read
  bash = bash
  Session = {s}
  Key <- ReadAndBash
  NameLength <- NameLengths
  IdLength = 24
  Text <- ThreeTexts
  MaxMessages = 2
  MaxCalls = 3
  MaxTime = 1
INVARIANT PlaceholdersLeadOn
PROPERTY BookedIsSaved
CHECK_DEADLOCK FALSE
