SPECIFICATION Spec
CONSTANTS
  Lexemes <- SomeLexemes
  Commands <- Misplaced
  Paths <- NoPaths
  IgnoreFiles <- NoIgnoreFile
  Savings <- OneSaving
  MaxCalls = 1
  MaxFresh = 1
INVARIANTS NoFlagIsMisplaced
CHECK_DEADLOCK FALSE
