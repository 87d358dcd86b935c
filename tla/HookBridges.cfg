SPECIFICATION Spec
CONSTANTS
  Lexemes <- SomeLexemes
  Commands <- SomeCommands
  Paths <- SomePaths
  IgnoreFiles <- SomeIgnoreFiles
  Savings <- OneSaving
  MaxCalls = 2
  MaxFresh = 1
INVARIANTS FlagsStayWithTheirTool RulesFireOnce RowsAreEarned AnswersAreBooked
CHECK_DEADLOCK FALSE
