SPECIFICATION Spec
CONSTANTS
  old = old
  new = new
  big = big
  none = none
  ask = ask
  more = more
  Content <- Contents
  Tokens <- TokensFn
  TextTokens = 1
  MaxContextTokens = 4
  MinScore = 1
  NoText = none
  Handler = {h1, h2}
  Bodies <- ManyBodies
  Paths <- PathSet
  Texts <- TextSet
  Ranks <- RankSets
  Usages <- SomeUsages
  MaxRequests = 2
  MaxLines = 2
  MaxTime = 1
SYMMETRY Symmetry
INVARIANTS TypeOK AnsweredRequestsAreLogged OneRowPerAnswer CachedAnswersWereRead TrimKeepsTheQuery SummaryAddsUp ChosenFilesFillTheBudget
CHECK_DEADLOCK FALSE
