SPECIFICATION Spec
CONSTANTS
  blank = blank
  none = none
  noCall = noCall
  noReport = noReport
  noGrammar = noGrammar
  noTree = noTree
  t1 = t1
  t2 = t2
  s1 = s1
  Term <- Terms
  Blank = blank
  HalfWindow = 1
  MaxFiles = 4
  Heading = 1
  MaxLines = 2
  MaxMatchFiles = 2
  OtherRows <- SomeRows
  CommandLines <- SomeLines
  Baseline = 2
  MaxOthers = 2
  MaxReports = 1
  None = none
  NoReport = noReport
  NoGrammar = noGrammar
  NoTree = noTree
  NoCall = noCall
  Client = {c1, c2}
  Task <- Tasks
INVARIANTS ParserStartsOnce LimitsAreKept AnswersKeepTheirPart SummaryIsOfItsTime SessionsAddUp
PROPERTY CallsReturn
CHECK_DEADLOCK FALSE
