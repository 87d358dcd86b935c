SPECIFICATION EventsSpec
CONSTANTS
  s1 = s1
  s2 = s2
  m1 = m1
  m2 = m2
  m3 = m3
  Session <- TwoSessions
  Message <- ThreeMessages
  Home <- HomeOf
  Saving <- SavingOf
  Handler = {h1, h2}
  UserTitle = {u1, u2}
  Blank = Blank
  MaxOther = 1
  None = None
SYMMETRY Symmetry
INVARIANTS ToastsAddUp TitleNeverOverstates
PROPERTY TitlesSpoilOnlyByRace
CHECK_DEADLOCK FALSE
