SPECIFICATION FairSpec
CONSTANTS
  Workers = {w1, w2}
  Slots = {s1, s2}
  Paths = {p1}
  Themes = {}
  MaxRounds = 2
  MaxIterations = 1
  UiAnswers = {"no"}
  MaxAsked = 6
  MaxResumes = 1
  MaxDocs = 2
  MaxMockups = 1
INVARIANT RoundsWithinBudget
PROPERTIES RoundSpentOnNewWords HoldIsEarned DeliveredWithoutGap
PROPERTIES WordsAreServed JourneySpec
