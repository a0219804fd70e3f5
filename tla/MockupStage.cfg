SPECIFICATION FairSpec
CONSTANTS
  Workers = {w1, w2}
  Slots = {s1}
  Paths = {p1}
  Themes = {}
  MaxRounds = 1
  MaxIterations = 1
  UiAnswers = {"yes", "no"}
  MaxAsked = 1
  MaxResumes = 0
  MaxDocs = 3
  MaxMockups = 3
INVARIANTS StatusMatchesStore IterationsWithinBudget
PROPERTIES ClosedMockupFrozen ApprovalIsAbsorbed
PROPERTIES WordsAreServed JourneySpec
