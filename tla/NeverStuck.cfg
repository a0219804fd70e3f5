SPECIFICATION Spec
CONSTANTS
  Workers = {w1}
  Slots = {s1}
  Paths = {p1}
  Themes = {}
  MaxRounds = 1
  MaxIterations = 1
  UiAnswers = {"no"}
  MaxAsked = 2
  MaxResumes = 0
  MaxDocs = 2
  MaxMockups = 1
INVARIANT NeverStuck
