SPECIFICATION Spec
CONSTANTS
  Workers = {w1}
  Slots = {s1}
  Paths = {p1, p2}
  Themes = {}
  MaxRounds = 1
  MaxIterations = 1
  UiAnswers = {"no"}
  MaxAsked = 1
  MaxResumes = 0
  MaxDocs = 3
  MaxMockups = 1
PROPERTY NoElementReverts
