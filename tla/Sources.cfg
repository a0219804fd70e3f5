SPECIFICATION Spec
CONSTANTS
  p1 = p1 p2 = p2 d1 = d1
  Uploads = {u1, u2, u3}
  Pages = {p1, p2}
  Databases = {d1}
  LinkLists <- MCLinkLists
  Lengths = {1, 5}
  MaxPerSession = 2
  MaxPages = 1
  MaxSessionText = 6
  Target = 2
  Tolerated = 3
  Mark = 1
  Budget = 6
  MaxUtterances = 2
INVARIANTS WithinLimits JudgedAllRead
PROPERTY CondensedOverBudget
SYMMETRY Symmetry
CHECK_DEADLOCK FALSE
