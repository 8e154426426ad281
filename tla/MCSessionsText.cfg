SPECIFICATION Spec
CONSTANTS
  p1 = p1
  p2 = p2
  NoUser = NoUser
  Background = Background
  Pages = {p1, p2}
  UserIds = {1, 2}
  MaxJoins = 2
  MaxEdits = 1
SYMMETRY Opens
INVARIANTS TextSurvives
CHECK_DEADLOCK FALSE
