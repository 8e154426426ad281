SPECIFICATION SteadySpec
CONSTANTS
  Clients = {c1, c2}
  Users = {u1, u2}
  User <- OwnPages
  u1 = u1
  u2 = u2
  Alphabet = {"y"}
  Doc <- TextDoc
  Op <- TextOp
  InitDoc <- OneChar
  Size <- TextSize
  InLen <- InputLength
  OutLen <- OutputLength
  Apply <- TextApply
  Transform <- TextTransform
  Compose <- TextCompose
  Edits <- TextEdits
  MaxDocChars = 2
  EditBudget <- TwoAndOne
  c1 = c1
  c2 = c2
INVARIANT AckMatches
CHECK_DEADLOCK FALSE
