SPECIFICATION CastSpec
CONSTANTS
  Clients = {a1, a2, b1}
  Users = {u1, u2}
  User <- Pages
  u1 = u1
  u2 = u2
  Values = {"x", "y"}
  Cursor = "cursor"
  Doc <- Values
  Op <- WriteOps
  InitDoc <- AValue
  Size <- OneSize
  InLen <- OneSize
  OutLen <- OneSize
  Apply <- Write
  Transform <- LaterWins
  Compose <- Combine
  Edits <- Changes
  MaxDocChars = 1
  EditBudget <- OneOneTwo
  a1 = a1
  a2 = a2
  b1 = b1
INVARIANTS IInv NoGap SingleOutstanding BaseAvailable AgreesAtRest
CHECK_DEADLOCK FALSE
