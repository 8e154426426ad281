SPECIFICATION Spec
CONSTANTS
  Alphabet = {"x", "y"}
  Wide = {"y"}
  MaxDoc = 2
  MaxParts = 3
INVARIANTS TransformConverges TransformKeepsIntent EarlierInsertsFirst WrongCompositionIsRejected EditorAgrees EditOpsOptimal LimitLastsUntilIdle CursorFollowsText CursorsAgree
CHECK_DEADLOCK FALSE
