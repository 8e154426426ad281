SPECIFICATION FairSpec
CONSTANTS
  Plans <- SmallPlans
  Limit = 1
  RunnerCapacity = 1
  AppCapacity = 1
  Cut = Cut
INVARIANTS IInv AssertionHolds FailureHasCause
PROPERTIES StreamEnds ImplementsOutputStream
CHECK_DEADLOCK FALSE
