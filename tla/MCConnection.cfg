SPECIFICATION Spec
CONSTANTS
  a1 = a1
  a2 = a2
  b1 = b1
  ann = ann
  bob = bob
  None = None
  Users = {ann, bob}
  Conns = {a1, b1}
  UserOf <- TwoUsers
  Configs = {"c", "d"}
  InitConfig = "c"
  Capacity = 3
  Budgets <- Changes
INVARIANTS IInv OrderedUnlessOverlapped NothingMissed ConfigAgrees
CHECK_DEADLOCK FALSE
