SPECIFICATION Spec
CONSTANTS
  c1 = c1
  c2 = c2
  c3 = c3
  Server = Server
  NoTime = NoTime
  Clients = {c1, c2}
  Delays = {0, 2}
  MaxTime = 2
  MaxEdits = 3
INVARIANTS RunsAgree
CHECK_DEADLOCK FALSE
