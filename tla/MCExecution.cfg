SPECIFICATION Spec
CONSTANTS
  r1 = r1
  r2 = r2
  r3 = r3
  s1 = s1
  s2 = s2
  NoRun = NoRun
  Runs = {r1, r2, r3}
  Sessions = {s1}
  SessionOf <- OneSession
  Permits = 1
  ChannelLimit = 1
  MaxResponses = 0
  SessionsEmpty = TRUE
SYMMETRY Requests
INVARIANTS TypeOK LockIsHeld OverlapBounded ContainersHavePermits ShownRunExists
CHECK_DEADLOCK FALSE
