SPECIFICATION FairSpec
CONSTANTS
  r1 = r1
  r2 = r2
  r3 = r3
  s1 = s1
  s2 = s2
  NoRun = NoRun
  Runs = {r1, r2}
  Sessions = {s1}
  SessionOf <- TwoRuns
  Permits = 1
  ChannelLimit = 1
  MaxResponses = 2
  SessionsEmpty = FALSE
PROPERTY RequestsEnd
CHECK_DEADLOCK FALSE
