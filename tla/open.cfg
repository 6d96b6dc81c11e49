SPECIFICATION FairSpec
CONSTANTS
  Sessions = {s1, s2}
  NoSession = NoSession
  Requests = {r1, r2}
  Sweeper = Sweeper
  Max = 1
  Ops = {"open", "create", "delete", "look"}
PROPERTIES
  EveryoneReturns
CHECK_DEADLOCK FALSE
