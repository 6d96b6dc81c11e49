SPECIFICATION Spec
CONSTANTS
  Sessions = {s1, s2}
  NoSession = NoSession
  Requests = {r1, r2}
  Sweeper = Sweeper
  Max = 1
  Ops = {"open", "create", "delete", "look", "background", "cleanup"}
SYMMETRY Symmetry
INVARIANTS
  TypeOK
  CapacityHolds
  FoundIsLive
PROPERTIES
  EvictionSparesWork
CHECK_DEADLOCK FALSE
