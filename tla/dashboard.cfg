SPECIFICATION Spec
CONSTANTS
  p1 = p1
  p2 = p2
  Prompts <- TwoPrompts
  NoRequest = none
  Retain = 3
  Disturbances = {"late", "drop", "open", "expire", "restart"}
  MaxHappenings = 2
  MaxActivities = 1
CONSTRAINT TwoRequests
ACTION_CONSTRAINT Quiet
SYMMETRY Alike
INVARIANTS TypeOK StartedOnce  Complete InSync
CHECK_DEADLOCK FALSE
