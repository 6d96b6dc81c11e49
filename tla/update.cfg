SPECIFICATION Spec
CONSTANTS
  d1 = d1
  d2 = d2
  Dashboards <- TwoDashboards
  None = none
  MaxHappenings = 2
SYMMETRY Alike
INVARIANTS TypeOK JournalCoversDisk HalfAppliedIsLocked SucceedsWhole
CHECK_DEADLOCK FALSE
