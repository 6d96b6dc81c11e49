SPECIFICATION Spec
CONSTANTS
  r1 = r1
  r2 = r2
  p1 = p1
  Runtimes = {r1, r2}
  Pids = {p1}
  Starts = 2
  Stranger = stranger
  None = none
SYMMETRY Alike
INVARIANTS TypeOK EndedIsGone
PROPERTIES StrangersAreSpared ListingsNotice
CONSTRAINT Apart
CHECK_DEADLOCK FALSE
