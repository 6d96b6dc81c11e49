SPECIFICATION Spec
CONSTANTS
  p1 = p1
  p2 = p2
  p3 = p3
  Procs = {p1, p2, p3}
  Nobody = Nobody
  MaxWrites = 1
  Faults = {"crash", "io", "age"}
SYMMETRY Symmetry
INVARIANTS TypeOK ExclusiveUnlessUsurped
PROPERTIES Implements
CHECK_DEADLOCK FALSE
