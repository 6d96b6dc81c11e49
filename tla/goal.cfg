SPECIFICATION Spec
CONSTANTS
  Turns = {t1, t2}
  NoTurn = NoTurn
  Prompts = {p1}
  NoPrompt = NoPrompt
  Groups = {g1}
  RequestModes = {"plan"}
  Ops = {"goal", "dispose", "gate", "interrupt"}
  SlowSettle = TRUE
  MaxQueue = 1
  MaxContinues = 1
  MaxContinuations = 1
SYMMETRY Symmetry
INVARIANTS
  TypeOK
  FullAccessIsWarranted
  StoppedGoalLeavesNothing
  DisposedIsQuiet
PROPERTIES
  GateBlocksStarts
CHECK_DEADLOCK FALSE
