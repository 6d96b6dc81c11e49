SPECIFICATION Spec
CONSTANTS
  Turns = {t1, t2}
  NoTurn = NoTurn
  Prompts = {p1}
  NoPrompt = NoPrompt
  Groups = {g1, g2}
  RequestModes = {"plan", "fullAccess"}
  Ops = {"wake", "interrupt", "dispose", "cancel"}
  SlowSettle = FALSE
  MaxQueue = 2
  MaxContinues = 1
  MaxContinuations = 1
PROPERTIES
  QueuedPromptsMove
  QuarantineEnds
  HandoffsAreConsumed
CHECK_DEADLOCK FALSE
