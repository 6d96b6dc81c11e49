SPECIFICATION Spec
CONSTANTS
  Turns = {t1, t2}
  NoTurn = NoTurn
  Prompts = {p1, p2, p3}
  NoPrompt = NoPrompt
  Groups = {g1}
  RequestModes = {"plan", "fullAccess"}
  Ops = {"interrupt", "cancel", "guide", "schedule", "ask", "config"}
  SlowSettle = FALSE
  MaxQueue = 2
  MaxContinues = 1
  MaxContinuations = 1
SYMMETRY Symmetry
INVARIANTS OneLiveRun NoPromptLost EndIsUnderWay
