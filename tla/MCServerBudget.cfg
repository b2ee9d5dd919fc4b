SPECIFICATION Spec
CHECK_DEADLOCK FALSE
CONSTANTS
  Specs <- Budgets
  Creds = {"p1"}
  Rotations = {}
  Faults = {}
  MaxGen = 2
  Tampered = {}
  Altered = {}
  MaxTrouble = 0
  Lag = FALSE
  Hasty = FALSE
PROPERTY ReadyLoopCoversAll
