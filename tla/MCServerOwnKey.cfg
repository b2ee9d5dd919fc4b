SPECIFICATION Spec
CHECK_DEADLOCK FALSE
CONSTANTS
  Specs <- OwnKey
  Creds = {"p1"}
  Rotations = {}
  Faults = {}
  MaxGen = 1
  Tampered = {}
  Altered = {}
  MaxTrouble = 0
  Lag = FALSE
  Hasty = FALSE
PROPERTY EventuallyServing
