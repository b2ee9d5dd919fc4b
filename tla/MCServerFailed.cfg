SPECIFICATION Spec
CHECK_DEADLOCK FALSE
CONSTANTS
  Specs <- Corrected
  Creds = {"p1"}
  Rotations = {}
  Faults = {}
  MaxGen = 2
  Tampered = {}
  Altered = {}
  MaxTrouble = 0
  Lag = FALSE
  Hasty = FALSE
PROPERTY FailedUntilEdited
