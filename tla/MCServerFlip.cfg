SPECIFICATION Spec
CHECK_DEADLOCK FALSE
CONSTANTS
  Specs <- Flip
  Creds = {"p1"}
  Rotations = {}
  Faults = {}
  MaxGen = 3
  Tampered = {}
  Altered = {}
  MaxTrouble = 0
  Lag = FALSE
  Hasty = FALSE
PROPERTY EventuallyDelivered
