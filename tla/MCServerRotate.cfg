SPECIFICATION Spec
CHECK_DEADLOCK FALSE
CONSTANTS
  Specs <- OneSpec
  Creds = {"p1", "p2"}
  Rotations = {"p1", "p2"}
  Faults = {}
  MaxGen = 1
  Tampered = {}
  Altered = {}
  MaxTrouble = 1
  Lag = FALSE
  Hasty = FALSE
PROPERTY CredentialsRepublished
