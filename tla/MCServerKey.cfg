SPECIFICATION Spec
CHECK_DEADLOCK FALSE
CONSTANTS
  Specs <- OneSpec
  Creds = {"p1"}
  Rotations = {}
  Faults = {}
  MaxGen = 1
  Tampered = {"apikey"}
  Altered = {}
  MaxTrouble = 1
  Lag = FALSE
  Hasty = FALSE
PROPERTY KeyRegenerated
