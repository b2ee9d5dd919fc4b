SPECIFICATION Spec
CHECK_DEADLOCK FALSE
CONSTANTS
  Specs <- Exposed
  Creds = {"p1"}
  Rotations = {"p2"}
  Faults = {"err", "lost", "crash"}
  MaxGen = 2
  Tampered = {"deployment"}
  Altered = {"deployment", "apikey", "backend"}
  MaxTrouble = 1
  Lag = TRUE
  Hasty = FALSE
PROPERTY EventuallyServing
PROPERTY EventuallyDelivered
PROPERTY DeletionCompletes
