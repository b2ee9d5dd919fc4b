SPECIFICATION Spec
CHECK_DEADLOCK FALSE
CONSTANTS
  Specs <- Rejected
  Creds = {"p1", "p2"}
  Rotations = {"p1", "p2"}
  Faults = {"err", "lost", "crash"}
  MaxGen = 3
  Tampered = {"job"}
  Altered = {}
  MaxTrouble = 2
  Lag = FALSE
  Hasty = FALSE
INVARIANT TypeOK
INVARIANT SchemaBeforeServer
INVARIANT JobAwaitsDatabase
PROPERTY ReadyNeverFails
