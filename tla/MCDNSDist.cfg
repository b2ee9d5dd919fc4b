SPECIFICATION Spec
CHECK_DEADLOCK FALSE
CONSTANTS
  Backends = {"b1"}
  Specs <- AllSpecs
  Downable = {"b1"}
  Lasting = {}
  Faults = {"err", "lost", "crash"}
  Tampered = {"deployment"}
  MaxGen = 2
  MaxTrouble = 1
INVARIANT TypeOK
INVARIANT ReadyMeansRendered
PROPERTY EventuallyCurrent
PROPERTY NothingLeft
