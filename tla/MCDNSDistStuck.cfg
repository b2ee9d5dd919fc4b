SPECIFICATION Spec
CHECK_DEADLOCK FALSE
CONSTANTS
  Backends = {"b1", "b2"}
  Specs <- JustPlain
  Downable = {"b1"}
  Lasting = {"b1"}
  Faults = {}
  Tampered = {}
  MaxGen = 1
  MaxTrouble = 2
PROPERTY AddressesFollow
