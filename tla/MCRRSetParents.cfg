SPECIFICATION Spec
CHECK_DEADLOCK FALSE
CONSTANTS
  RRs = {r1}
  Keys = {r1, k2}
  KeyOf <- OwnKey
  InZone = {r1}
  Contents <- TheContents
  Canon <- TheCanon
  Values <- ThreeValues
  Specs <- AllSpecs
  NoValue = none
  ZoneViews <- ChangingZone
  ServerViews <- ChangingServer
  MaxGen = 1
  MaxForeign = 2
  Faults = {"late", "err", "crash"}
  MaxFaults = 1
INVARIANTS TypeOK
PROPERTIES
  OthersRecordsUntouched
  EventuallyApplied
  DeletionCompletes
  SerialSettles
