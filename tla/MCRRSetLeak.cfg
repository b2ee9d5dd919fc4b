SPECIFICATION Spec
CHECK_DEADLOCK FALSE
CONSTANTS
  RRs = {r1, r2}
  Keys = {k1}
  KeyOf <- SameKey
  InZone = {r1, r2}
  Contents <- TheContents
  Canon <- TheCanon
  Values <- TwoValues
  Specs <- AllSpecs
  NoValue = none
  ZoneViews <- SteadyZone
  ServerViews <- SteadyServer
  MaxGen = 1
  MaxForeign = 0
  Faults = {}
  MaxFaults = 0
INVARIANTS
  NoLeakedRecord
