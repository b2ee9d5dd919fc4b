SPECIFICATION Spec
CHECK_DEADLOCK FALSE
CONSTANTS
  RRs = {r1, r2}
  Keys = {k1}
  KeyOf <- SameKey
  InZone = {r1, r2}
  Contents <- TheContents
  Canon <- TheCanon
  Values <- TwoValues
  Specs <- DeleteSpecs
  NoValue = none
  ZoneViews <- SteadyZone
  ServerViews <- SteadyServer
  MaxGen = 2
  MaxForeign = 0
  Faults = {}
  MaxFaults = 0
INVARIANTS AppliedMeansServed AtMostOneApplied
PROPERTIES EventuallyBothConflict DeletionCompletes
