SPECIFICATION PlaneSpec
CHECK_DEADLOCK FALSE
CONSTANTS
  Zones = {z1}
  TheZone = z1
  Names = {n1}
  NameOf <- OneName
  Metas = {"native"}
  SecondaryMetas = {}
  Specs <- DeleteSpecs
  ServerViews <- SteadyServer
  MaxGen = 2
  MaxForeign = 0
  Faults = {"err", "crash"}
  MaxFaults = 1
  RRs = {r1}
  Keys = {k1}
  KeyOf <- OneKey
  Contents = {"a"}
  Canon <- OneContent
  Values <- OneValue
  NoValue = none
  RRSpecs <- DeleteRRs
  MaxRRGen = 1
INVARIANTS RecordsOwned
PROPERTIES
  RecordsReturn
  DeletedRecordsGo
