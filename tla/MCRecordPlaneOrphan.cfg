SPECIFICATION PlaneSpec
CHECK_DEADLOCK FALSE
CONSTANTS
  Zones = {z1}
  TheZone = z1
  Names = {n1}
  NameOf <- OneName
  Metas = {"native"}
  SecondaryMetas = {}
  Specs <- OrphanSpecs
  ServerViews <- SteadyServer
  MaxGen = 1
  MaxForeign = 0
  Faults = {}
  MaxFaults = 0
  RRs = {r1}
  Keys = {k1}
  KeyOf <- OneKey
  Contents = {"a"}
  Canon <- OneContent
  Values <- OneValue
  NoValue = none
  RRSpecs <- DeleteRRs
  MaxRRGen = 1
PROPERTIES
  DeletedRecordsGo
