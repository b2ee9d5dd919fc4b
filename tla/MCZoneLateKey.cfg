SPECIFICATION Spec
CHECK_DEADLOCK FALSE
CONSTANTS
  Zones = {z1}
  Names = {n1}
  NameOf <- OneName
  Metas = {"native"}
  SecondaryMetas = {}
  Specs <- AllSpecs
  ServerViews <- SteadyServer
  MaxGen = 3
  MaxForeign = 0
  Faults = {"late"}
  MaxFaults = 1
PROPERTIES
  LodgedDSRecovers
