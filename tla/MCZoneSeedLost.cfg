SPECIFICATION Spec
CHECK_DEADLOCK FALSE
CONSTANTS
  Zones = {z1}
  Names = {n1}
  NameOf <- OneName
  Metas = {"native"}
  SecondaryMetas = {}
  Specs <- AllSpecs
  ServerViews <- SteadyServer
  MaxGen = 1
  MaxForeign = 0
  Faults = {"lost"}
  MaxFaults = 1
INVARIANTS
  ReadyMeansSeeded
