SPECIFICATION HandoverSpec
CHECK_DEADLOCK FALSE
CONSTANTS
  Zones = {z1}
  Names = {n1}
  NameOf <- OneName
  Metas = {"native", "primary"}
  SecondaryMetas = {}
  Specs <- PlainSpecs
  ServerViews <- SteadyServer
  MaxGen = 2
  MaxForeign = 0
  Faults = {"err", "lost"}
  MaxFaults = 1
  MaxOverlap = 1
INVARIANT TruthReturns
PROPERTY StatusNeverRegresses
