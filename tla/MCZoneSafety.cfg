SPECIFICATION Spec
CHECK_DEADLOCK FALSE
CONSTANTS
  Zones = {z1}
  Names = {n1}
  NameOf <- OneName
  Metas = {"native", "secondary"}
  SecondaryMetas = {"secondary"}
  Specs <- AllSpecs
  ServerViews <- SteadyServer
  MaxGen = 3
  MaxForeign = 0
  Faults = {"err", "lost", "crash"}
  MaxFaults = 1
INVARIANTS
  TypeOK
  ReadyMeansServed
  NoUnownedZone
  LodgedDSStaysValid
PROPERTIES ImplementsRegistry StrandedByFault
