SPECIFICATION Spec
CHECK_DEADLOCK FALSE
CONSTANTS
  Zones = {z1}
  Names = {n1}
  NameOf <- OneName
  Metas = {"native"}
  SecondaryMetas = {}
  Specs <- SomeSpecs
  ServerViews <- ChangingServer
  MaxGen = 2
  MaxForeign = 1
  Faults = {"late"}
  MaxFaults = 1
INVARIANTS ReadyMeansSeeded
PROPERTIES EventuallyReady DeletionCompletes
