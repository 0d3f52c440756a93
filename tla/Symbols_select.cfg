SPECIFICATION Spec
CONSTANTS
  K <- SelectTree
  Modules = "MODULES"
  None = None
  Missing = Missing
  MenuOrder <- SelectOrder
  HashOrders <- BothWays
  EditedFiles <- FewFiles
  Defconfigs <- NoneOrFile
  Envs <- SelectEnv
  MaxSets = 1
INVARIANTS
  Coherent
PROPERTIES
  RoundTrip
  LoadDiscards
  SetTakes
