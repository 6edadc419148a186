SPECIFICATION SessionSpec
CONSTANTS
  a1 = a1
  a2 = a2
  a3 = a3
  Addr <- MCAddr
  Vars = {0, 1}
  False = False
  True = True
  NoNode = NoNode
  Ops = {"EXISTS"}
  Arity = 1
  CacheSize = 1
  TableSizes = {2, 3}
  InitialSize = 2
  gcratio = 3
  resizeratio = 2
  MaxHandles = 1
  var1 = var1
  var2 = var2
  slot1 = slot1
  slot2 = slot2
  Variables <- MCVars
  Slots <- MCSlots
  sizes <- MCSizes
  Literals = {0}
SYMMETRY SessionSymmetry
INVARIANTS
  TypeOK
  Canonical
  RefCountExact
  DeadCountExact
  NoDangling
  ScopesRespected
  MeaningExact
PROPERTIES
  KeepsUsedNodes
  CacheKeepsMeaning
  ImplementsFunctions
  OnlyUniversalsStray
