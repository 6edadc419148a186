SPECIFICATION Spec
CONSTANTS
  c1 = c1
  c2 = c2
  c3 = c3
  c4 = c4
  s1 = s1
  s2 = s2
  s3 = s3
  NoSub = NoSub
  Clients <- MCClients
  Subs <- MCSubs
  InitialBuckets = 2
  MaxBuckets = 2
CHECK_DEADLOCK FALSE
SYMMETRY Symmetry
INVARIANTS
  TypeOK
  FreeCountExact
  OwnersKeepTheirSlot
  NoStaleCompose
PROPERTY ImplementsService
