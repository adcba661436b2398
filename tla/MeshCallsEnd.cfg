CONSTANTS
  None = None
  Reactors = {a, b}
  a = a
  b = b
  Pool = pool
  Names = {main}
  Main = main
  Tasks = {t1}
  c1 = c1
  c2 = c2
  c3 = c3
  Clients = {c1}
  Targets <- OneReactor
  MeshIds <- MCMeshIds
  Uses <- MCUses
  Spec1 = u
  Faults = {"gateway"}
  MaxTroubles = 1
  MaxWire = 0

SPECIFICATION FairSpec
CHECK_DEADLOCK FALSE
PROPERTIES
  MeshCallsEnd
