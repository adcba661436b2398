CONSTANTS
  None = None
  Reactors = {}
  a = a
  b = b
  Pool = pool
  Names = {main}
  Main = main
  Tasks = {t1, t2}
  c1 = c1
  c2 = c2
  c3 = c3
  Clients = {c1, c2, c3}
  Targets <- AllPool
  MeshIds <- NoMeshIds
  Uses <- MCUses
  Spec1 = u
  Faults = {}
  MaxTroubles = 2
  MaxWire = 0

SPECIFICATION FairSpec
CHECK_DEADLOCK FALSE
INVARIANTS
  OneCoroutine
