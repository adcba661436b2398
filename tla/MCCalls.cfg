CONSTANTS
  None = None
  Reactors = {a, b}
  Pool = pool
  Names = {main}
  Main = main
  Tasks = {t1, t2}
  c1 = c1
  c2 = c2
  c3 = c3
  a = a
  b = b
  Clients = {c1, c2}
  Targets <- MCTargets
  MeshIds <- MCMeshIds
  Uses <- MCUses
  Spec1 = u
  Faults = {"link", "reply", "assignment", "gateway"}
  MaxTroubles = 3
  MaxWire = 0

SPECIFICATION FairSpec
CHECK_DEADLOCK FALSE
INVARIANTS
  TypeOK
  OneCopy
  QueueServed
PROPERTIES
  AnsweredOnce
  AskedEnds
  SlotsServe
