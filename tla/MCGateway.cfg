CONSTANTS
  None = None
  Names = {a, b}
  Workers = {w1, w2}
  Slots = {s1}
  Specs = {u}
  Ids = {}
  Calls = {c1}
  MaxWire = 0

SPECIFICATION PlanSpec
SYMMETRY Symmetry
INVARIANTS
  TypeOK
  PlacedIsRegistered
  PlacedIsKnown
  RegistryIsSaved
PROPERTIES
  TickSettles
  AdoptsBeforeAssigning
