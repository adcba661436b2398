CONSTANTS
  None = None
  Names = {a, b}
  Workers = {w1}
  Slots = {s1}
  Specs = {u}
  KindOf <- Reactors
  Initial <- NoneYet
  Timely = TRUE
  MaxWire = 0
  MaxUp = 1
  MaxBeats = 0
  MaxLoads = 1
  Faults = {"crash"}
  MaxQueue = 3
  MaxFaults = 1
  MaxRequests = 3

SPECIFICATION Spec
INVARIANTS
  ServesItsName
