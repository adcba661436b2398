CONSTANTS
  None = None
  Names = {a, b}
  Workers = {w1}
  Slots = {s1}
  Specs = {u}
  KindOf <- Reactors
  Initial <- NoneYet
  Timely = FALSE
  MaxWire = 0
  MaxUp = 1
  MaxBeats = 0
  MaxLoads = 1
  Faults = {"crash", "torn write", "gateway reboot", "torn save", "loss", "fetch", "start", "restart", "silence"}
  MaxQueue = 2
  MaxFaults = 1
  MaxRequests = 2

SPECIFICATION Spec
SYMMETRY Symmetry
INVARIANTS
  TypeOK
PROPERTIES
  StaysAtRest
