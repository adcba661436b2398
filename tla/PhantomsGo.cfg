CONSTANTS
  None = None
  Names = {a}
  Workers = {w1}
  Slots = {s1}
  Specs = {u}
  KindOf <- Reactors
  Initial <- AllWanted
  Timely = TRUE
  MaxWire = 0
  MaxUp = 1
  MaxBeats = 0
  MaxLoads = 1
  Faults = {"crash", "restart"}
  MaxQueue = 3
  MaxFaults = 2
  MaxRequests = 0

SPECIFICATION FairSpec
PROPERTIES
  PhantomsGo
