CONSTANTS
  None = None
  Names = {a}
  Workers = {w1, w2}
  Slots = {s1}
  Specs = {u}
  KindOf <- Reactors
  Initial <- NoneYet
  Timely = TRUE
  MaxWire = 0
  MaxUp = 1
  MaxBeats = 0
  MaxLoads = 1
  Faults = {"crash", "torn write", "gateway reboot", "torn save", "loss", "fetch", "start", "silence"}
  MaxQueue = 3
  MaxFaults = 1
  MaxRequests = 1

SPECIFICATION FairSpec
PROPERTIES
  Convergence
